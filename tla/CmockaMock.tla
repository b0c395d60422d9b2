----------------------------- MODULE CmockaMock -----------------------------
(***************************************************************************)
(* The expectations of cmocka.c: values that mock functions are to return, *)
(* checks of the parameters they are called with, and the order in which   *)
(* they are to be called, from initialize_testing to teardown_testing of   *)
(* one test function.                                                      *)
(*                                                                         *)
(* A declaration is known by its number, which is also the value it makes  *)
(* a mock return, and its heap memory.  The two levels of the symbol maps  *)
(* are one: a symbol is a function, or a function with its parameter, and  *)
(* a symbol without values has no node.  A string or a piece of memory is  *)
(* what it holds.                                                          *)
(***************************************************************************)
EXTENDS Integers, Sequences, SequencesExt

CONSTANTS Functions,     \* names of mock functions
          Parameters,    \* symbols <<function, parameter>>
          Counts,        \* the counts of declarations
          Checks,        \* the parameter checks, records with a kind
          Arguments,     \* values parameters are given
          MaxDeclared    \* bound: declarations of a test

ASSUME MockAssumption == Counts \subseteq Int /\ MaxDeclared \in Nat

VARIABLES
  result_map,     \* global_function_result_map_head: function -> nodes
  parameter_map,  \* global_function_parameter_map_head: symbol -> nodes
  call_ordering,  \* global_call_ordering_head: nodes
  memory,         \* numbers of the declarations whose memory is allocated
  stage,          \* "running", "failed" (left by longjmp), "passed", "over"
  verdict,        \* how the test ended
  declared,       \* history: the declarations and how often each was used
  left_in         \* history: the declaration in whose making or last use the
                  \* test was left by longjmp, as a set

mockVars ==
  <<result_map, parameter_map, call_ordering, memory, stage, verdict, declared, left_in>>

WILL_RETURN_ALWAYS == -1
WILL_RETURN_ONCE == -2

(* initialize_testing.                                                     *)
MockInit ==
  /\ result_map = [f \in Functions |-> <<>>]
  /\ parameter_map = [s \in Parameters |-> <<>>]
  /\ call_ordering = <<>>
  /\ memory = {} /\ stage = "running" /\ verdict = "none" /\ declared = <<>>
  /\ left_in = {}

Node(count, what) == [id |-> Len(declared) + 1, refcount |-> count, what |-> what]

(* exit_test: the lists stay as they are until teardown_testing.           *)
exit_test == stage' = "failed" /\ verdict' = "failed"

(* malloc, then list_add_value or add_symbol_value: at the tail of the     *)
(* list.                                                                   *)
Declare(sort, key, count) ==
  /\ stage = "running" /\ Len(declared) < MaxDeclared
  /\ declared' = Append(declared, [sort |-> sort, key |-> key, count |-> count, used |-> 0])
  /\ memory' = memory \union {Len(declared) + 1}

_will_return(f, count) ==
  /\ count # 0
  /\ Declare("result", f, count)
  /\ result_map' = [result_map EXCEPT ![f] = Append(@, Node(count, f))]
  /\ UNCHANGED <<parameter_map, call_ordering, stage, verdict, left_in>>

(* With the count 0: the assertion comes behind the malloc, and nothing is *)
(* declared.                                                               *)
_will_return_nothing ==
  /\ stage = "running"
  /\ memory' = memory \union {Len(declared) + 1}
  /\ left_in' = {Len(declared) + 1}
  /\ exit_test
  /\ UNCHANGED <<result_map, parameter_map, call_ordering, declared>>

(* Nobody refuses the count 0 here.                                        *)
_expect_check(s, check, count) ==
  /\ Declare("parameter", s, count)
  /\ parameter_map' = [parameter_map EXCEPT ![s] = Append(@, Node(count, check))]
  /\ UNCHANGED <<result_map, call_ordering, stage, verdict, left_in>>

(* Here the assertion comes first, as if the test had called _fail.        *)
_expect_function_call(f, count) ==
  /\ count # 0
  /\ Declare("call", f, count)
  /\ call_ordering' = Append(call_ordering, Node(count, f))
  /\ UNCHANGED <<result_map, parameter_map, stage, verdict, left_in>>

(* History: another use of declaration n, counted as far as it matters.    *)
Use(n) ==
  declared' = [declared EXCEPT ![n].used =
                 IF declared[n].count < 0 THEN 1 ELSE @ + 1]

(* The list behind get_symbol_value: the first node goes with its last     *)
(* use, is counted down, or stays when its value is returned for ever.     *)
Taken(q) ==
  IF q[1].refcount = 1 THEN Tail(q)
  ELSE IF q[1].refcount > WILL_RETURN_ONCE THEN [q EXCEPT ![1].refcount = @ - 1]
  ELSE q

(* Slip: the caller keeps the value after its last use.                    *)
FreedBy_never(q) == {}

(* The caller of get_symbol_value frees the value when it was the last use.*)
FreedBy(q) == IF q[1].refcount = 1 THEN {q[1].id} ELSE {}

_mock(f) ==
  LET q == result_map[f] IN
  /\ stage = "running"
  /\ \/ /\ q # <<>>
        /\ result_map' = [result_map EXCEPT ![f] = Taken(q)]
        /\ memory' = memory \ FreedBy(q)
        /\ Use(q[1].id)
        /\ UNCHANGED <<stage, verdict>>
     \/ q = <<>> /\ exit_test /\ UNCHANGED <<result_map, memory, declared>>
  /\ UNCHANGED <<parameter_map, call_ordering, left_in>>
-----------------------------------------------------------------------------
value_in_set(value, set) == value \in set
integer_in_range(value, minimum, maximum) == value >= minimum /\ value <= maximum
integer_not_in_range(value, minimum, maximum) == value < minimum \/ value > maximum
values_equal(left, right) == left = right

(* The callbacks check_in_set and so on; strings and memory are compared   *)
(* by what they hold, and a custom check accepts what it likes.            *)
check_value(c, value) ==
  CASE c.kind \in {"in_set", "custom"} -> value_in_set(value, c.set)
    [] c.kind = "not_in_set" -> ~value_in_set(value, c.set)
    [] c.kind = "in_range" -> integer_in_range(value, c.minimum, c.maximum)
    [] c.kind = "not_in_range" -> integer_not_in_range(value, c.minimum, c.maximum)
    [] c.kind \in {"value", "string", "memory"} -> values_equal(value, c.value)
    [] c.kind \in {"not_value", "not_string", "not_memory"} -> ~values_equal(value, c.value)
    [] c.kind = "any" -> TRUE

(* A custom check may assert, and a string or memory to compare may not be *)
(* there, which is a signal: both leave the test by longjmp.               *)
MayLeave(c) == c.kind \in {"custom", "string", "not_string", "memory", "not_memory"}

(* get_symbol_value hands out the first check, or returns its refcount 0,  *)
(* which means none.  The check is freed after its last use and before a   *)
(* failure is reported, unless it is left: its node is gone by then.       *)
_check_expected(s, value) ==
  LET q == parameter_map[s] IN
  /\ stage = "running"
  /\ \/ /\ q # <<>> /\ q[1].refcount # 0
        /\ parameter_map' = [parameter_map EXCEPT ![s] = Taken(q)]
        /\ Use(q[1].id)
        /\ \/ /\ memory' = memory \ FreedBy(q)
              /\ IF check_value(q[1].what, value) THEN UNCHANGED <<stage, verdict>> ELSE exit_test
              /\ UNCHANGED left_in
           \/ /\ MayLeave(q[1].what)
              /\ left_in' = FreedBy(q)
              /\ exit_test
              /\ UNCHANGED memory
     \/ /\ q # <<>> /\ q[1].refcount = 0
        /\ parameter_map' = [parameter_map EXCEPT ![s] = Taken(q)]
        /\ exit_test
        /\ UNCHANGED <<memory, declared, left_in>>
     \/ q = <<>> /\ exit_test /\ UNCHANGED <<parameter_map, memory, declared, left_in>>
  /\ UNCHANGED <<result_map, call_ordering>>

(* Slip: a call is looked for in all of the list.                          *)
Sought_anywhere(f) == {i \in DOMAIN call_ordering : call_ordering[i].what = f}

(* Where _function_called finds the node of a call: the first node, or,    *)
(* from a node that needs no further call on, past all such nodes.         *)
Sought(f) ==
  {i \in DOMAIN call_ordering :
     /\ call_ordering[i].what = f
     /\ \A j \in 1..i-1 : call_ordering[j].refcount < -1}

(* At the end of the list, at a call that must come first, and when a lone *)
(* ignored call makes it look at the head of the list (an exception, which *)
(* is caught), the test fails.                                             *)
_function_called(f) ==
  /\ stage = "running"
  /\ \/ \E i \in Sought(f) :
          LET n == call_ordering[i] IN
          /\ \A j \in Sought(f) : i <= j
          /\ Use(n.id)
          /\ call_ordering' =
               IF n.refcount = 1 THEN RemoveAt(call_ordering, i)
               ELSE IF n.refcount > -2 THEN [call_ordering EXCEPT ![i].refcount = @ - 1]
               ELSE call_ordering
          /\ memory' = IF n.refcount = 1 THEN memory \ {n.id} ELSE memory
          /\ UNCHANGED <<stage, verdict>>
     \/ Sought(f) = {} /\ exit_test /\ UNCHANGED <<call_ordering, memory, declared>>
  /\ UNCHANGED <<result_map, parameter_map, left_in>>
-----------------------------------------------------------------------------
(* Slip: the values that are always returned are removed unused as well.   *)
Removable_unused(n) == n.refcount < 0

(* Returned for ever, and returned once at least if it had to be.          *)
Removable(n) == n.refcount < -1

(* Only the first value of a symbol is removed, but every node of calls.   *)
remove_always_return_values(map) ==
  [s \in DOMAIN map |-> IF map[s] # <<>> /\ Removable(Head(map[s])) THEN Tail(map[s]) ELSE map[s]]

remove_always_return_values_from_list(q) ==
  LET Kept[i \in 0..Len(q)] == IF i = 0 THEN <<>>
                               ELSE IF Removable(q[i]) THEN Kept[i-1] ELSE Append(Kept[i-1], q[i])
  IN  Kept[Len(q)]

check_for_leftover_values(map) == \E s \in DOMAIN map : map[s] # <<>>

Ids(q) == {q[i].id : i \in DOMAIN q}
IdsOf(map) == UNION {Ids(map[s]) : s \in DOMAIN map}

(* The test function returns.                                              *)
fail_if_leftover_values ==
  LET r == remove_always_return_values(result_map)
      p == remove_always_return_values(parameter_map)
      c == remove_always_return_values_from_list(call_ordering)
      left == check_for_leftover_values(r) \/ check_for_leftover_values(p) \/ c # <<>>
  IN
  /\ stage = "running"
  /\ result_map' = r /\ parameter_map' = p /\ call_ordering' = c
  /\ memory' = memory \ ((IdsOf(result_map) \ IdsOf(r)) \union (IdsOf(parameter_map) \ IdsOf(p))
                         \union (Ids(call_ordering) \ Ids(c)))
  /\ IF left THEN exit_test ELSE stage' = "passed" /\ verdict' = "passed"
  /\ UNCHANGED <<declared, left_in>>

(* An assertion of the test fails, or it is left for another reason.       *)
_fail ==
  /\ stage = "running" /\ exit_test
  /\ UNCHANGED <<result_map, parameter_map, call_ordering, memory, declared, left_in>>

(* Frees whatever is still in the lists.                                   *)
teardown_testing ==
  /\ stage \in {"failed", "passed"}
  /\ stage' = "over"
  /\ memory' = memory \ (IdsOf(result_map) \union IdsOf(parameter_map) \union Ids(call_ordering))
  /\ result_map' = [f \in Functions |-> <<>>]
  /\ parameter_map' = [s \in Parameters |-> <<>>]
  /\ call_ordering' = <<>>
  /\ UNCHANGED <<verdict, declared, left_in>>

MockNext ==
  \/ \E count \in Counts :
       \/ \E f \in Functions : _will_return(f, count) \/ _expect_function_call(f, count)
       \/ \E s \in Parameters, check \in Checks : _expect_check(s, check, count)
  \/ \E f \in Functions :
       \/ _mock(f)
       \/ _function_called(f)
  \/ 0 \in Counts /\ _will_return_nothing
  \/ \E s \in Parameters, value \in Arguments : _check_expected(s, value)
  \/ fail_if_leftover_values \/ _fail \/ teardown_testing

MockSpec == MockInit /\ [][MockNext]_mockVars
-----------------------------------------------------------------------------
Of(sort, key) == {n \in DOMAIN declared : declared[n].sort = sort /\ declared[n].key = key}

(* Everything declaration n asks for has happened.                         *)
Satisfied(n) ==
  CASE declared[n].count > 0 -> declared[n].used = declared[n].count
    [] declared[n].count = WILL_RETURN_ALWAYS -> declared[n].used = 1
    [] OTHER -> TRUE

(* Nothing more can be had of declaration n.                               *)
UsedUp(n) == declared[n].count > 0 /\ declared[n].used = declared[n].count

(* Values and checks of a symbol are used strictly in the order they were  *)
(* declared, each as often as declared; calls come in the order declared,  *)
(* except that one that needs no further call may be passed over.          *)
UsedInOrder ==
  \A m, n \in DOMAIN declared :
    m < n /\ declared[n].used > 0 /\ declared[m].sort = declared[n].sort =>
      CASE declared[n].sort = "call" -> Satisfied(m)
        [] OTHER -> declared[m].key = declared[n].key => UsedUp(m)

(* A test passes only when all that was declared has happened: every value *)
(* returned and every parameter checked as often as declared, and every    *)
(* call made.  Nothing declared behind a value that is returned for ever   *)
(* can happen, so that makes it fail as well.                              *)
PassedIsSatisfied ==
  verdict = "passed" =>
    \A n \in DOMAIN declared :
      /\ Satisfied(n)
      /\ declared[n].sort # "call" =>
           \A m \in Of(declared[n].sort, declared[n].key) : m < n => UsedUp(m)

(* No declaration is freed while it is in a list, and none is lost: its    *)
(* memory is allocated only as long as it is in a list, and after the test *)
(* nothing is left of it for the next, except the one declaration in whose *)
(* making or last check the test was left: that test has failed.           *)
DeclarationsFreed ==
  LET listed == IdsOf(result_map) \union IdsOf(parameter_map) \union Ids(call_ordering) IN
  /\ listed \subseteq memory
  /\ memory \ listed \subseteq left_in
  /\ left_in # {} => verdict = "failed"
=============================================================================
