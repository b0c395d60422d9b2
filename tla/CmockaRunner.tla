---------------------------- MODULE CmockaRunner ----------------------------
(***************************************************************************)
(* The test runner of cmocka.c: a group of tests with their fixtures, and  *)
(* the list of allocated blocks by which it finds leaks.  What a test or a *)
(* fixture does is up to it: it allocates and frees, overruns blocks,      *)
(* leaves expectations behind, fails, skips, raises an exception or        *)
(* returns.  A group all of whose tests have a name and a function.        *)
(*                                                                         *)
(* A block is its number, who allocated it and whether its guard bytes are *)
(* sound; the list keeps the order of allocation.  A check point is the    *)
(* address of the last node at that time, and is given by the number of    *)
(* the block that is there, 0 being the head of the list: of a later block *)
(* once the first is freed and its memory handed out again.                *)
(***************************************************************************)
EXTENDS Integers, Sequences, SequencesExt

CONSTANTS Tests,     \* sequence of [setup, teardown : BOOLEAN]
          Group,     \* [setup, teardown : BOOLEAN]
          MaxMade    \* bound: blocks allocated in a behaviour

ASSUME RunnerAssumption ==
  /\ Tests \in Seq([setup : BOOLEAN, teardown : BOOLEAN])
  /\ Group \in [setup : BOOLEAN, teardown : BOOLEAN]
  /\ MaxMade \in Nat

VARIABLES
  at,         \* the function whose turn it is: [kind, test]
  running,    \* global_running_test
  blocks,     \* global_allocated_blocks
  made,       \* how many blocks were ever allocated
  check,      \* check points: of the test (NULL without setup), of the function
  skip,       \* global_skip_test
  expecting,  \* global_expecting_assert: "no", "here" or "stale", when the
              \* function that set it has been left
  status,     \* test -> its status
  total,      \* the counters
  exit,       \* "none", "returned", "exited" by exit(-1), or "crashed"
  truth,      \* history: test -> how its function ended
  unfit,      \* history: tests one of whose fixtures failed
  astray,     \* history: a fixture has called skip()
  reused      \* history: tests during which the memory of a freed check point
              \* was handed out again, and 0 for the group

report == <<status, total, truth, unfit, astray>>
runnerVars == <<at, running, blocks, made, check, skip, expecting, exit, report, reused>>

NULL_CHECK == -1
Function(kind, t) == [kind |-> kind, test |-> t]

RunnerInit ==
  /\ at = Function("group_setup", 0) /\ running = FALSE
  /\ blocks = <<>> /\ made = 0
  /\ check = [test |-> NULL_CHECK, func |-> 0]
  /\ skip = FALSE /\ expecting = "no"
  /\ status = [t \in DOMAIN Tests |-> "NOT_STARTED"]
  /\ total = [PASSED |-> 0, FAILED |-> 0, ERROR |-> 0, SKIPPED |-> 0]
  /\ exit = "none"
  /\ truth = [t \in DOMAIN Tests |-> "none"]
  /\ unfit = {} /\ astray = FALSE /\ reused = {}
-----------------------------------------------------------------------------
(* What a running function does.                                           *)
InFunction == running /\ exit = "none"
NewBlock == [id |-> made + 1, by |-> at, guard |-> TRUE]

(* The block of a check point has been freed.                              *)
Dead(cp) == cp > 0 /\ \A i \in DOMAIN blocks : blocks[i].id # cp

(* libc_malloc hands out new memory, or that of a freed check point, which *)
(* is then the new block: the address is the same.                         *)
Allocate ==
  /\ made < MaxMade /\ made' = made + 1
  /\ \/ UNCHANGED <<check, reused>>
     \/ \E cp \in {check.test, check.func} :
          /\ Dead(cp)
          /\ check' = [test |-> IF check.test = cp THEN made + 1 ELSE check.test,
                       func |-> IF check.func = cp THEN made + 1 ELSE check.func]
          /\ reused' = reused \union {at.test}

_test_malloc == Allocate /\ blocks' = Append(blocks, NewBlock)

(* Nobody keeps a block from being freed that is a check point.            *)
_test_free ==
  \E i \in DOMAIN blocks :
    blocks[i].guard /\ blocks' = RemoveAt(blocks, i) /\ UNCHANGED <<made, check, reused>>

_test_realloc ==
  \E i \in DOMAIN blocks :
    blocks[i].guard /\ Allocate /\ blocks' = RemoveAt(Append(blocks, NewBlock), i)

(* The program under test writes past the end of a block.                  *)
Overrun ==
  \E i \in DOMAIN blocks :
    /\ blocks[i].guard /\ blocks' = [blocks EXCEPT ![i].guard = FALSE]
    /\ UNCHANGED <<made, check, reused>>

UseHeap ==
  /\ InFunction
  /\ _test_malloc \/ _test_free \/ _test_realloc \/ Overrun
  /\ UNCHANGED <<at, running, skip, expecting, exit, report>>

(* expect_assert_failure waits for an assertion of the program to fail.    *)
expect_assert_failure ==
  /\ InFunction /\ expecting # "here" /\ expecting' = "here"
  /\ UNCHANGED <<at, running, blocks, made, check, skip, exit, report, reused>>

(* An assertion of the program fails and is expected.  The jump goes to    *)
(* the function that expects it, which may be gone.                        *)
mock_assert ==
  /\ InFunction /\ expecting # "no"
  /\ expecting' = "no"
  /\ exit' = IF expecting = "here" THEN exit ELSE "crashed"
  /\ UNCHANGED <<at, running, blocks, made, check, skip, report, reused>>
-----------------------------------------------------------------------------
check_point_allocated_blocks == IF blocks = <<>> THEN 0 ELSE blocks[Len(blocks)].id

(* The position of a check point in the list.                              *)
Position(cp) == IF cp = 0 THEN 0 ELSE CHOOSE i \in DOMAIN blocks : blocks[i].id = cp

display_allocated_blocks(cp) == Len(blocks) - Position(cp)

(* The blocks after the check point are freed one by one, up to one whose  *)
(* guard is broken: _test_free then leaves the test.                       *)
free_allocated_blocks(cp) ==
  LET p == Position(cp)
      broken == {i \in p+1 .. Len(blocks) : ~blocks[i].guard}
      rest == IF broken = {} THEN <<>>
              ELSE SubSeq(blocks, CHOOSE i \in broken : \A j \in broken : i <= j, Len(blocks))
  IN  SubSeq(blocks, 1, p) \o rest

HasFunction(f) ==
  CASE f.kind = "group_setup" -> Group.setup
    [] f.kind = "group_teardown" -> Group.teardown
    [] f.kind = "setup" -> Tests[f.test].setup
    [] f.kind = "teardown" -> Tests[f.test].teardown
    [] OTHER -> TRUE

(* Slip: every function is checked from where it starts.                   *)
CheckPointOf_now(f) == check_point_allocated_blocks

(* The check point handed to a function, or the present one.  A setup      *)
(* hands its own to the teardown of the test.                              *)
CheckPointOf(f) ==
  CASE f.kind \in {"group_setup", "group_teardown"} -> 0
    [] f.kind = "teardown" /\ check.test # NULL_CHECK -> check.test
    [] OTHER -> check_point_allocated_blocks

(* The beginning of cmocka_run_one_test_or_fixture.                        *)
BeginFunction ==
  /\ ~running /\ exit = "none" /\ at.kind # "finish" /\ HasFunction(at)
  /\ running' = TRUE
  /\ check' = [func |-> CheckPointOf(at),
               test |-> IF at.kind = "setup" THEN check_point_allocated_blocks ELSE check.test]
  /\ UNCHANGED <<at, blocks, made, skip, expecting, exit, report, reused>>
-----------------------------------------------------------------------------
(* The loop over the tests goes on with test t, if there is one.           *)
FromTest(t) == IF t <= Len(Tests) THEN Function("setup", t) ELSE Function("group_teardown", 0)

(* The test is over with status s: it is counted, and the next one follows.*)
Conclude(t, s) ==
  /\ status' = [status EXCEPT ![t] = s]
  /\ total' = [total EXCEPT ![s] = @ + 1]
  /\ at' = FromTest(t + 1)

(* What is left of the flag when a test has not passed.                    *)
SkipAfter(skipped) == FALSE

(* Slip: a failed teardown is printed only.                                *)
StatusAfterTeardown_kept(t, rc) == status[t]

(* The status of a test when its teardown is over.                         *)
StatusAfterTeardown(t, rc) == IF rc = 0 THEN status[t] ELSE "ERROR"

(* What the runner does with the result of a function, or without one; a   *)
(* failed group teardown is printed and not counted.                       *)
Continue(rc, skipped) ==
  LET t == at.test IN
  \/ /\ at.kind = "group_setup"
     /\ IF rc = 0 THEN at' = FromTest(1) /\ UNCHANGED total
        ELSE at' = Function("group_teardown", 0) /\ total' = [total EXCEPT !.ERROR = @ + 1]
     /\ skip' = skipped /\ UNCHANGED status
  \/ /\ at.kind = "setup"
     /\ IF rc = 0 THEN at' = Function("test", t) /\ UNCHANGED <<status, total>>
        ELSE Conclude(t, "ERROR")
     /\ skip' = skipped
  \/ /\ at.kind = "test"
     /\ at' = Function("teardown", t)
     /\ status' = [status EXCEPT ![t] = IF rc = 0 THEN "PASSED"
                                        ELSE IF skipped THEN "SKIPPED" ELSE "FAILED"]
     /\ skip' = IF rc = 0 THEN skipped ELSE SkipAfter(skipped)
     /\ UNCHANGED total
  \/ /\ at.kind = "teardown"
     /\ Conclude(t, StatusAfterTeardown(t, rc))
     /\ skip' = skipped
  \/ /\ at.kind = "group_teardown"
     /\ at' = Function("finish", 0)
     /\ skip' = skipped /\ UNCHANGED <<status, total>>

NoFunction ==
  /\ ~running /\ exit = "none" /\ at.kind # "finish" /\ ~HasFunction(at)
  /\ Continue(0, skip)
  /\ check' = [check EXCEPT !.test = IF at.kind = "setup" THEN NULL_CHECK ELSE @]
  /\ UNCHANGED <<running, blocks, made, expecting, exit, truth, unfit, astray, reused>>

(* History: the function whose turn it is has ended with result rc.        *)
Remember(rc, how) ==
  /\ truth' = IF at.kind = "test" THEN [truth EXCEPT ![at.test] = IF rc = 0 THEN "ok" ELSE how]
              ELSE truth
  /\ unfit' = IF at.kind \in {"setup", "teardown"} /\ rc # 0 THEN unfit \union {at.test}
              ELSE unfit
  /\ astray' = (astray \/ (how = "skip" /\ at.kind # "test"))

(* cmocka_run_one_test_or_fixture from the end of the function on: it has  *)
(* left the function with result rc, and the blocks are what they are.     *)
EndFunction(rc, left, how) ==
  /\ running' = FALSE
  /\ blocks' = left
  /\ Continue(rc, skip \/ how = "skip")
  /\ Remember(rc, how)
  /\ UNCHANGED <<made, check, exit, reused>>

(* An assertion that is expected when the function is left stays so.       *)
Left == expecting' = IF expecting = "here" THEN "stale" ELSE expecting

(* The function returns; a fixture returns a result of its own.  Blocks    *)
(* still allocated, or expectations left, fail it after all.  A setup is   *)
(* not asked for its blocks.                                               *)
Return(userRc, leftover) ==
  LET asked == at.kind \notin {"setup", "group_setup"}
      leaked == asked /\ display_allocated_blocks(check.func) > 0
  IN
  /\ InFunction /\ expecting # "here"
  /\ at.kind = "test" => userRc = 0
  /\ ~(asked /\ Dead(check.func))
  /\ IF leaked THEN EndFunction(-1, free_allocated_blocks(check.func), "bad")
     ELSE EndFunction(IF leftover THEN -1 ELSE userRc, blocks, "bad")
  /\ Left

(* It returns, and the check point it is asked from is freed memory: what  *)
(* is read there ends in a signal, which is caught, or in anything else.   *)
ReturnAstray ==
  /\ InFunction /\ expecting # "here"
  /\ at.kind \notin {"setup", "group_setup"} /\ Dead(check.func)
  /\ \/ EndFunction(-1, blocks, "bad") /\ Left
     \/ exit' = "crashed"
        /\ UNCHANGED <<at, running, blocks, made, check, skip, expecting, report, reused>>

(* exit_test: an assertion fails, a guard is broken at a free, an          *)
(* exception is raised, or _skip is called.                                *)
Abandon(how) == InFunction /\ EndFunction(-1, blocks, how) /\ Left

(* The expected assertion did not fail.                                    *)
ExpectedAssertMissing ==
  InFunction /\ expecting = "here" /\ EndFunction(-1, blocks, "bad") /\ expecting' = "no"

(* The end of _cmocka_run_group_tests.  No test is running any more, so    *)
(* blocks that are left end the program.                                   *)
Finish ==
  /\ at.kind = "finish" /\ exit = "none"
  /\ exit' = IF display_allocated_blocks(0) > 0 THEN "exited" ELSE "returned"
  /\ blocks' = free_allocated_blocks(0)
  /\ UNCHANGED <<at, running, made, check, skip, expecting, report, reused>>

RunnerNext ==
  \/ BeginFunction \/ NoFunction \/ Finish
  \/ UseHeap \/ expect_assert_failure \/ mock_assert \/ ExpectedAssertMissing
  \/ \E userRc \in 0..1, leftover \in BOOLEAN : Return(userRc, leftover)
  \/ ReturnAstray
  \/ \E how \in {"bad", "skip"} : Abandon(how)

RunnerSpec == RunnerInit /\ [][RunnerNext]_runnerVars
-----------------------------------------------------------------------------
(* The report is true: a test is an error exactly when one of its fixtures *)
(* failed; one that passed returned from its function, which left neither  *)
(* blocks nor expectations that were seen; one reported as skipped called  *)
(* skip(), and one whose function failed is never green.  The exception is *)
(* what the code does after a fixture has called skip(): the flag stays up *)
(* and the next test that fails is reported as skipped.  A group that      *)
(* returns 0 has run every test.                                           *)
ReportIsTrue ==
  /\ \A t \in DOMAIN Tests :
       /\ status[t] = "ERROR" <=> t \in unfit
       /\ status[t] = "PASSED" => truth[t] = "ok"
       /\ status[t] = "FAILED" => truth[t] = "bad"
       /\ status[t] = "SKIPPED" => truth[t] = "skip" \/ (truth[t] = "bad" /\ astray)
  /\ exit = "returned" /\ total.FAILED + total.ERROR = 0 =>
       \A t \in DOMAIN Tests : status[t] \in {"PASSED", "SKIPPED"}

(* Test t is over.                                                         *)
Over(t) == at.test > t \/ at.kind \in {"group_teardown", "finish"}

(* A test that is reported as passed has left nothing allocated, be it by  *)
(* its function or, when there is a teardown to look for it, by its        *)
(* fixtures.  The exception is a test that freed the block of a check      *)
(* point and was given the same memory again: what lies before the new     *)
(* block is then overlooked.                                               *)
LeaksAreNoticed ==
  \A t \in DOMAIN Tests :
    Over(t) /\ status[t] = "PASSED" /\ t \notin reused =>
      \A i \in DOMAIN blocks :
        blocks[i].by.test = t => blocks[i].by.kind = "setup" /\ ~Tests[t].teardown
=============================================================================
