----------------------------- MODULE LinuxList -----------------------------
(***************************************************************************)
(* The circular doubly linked list of linux_list.h.  A cell is a struct    *)
(* list_head, embedded in an entry or a list of its own; the memory maps   *)
(* every cell to its two pointers.  EXCEPT makes its updates from left to  *)
(* right, as the assignments of the code are made.  `lists' is the meaning *)
(* of the memory: the entries a caller has put on each list, in order.     *)
(***************************************************************************)
EXTENDS Integers, Sequences, SequencesExt

CONSTANTS Entries,  \* list_heads embedded in structures
          Heads     \* list_heads that are lists

ASSUME ListAssumption ==
  /\ IsFiniteSet(Entries)
  /\ Entries \intersect Heads = {}
  /\ "none" \notin Heads

VARIABLES links,  \* cell -> [next, prev]
          lists,  \* history: list -> its entries
          stale,  \* lists whose head list_splice has left behind
          iter    \* the loop under way, if any

listVars == <<links, lists, stale, iter>>

Cells == Entries \union Heads
LIST_POISON1 == "poison1"
LIST_POISON2 == "poison2"
NoLoop == [head |-> "none"]

INIT_LIST_HEAD(m, l) == [m EXCEPT ![l] = [next |-> l, prev |-> l]]

list_insert(m, new, prev, next) ==
  [m EXCEPT ![next].prev = new, ![new].next = next, ![new].prev = prev, ![prev].next = new]

list_add(m, new, head) == list_insert(m, new, head, m[head].next)

list_add_tail(m, new, head) == list_insert(m, new, m[head].prev, head)

list_del_entry(m, e) ==
  LET prev == m[e].prev  next == m[e].next
  IN  [m EXCEPT ![next].prev = prev, ![prev].next = next]

list_del(m, e) ==
  [list_del_entry(m, e) EXCEPT ![e] = [next |-> LIST_POISON1, prev |-> LIST_POISON2]]

list_del_init(m, e) == INIT_LIST_HEAD(list_del_entry(m, e), e)

(* old->prev is read after new->next->prev has been assigned, which is the *)
(* same cell when old is an empty list.                                    *)
list_replace(m, old, new) ==
  LET m1 == [m EXCEPT ![new].next = m[old].next, ![m[old].next].prev = new]
  IN  [m1 EXCEPT ![new].prev = m1[old].prev, ![m1[old].prev].next = new]

list_replace_init(m, old, new) == INIT_LIST_HEAD(list_replace(m, old, new), old)

list_move(m, e, head) == list_add(list_del_entry(m, e), e, head)

list_move_tail(m, e, head) == list_add_tail(list_del_entry(m, e), e, head)

list_is_last(m, e, head) == m[e].next = head

list_empty(m, head) == m[head].next = head

list_empty_careful(m, head) == m[head].next = head /\ m[head].next = m[head].prev

list_is_singular(m, head) == ~list_empty(m, head) /\ m[head].next = m[head].prev

list_rotate_left(m, head) ==
  IF list_empty(m, head) THEN m ELSE list_move_tail(m, m[head].next, head)

list_cut(m, list, head, entry) ==
  LET first == m[head].next  new_first == m[entry].next
  IN  [m EXCEPT ![list].next = first, ![first].prev = list, ![list].prev = entry,
                ![entry].next = list, ![head].next = new_first, ![new_first].prev = head]

list_cut_position(m, list, head, entry) ==
  IF \/ list_empty(m, head)
     \/ list_is_singular(m, head) /\ m[head].next # entry /\ head # entry
  THEN m
  ELSE IF entry = head THEN INIT_LIST_HEAD(m, list) ELSE list_cut(m, list, head, entry)

list_join_open(m, list, prev, next) ==
  [m EXCEPT ![m[list].next].prev = prev, ![prev].next = m[list].next, ![next].prev = m[list].prev]

list_join(m, list, prev, next) ==
  LET first == m[list].next  last == m[list].prev
  IN  [m EXCEPT ![first].prev = prev, ![prev].next = first,
                ![last].next = next, ![next].prev = last]

list_splice(m, list, head) ==
  IF list_empty(m, list) THEN m ELSE list_join(m, list, head, m[head].next)

list_splice_tail(m, list, head) ==
  IF list_empty(m, list) THEN m ELSE list_join(m, list, m[head].prev, head)

list_splice_init(m, list, head) ==
  IF list_empty(m, list) THEN m
  ELSE INIT_LIST_HEAD(list_join(m, list, head, m[head].next), list)

list_splice_tail_init(m, list, head) ==
  IF list_empty(m, list) THEN m
  ELSE INIT_LIST_HEAD(list_join(m, list, m[head].prev, head), list)

list_first_entry_or_null(m, head) ==
  IF list_empty(m, head) THEN "NULL" ELSE m[head].next

(* The entries from c on in one direction, until the list's head is met,   *)
(* where the loop stays; at most one more than there are, should the links *)
(* never lead back.                                                        *)
list_walk(m, head, c, dir) ==
  LET at[k \in 0 .. Cardinality(Entries)] ==
        IF k = 0 THEN c
        ELSE IF at[k-1] \in Cells \ {head} THEN m[at[k-1]][dir] ELSE at[k-1]
      end == {k \in 0 .. Cardinality(Entries) : at[k] = head}
  IN  [i \in 1 .. (IF end = {} THEN Cardinality(Entries) + 1 ELSE Min(end)) |-> at[i-1]]

list_for_each(m, head) == list_walk(m, head, m[head].next, "next")

list_for_each_prev(m, head) == list_walk(m, head, m[head].prev, "prev")

list_for_each_entry_continue(m, head, pos) == list_walk(m, head, m[pos].next, "next")

list_for_each_entry_continue_reverse(m, head, pos) == list_walk(m, head, m[pos].prev, "prev")

list_for_each_entry_from(m, head, pos) == list_walk(m, head, pos, "next")
-----------------------------------------------------------------------------
ListInit ==
  /\ links = [c \in Cells |-> [next |-> c, prev |-> c]]
  /\ lists = [h \in Heads |-> <<>>]
  /\ stale = {}
  /\ iter = NoLoop

On(h) == Range(lists[h])
Listed == UNION {On(h) : h \in Heads}
Unlisted == Entries \ Listed
Fresh == Heads \ stale
OwnerOf(c) == IF c \in Heads THEN c ELSE CHOOSE h \in Heads : c \in On(h)

(* Where a caller may insert: behind or before a list's head or an entry.  *)
Places == Fresh \union UNION {On(h) : h \in Fresh}

(* s with t put behind its first i entries.                                *)
PutAt(s, i, t) == SubSeq(s, 1, i) \o t \o SubSeq(s, i+1, Len(s))

PlaceOf(s, c) == CHOOSE j \in DOMAIN s : s[j] = c

(* The sequence s of a list with t put behind, or before, the cell c.      *)
PutBehind(s, c, t) == PutAt(s, IF c \in Heads THEN 0 ELSE PlaceOf(s, c), t)
PutBefore(s, c, t) == PutAt(s, IF c \in Heads THEN Len(s) ELSE PlaceOf(s, c) - 1, t)

Without(e) ==
  [h \in Heads |-> IF e \in On(h) THEN RemoveAt(lists[h], PlaceOf(lists[h], e)) ELSE lists[h]]

(* One call, made outside the loops that follow.                           *)
Call(m, l) == iter = NoLoop /\ links' = m /\ lists' = l /\ UNCHANGED <<stale, iter>>

Add ==
  \E e \in Unlisted, c \in Places :
    LET h == OwnerOf(c) IN
    \/ Call(list_add(links, e, c), [lists EXCEPT ![h] = PutBehind(@, c, <<e>>)])
    \/ Call(list_add_tail(links, e, c), [lists EXCEPT ![h] = PutBefore(@, c, <<e>>)])

Delete ==
  \E e \in Listed :
    \/ Call(list_del(links, e), Without(e))
    \/ Call(list_del_init(links, e), Without(e))

Replace ==
  \/ \E old \in Listed, new \in Unlisted :
       LET l == [lists EXCEPT ![OwnerOf(old)] =
                   [i \in DOMAIN @ |-> IF @[i] = old THEN new ELSE @[i]]] IN
       \/ Call(list_replace(links, old, new), l)
       \/ Call(list_replace_init(links, old, new), l)
  \/ \E old, new \in Fresh :
       /\ old # new /\ lists[new] = <<>>
       /\ Call(list_replace_init(links, old, new),
               [lists EXCEPT ![new] = lists[old], ![old] = <<>>])

Move ==
  \E e \in Listed : \E c \in Places \ {e} :
    LET h == OwnerOf(c) IN
    \/ Call(list_move(links, e, c), [Without(e) EXCEPT ![h] = PutBehind(@, c, <<e>>)])
    \/ Call(list_move_tail(links, e, c), [Without(e) EXCEPT ![h] = PutBefore(@, c, <<e>>)])

Rotate ==
  \E h \in Fresh :
    Call(list_rotate_left(links, h),
         [lists EXCEPT ![h] = IF @ = <<>> THEN @ ELSE Append(Tail(@), Head(@))])

(* The list that takes the cut part is an empty one.                       *)
Cut ==
  \E l, h \in Fresh : \E c \in On(h) \union {h} :
    LET n == IF c = h THEN 0 ELSE PlaceOf(lists[h], c) IN
    /\ l # h /\ lists[l] = <<>>
    /\ Call(list_cut_position(links, l, h, c),
            [lists EXCEPT ![l] = SubSeq(lists[h], 1, n),
                          ![h] = SubSeq(lists[h], n+1, Len(lists[h]))])

(* list_splice leaves a head that was not empty pointing at entries it no  *)
(* longer owns, until it is initialised again.                             *)
Splice ==
  \E l \in Fresh : \E c \in Places \ ({l} \union On(l)) :
    LET behind == [lists EXCEPT ![OwnerOf(c)] = PutBehind(@, c, lists[l]), ![l] = <<>>]
        before == [lists EXCEPT ![OwnerOf(c)] = PutBefore(@, c, lists[l]), ![l] = <<>>]
    IN
    \/ Call(list_splice_init(links, l, c), behind)
    \/ Call(list_splice_tail_init(links, l, c), before)
    \/ /\ iter = NoLoop
       /\ \/ links' = list_splice(links, l, c) /\ lists' = behind
          \/ links' = list_splice_tail(links, l, c) /\ lists' = before
       /\ stale' = IF lists[l] = <<>> THEN stale ELSE stale \union {l}
       /\ UNCHANGED iter

Reset ==
  \E h \in stale :
    /\ links' = INIT_LIST_HEAD(links, h)
    /\ stale' = stale \ {h}
    /\ UNCHANGED <<lists, iter>>

(* list_for_each_safe and list_for_each_prev_safe, and their _entry forms: *)
(* n is the neighbour of pos as it was before the body runs.  `todo' is    *)
(* what the list held when the loop began, less what was visited.          *)
LoopBegin(h, dir) ==
  LET pos == links[h][dir] IN
  /\ iter = NoLoop
  /\ iter' = [head |-> h, dir |-> dir, pos |-> pos, n |-> links[pos][dir],
              todo |-> IF dir = "next" THEN lists[h] ELSE Reverse(lists[h])]
  /\ UNCHANGED <<links, lists, stale>>

(* The slip of a plain loop: the neighbour is read after the body.         *)
LoopNext_unsafe(m) ==
  [iter EXCEPT !.pos = IF @ \in Cells THEN m[@][iter.dir] ELSE @,
               !.n = IF @ \in Cells THEN m[@][iter.dir] ELSE @, !.todo = Tail(@)]

LoopNext(m) ==
  [iter EXCEPT !.pos = iter.n, !.n = m[iter.n][iter.dir], !.todo = Tail(@)]

(* The body may keep the entry it is called for, take it off the list or   *)
(* move it to another one.                                                 *)
LoopBody ==
  /\ iter # NoLoop /\ iter.pos \in Entries
  /\ \/ links' = links /\ lists' = lists
     \/ links' = list_del(links, iter.pos) /\ lists' = Without(iter.pos)
     \/ links' = list_del_init(links, iter.pos) /\ lists' = Without(iter.pos)
     \/ \E h \in Fresh \ {iter.head} :
          /\ links' = list_move(links, iter.pos, h)
          /\ lists' = [Without(iter.pos) EXCEPT ![h] = <<iter.pos>> \o @]
  /\ iter' = LoopNext(links')
  /\ UNCHANGED stale

LoopEnd ==
  /\ iter # NoLoop /\ iter.pos = iter.head
  /\ iter' = NoLoop
  /\ UNCHANGED <<links, lists, stale>>

ListNext ==
  \/ Add \/ Delete \/ Replace \/ Move \/ Rotate \/ Cut \/ Splice \/ Reset
  \/ \E h \in Fresh, dir \in {"next", "prev"} : LoopBegin(h, dir)
  \/ LoopBody \/ LoopEnd

ListSpec == ListInit /\ [][ListNext]_listVars
-----------------------------------------------------------------------------
(* After any sequence of calls both loops over a list, forwards and        *)
(* backwards, see exactly the entries the callers put on it, in order, and *)
(* so do the loops that continue from an entry in the middle.              *)
ListsAreSequences ==
  \A h \in Fresh :
    /\ list_for_each(links, h) = lists[h]
    /\ list_for_each_prev(links, h) = Reverse(lists[h])
    /\ \A i \in DOMAIN lists[h] :
         LET e == lists[h][i]
             behind == SubSeq(lists[h], i+1, Len(lists[h]))
         IN  /\ list_for_each_entry_from(links, h, e) = <<e>> \o behind
             /\ list_for_each_entry_continue(links, h, e) = behind
             /\ list_for_each_entry_continue_reverse(links, h, e)
                  = Reverse(SubSeq(lists[h], 1, i-1))

(* The tests of a list answer from one or two pointers what is true of the *)
(* whole of it.                                                            *)
ListTestsRight ==
  \A h \in Fresh :
    /\ list_empty(links, h) = (lists[h] = <<>>)
    /\ list_empty_careful(links, h) = (lists[h] = <<>>)
    /\ list_is_singular(links, h) = (Len(lists[h]) = 1)
    /\ list_first_entry_or_null(links, h) =
         (IF lists[h] = <<>> THEN "NULL" ELSE Head(lists[h]))
    /\ \A e \in On(h) : list_is_last(links, e, h) = (e = Last(lists[h]))

(* Lists are what the calls say, for all the loops and all the tests.      *)
ListsRight == ListsAreSequences /\ ListTestsRight

(* A safe loop calls its body once for every entry that was on the list    *)
(* when it began, in order, whatever the body does to that entry, and ends *)
(* when there are no more.                                                 *)
SafeLoopVisitsAll ==
  iter # NoLoop =>
    IF iter.todo = <<>> THEN iter.pos = iter.head ELSE iter.pos = Head(iter.todo)
=============================================================================
