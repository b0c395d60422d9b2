----------------------------- MODULE LinuxHlist -----------------------------
(***************************************************************************)
(* The hash-table list of linux_list.h: a head with one pointer, and nodes *)
(* whose pprev is the address of the pointer that points to them.  Such an *)
(* address is a slot: the `first' of a head or the `next' of a node, so a  *)
(* store through pprev is a store to a slot.  `chains' is the meaning of   *)
(* the memory: the nodes a caller has put on each list, in order.          *)
(***************************************************************************)
EXTENDS Integers, Sequences, SequencesExt

CONSTANTS Nodes,   \* hlist_nodes
          Buckets  \* hlist_heads

ASSUME HlistAssumption == IsFiniteSet(Nodes) /\ {"NULL", "none"} \intersect Nodes = {}

VARIABLES hmem,    \* [at: slot -> node, pprev: node -> slot]
          chains,  \* history: head -> its nodes
          hiter    \* the loop under way, if any

hlistVars == <<hmem, chains, hiter>>

NULL == "NULL"
NoSlot == <<"NULL">>        \* pprev = NULL
PoisonSlot == <<"poison2">> \* pprev = LIST_POISON2
first(h) == <<"first", h>>
next(n) == <<"next", n>>
Slots == {first(h) : h \in Buckets} \union {next(n) : n \in Nodes}
HNoLoop == [n |-> "none"]

INIT_HLIST_NODE(m, n) == [m EXCEPT !.at[next(n)] = NULL, !.pprev[n] = NoSlot]

hlist_unhashed(m, n) == m.pprev[n] = NoSlot

hlist_empty(m, h) == m.at[first(h)] = NULL

(* x->pprev = slot, where x may be NULL.                                   *)
SetPprev(m, x, slot) == IF x = NULL THEN m ELSE [m EXCEPT !.pprev[x] = slot]

hlist_unlink(m, n) ==
  LET nxt == m.at[next(n)]  pprev == m.pprev[n]
  IN  SetPprev([m EXCEPT !.at[pprev] = nxt], nxt, pprev)

hlist_del(m, n) ==
  [hlist_unlink(m, n) EXCEPT !.at[next(n)] = "poison1", !.pprev[n] = PoisonSlot]

hlist_del_init(m, n) ==
  IF hlist_unhashed(m, n) THEN m ELSE INIT_HLIST_NODE(hlist_unlink(m, n), n)

hlist_add_head(m, n, h) ==
  LET old == m.at[first(h)]
      m1 == SetPprev([m EXCEPT !.at[next(n)] = old], old, next(n))
  IN  [m1 EXCEPT !.at[first(h)] = n, !.pprev[n] = first(h)]

hlist_add_before(m, n, nxt) ==
  [m EXCEPT !.pprev[n] = m.pprev[nxt], !.at[next(n)] = nxt,
            !.pprev[nxt] = next(n), !.at[m.pprev[nxt]] = n]

(* Slip: the node behind keeps its pprev.                                  *)
hlist_add_behind_forget(m, n, prev) ==
  [m EXCEPT !.at[next(n)] = m.at[next(prev)], !.at[next(prev)] = n, !.pprev[n] = next(prev)]

hlist_add_behind(m, n, prev) ==
  LET nxt == m.at[next(prev)]
  IN  SetPprev([m EXCEPT !.at[next(n)] = nxt, !.at[next(prev)] = n, !.pprev[n] = next(prev)],
               nxt, next(n))

hlist_add_fake(m, n) == [m EXCEPT !.pprev[n] = next(n)]

hlist_move_list(m, old, new) ==
  LET f == m.at[first(old)]
  IN  [SetPprev([m EXCEPT !.at[first(new)] = f], f, first(new)) EXCEPT !.at[first(old)] = NULL]

(* The nodes from slot s on, until NULL; one too many if it never comes.   *)
hlist_walk(m, s) ==
  LET at[k \in 0 .. Cardinality(Nodes)] ==
        IF k = 0 THEN m.at[s] ELSE IF at[k-1] \in Nodes THEN m.at[next(at[k-1])] ELSE at[k-1]
      end == {k \in 0 .. Cardinality(Nodes) : at[k] = NULL}
  IN  [i \in 1 .. (IF end = {} THEN Cardinality(Nodes) + 1 ELSE Min(end)) |-> at[i-1]]

hlist_for_each(m, h) == hlist_walk(m, first(h))

hlist_for_each_entry_continue(m, pos) == hlist_walk(m, next(pos))
-----------------------------------------------------------------------------
HlistInit ==
  /\ hmem = [at |-> [s \in Slots |-> NULL], pprev |-> [n \in Nodes |-> NoSlot]]
  /\ chains = [h \in Buckets |-> <<>>]
  /\ hiter = HNoLoop

OnChain(h) == Range(chains[h])
Hashed == UNION {OnChain(h) : h \in Buckets}
BucketOf(n) == CHOOSE h \in Buckets : n \in OnChain(h)
Faked == {n \in Nodes : hmem.pprev[n] = next(n)}

IndexOn(h, n) == CHOOSE i \in DOMAIN chains[h] : chains[h][i] = n

ChainsWithout(n) ==
  [h \in Buckets |-> IF n \in OnChain(h) THEN RemoveAt(chains[h], IndexOn(h, n)) ELSE chains[h]]

HCall(m, c) == hiter = HNoLoop /\ hmem' = m /\ chains' = c /\ UNCHANGED hiter

HAdd ==
  \E n \in Nodes \ (Hashed \union Faked) :
    \/ \E h \in Buckets :
         HCall(hlist_add_head(hmem, n, h), [chains EXCEPT ![h] = <<n>> \o @])
    \/ \E x \in Hashed : LET h == BucketOf(x)  i == IndexOn(h, x) IN
         \/ HCall(hlist_add_before(hmem, n, x), [chains EXCEPT ![h] = InsertAt(@, i, n)])
         \/ HCall(hlist_add_behind(hmem, n, x), [chains EXCEPT ![h] = InsertAt(@, i+1, n)])

(* A node is faked after INIT_HLIST_NODE.                                  *)
HFake ==
  \E n \in Nodes \ Hashed :
    hmem.at[next(n)] = NULL /\ HCall(hlist_add_fake(hmem, n), chains)

(* hlist_del_init may be called for a node that is on no list.             *)
HDelete ==
  \/ \E n \in Hashed \union Faked : HCall(hlist_del(hmem, n), ChainsWithout(n))
  \/ \E n \in {x \in Nodes : hmem.pprev[x] # PoisonSlot} :
       HCall(hlist_del_init(hmem, n), ChainsWithout(n))

HMoveList ==
  \E old, new \in Buckets :
    /\ old # new /\ chains[new] = <<>>
    /\ HCall(hlist_move_list(hmem, old, new),
             [chains EXCEPT ![new] = chains[old], ![old] = <<>>])

(* hlist_for_each_safe: the neighbour is read by the loop's condition,     *)
(* before the body, and the body may take the node off the list.           *)
HLoopBegin ==
  \E h \in Buckets :
    /\ hiter = HNoLoop
    /\ hiter' = [n |-> hmem.at[first(h)], todo |-> chains[h]]
    /\ UNCHANGED <<hmem, chains>>

HNeighbour(m0, m1, n) == m0.at[next(n)]

HLoopBody ==
  /\ hiter.n \in Nodes
  /\ \/ hmem' = hmem /\ chains' = chains
     \/ hmem' = hlist_del(hmem, hiter.n) /\ chains' = ChainsWithout(hiter.n)
     \/ hmem' = hlist_del_init(hmem, hiter.n) /\ chains' = ChainsWithout(hiter.n)
  /\ hiter' = [n |-> HNeighbour(hmem, hmem', hiter.n), todo |-> Tail(hiter.todo)]

HLoopEnd == hiter.n = NULL /\ hiter' = HNoLoop /\ UNCHANGED <<hmem, chains>>

HlistNext == HAdd \/ HFake \/ HDelete \/ HMoveList \/ HLoopBegin \/ HLoopBody \/ HLoopEnd

HlistSpec == HlistInit /\ [][HlistNext]_hlistVars
-----------------------------------------------------------------------------
(* After any sequence of calls a loop over a list sees exactly the nodes   *)
(* put on it, in order, and every node's pprev is the slot that holds it,  *)
(* which is what lets a node be deleted without knowing its list.          *)
ChainsAreSequences ==
  /\ \A h \in Buckets :
       /\ hlist_for_each(hmem, h) = chains[h]
       /\ hlist_empty(hmem, h) = (chains[h] = <<>>)
       /\ \A i \in DOMAIN chains[h] :
            hlist_for_each_entry_continue(hmem, chains[h][i])
              = SubSeq(chains[h], i+1, Len(chains[h]))
  /\ \A n \in Hashed : hmem.at[hmem.pprev[n]] = n

(* hlist_for_each_safe calls its body once for every node that was on the  *)
(* list when it began, even if the body deletes the node.                  *)
SafeHloopVisitsAll ==
  hiter # HNoLoop =>
    hiter.n = (IF hiter.todo = <<>> THEN NULL ELSE Head(hiter.todo))

(* Hash chains are right for plain loops and for loops that delete.        *)
ChainsRight == ChainsAreSequences /\ SafeHloopVisitsAll
=============================================================================
