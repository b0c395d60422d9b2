---------------------------- MODULE CmockaProofs ----------------------------
(***************************************************************************)
(* Proofs about cmocka.c: the expectations of a test (CmockaMock) and the  *)
(* runner of a group of tests (CmockaRunner).                              *)
(***************************************************************************)
EXTENDS CmockaMock, CmockaRunner, SequenceTheorems, WellFoundedInduction, TLAPS

(***************************************************************************)
(* Induction on the natural numbers, for a set instead of a predicate.     *)
(***************************************************************************)
LEMMA SetInduction ==
  ASSUME NEW S, 0 \in S, \A n \in Nat : n \in S => n + 1 \in S
  PROVE  \A n \in Nat : n \in S
<1> SUFFICES ASSUME Nat \ S # {} PROVE FALSE
  OBVIOUS
<1> DEFINE T == Nat \ S
           R == {ss \in Nat \X Nat : ss[1] < ss[2]}
<1>1. IsWellFoundedOn(R, Nat)
  BY NatLessThanWellFounded DEF OpToRel
<1>2. PICK x \in T : \A y \in T : ~(<<y, x>> \in R)
  <2>1. T \subseteq Nat /\ T # {}
    OBVIOUS
  <2> HIDE DEF T, R
  <2> QED  BY <1>1, <2>1, WFMin
<1>3. x # 0 /\ x \in Nat /\ x \notin S
  OBVIOUS
<1>4. <<x-1, x>> \in R
  BY <1>3
<1>5. x - 1 \in Nat /\ x - 1 \notin T
  BY <1>2, <1>3, <1>4
<1>6. x - 1 + 1 \in S
  BY <1>5
<1>7. x - 1 + 1 = x
  BY <1>3
<1> QED  BY <1>3, <1>6, <1>7

-----------------------------------------------------------------------------
(***************************************************************************)
(* The expectations.                                                       *)
(***************************************************************************)
Nodes == [id : Nat, refcount : Int, what : Functions \union Checks]
Declarations == [sort : {"result", "parameter", "call"}, key : Functions \union Parameters,
                 count : Int, used : Nat]

(* Nothing more can be had of declaration d; all it asks for has happened. *)
Done(d) == d.count > 0 /\ d.used = d.count
Happened(d) == /\ d.count > 0 => d.used = d.count
               /\ d.count = -1 => d.used = 1

(* What the refcount of the node of declaration d says of its uses.        *)
Counted(d, refcount) ==
  /\ d.count > 0 => d.used < d.count /\ refcount = d.count - d.used
  /\ d.count = -1 => (refcount = -1 /\ d.used = 0) \/ (refcount = -2 /\ d.used = 1)
  /\ d.count = 0 => refcount <= 0
  /\ d.count < -1 => refcount = d.count

(* List q has the nodes of the declarations S of D that are not done, in   *)
(* the order in which they were declared.                                  *)
ListOf(D, q, S) ==
  /\ \A i \in DOMAIN q : q[i].id \in S /\ Counted(D[q[i].id], q[i].refcount)
  /\ \A i, j \in DOMAIN q : i < j => q[i].id < q[j].id
  /\ \A n \in S : n \in Ids(q) \/ Done(D[n])

OfIn(D, sort, key) == {n \in DOMAIN D : D[n].sort = sort /\ D[n].key = key}
CallsIn(D) == {n \in DOMAIN D : D[n].sort = "call"}

(* UsedInOrder, of D.                                                      *)
InOrder(D) ==
  \A m, n \in DOMAIN D :
    m < n /\ D[n].used > 0 /\ D[m].sort = D[n].sort =>
      /\ D[n].sort = "call" => Happened(D[m])
      /\ D[n].sort # "call" => (D[m].key = D[n].key => Done(D[m]))

(* D after a use of declaration n, and list q after a use of its node i.   *)
UseOf(D, n) == [D EXCEPT ![n].used = IF D[n].count < 0 THEN 1 ELSE @ + 1]
After(q, i) ==
  IF q[i].refcount = 1 THEN RemoveAt(q, i)
  ELSE IF q[i].refcount > -2 THEN [q EXCEPT ![i].refcount = @ - 1]
  ELSE q

LEMMA RemoveAtProperties ==
  ASSUME NEW S, NEW q \in Seq(S), NEW i \in 1..Len(q)
  PROVE  /\ RemoveAt(q, i) \in Seq(S)
         /\ Len(RemoveAt(q, i)) = Len(q) - 1
         /\ \A k \in 1..Len(q)-1 : RemoveAt(q, i)[k] = IF k < i THEN q[k] ELSE q[k+1]
<1> DEFINE a == SubSeq(q, 1, i-1)
           b == SubSeq(q, i+1, Len(q))
<1>0. Len(q) \in Nat
  OBVIOUS
<1>1. a \in Seq(S) /\ Len(a) = i - 1 /\ \A k \in 1..i-1 : a[k] = q[k]
  OBVIOUS
<1>2. b \in Seq(S) /\ Len(b) = Len(q) - i /\ \A k \in 1..Len(q)-i : b[k] = q[k+i]
  OBVIOUS
<1>3. RemoveAt(q, i) = a \o b
  BY DEF RemoveAt
<1> HIDE DEF a, b
<1>4. /\ a \o b \in Seq(S)
      /\ Len(a \o b) = Len(a) + Len(b)
      /\ \A k \in 1 .. Len(a) + Len(b) : (a \o b)[k] = IF k <= Len(a) THEN a[k] ELSE b[k - Len(a)]
  BY <1>1, <1>2, ConcatProperties
<1>5. ASSUME NEW k \in 1..Len(q)-1
      PROVE  (a \o b)[k] = IF k < i THEN q[k] ELSE q[k+1]
  <2>1. CASE k < i
    BY <1>0, <1>1, <1>2, <1>4, <2>1
  <2>2. CASE ~(k < i)
    <3>1. k - (i - 1) \in 1..Len(q)-i /\ k - (i - 1) + i = k + 1
      BY <1>0, <2>2
    <3>2. (a \o b)[k] = b[k - (i - 1)]
      BY <1>0, <1>1, <1>2, <1>4, <2>2
    <3> QED  BY <1>2, <2>2, <3>1, <3>2
  <2> QED  BY <2>1, <2>2
<1> QED  BY <1>0, <1>1, <1>2, <1>3, <1>4, <1>5

LEMMA UseOfProperties ==
  ASSUME NEW D \in Seq(Declarations), NEW n \in DOMAIN D
  PROVE  /\ UseOf(D, n) \in Seq(Declarations)
         /\ DOMAIN UseOf(D, n) = DOMAIN D
         /\ \A m \in DOMAIN D : /\ UseOf(D, n)[m].sort = D[m].sort
                                /\ UseOf(D, n)[m].key = D[m].key
                                /\ UseOf(D, n)[m].count = D[m].count
                                /\ m # n => UseOf(D, n)[m] = D[m]
         /\ UseOf(D, n)[n].used = IF D[n].count < 0 THEN 1 ELSE D[n].used + 1
<1> DEFINE u == IF D[n].count < 0 THEN 1 ELSE D[n].used + 1
           d == [D[n] EXCEPT !.used = u]
<1>1. D[n] \in Declarations
  BY ElementOfSeq
<1>2. d \in Declarations
  <2>1. u \in Nat
    BY <1>1 DEF Declarations
  <2> HIDE DEF u
  <2> QED  BY <1>1, <2>1 DEF Declarations
<1>3. UseOf(D, n) = [D EXCEPT ![n] = d]
  BY DEF UseOf
<1>4. UseOf(D, n) \in Seq(Declarations)
  BY <1>2, <1>3, ExceptSeq
<1> QED  BY <1>1, <1>3, <1>4 DEF Declarations

LEMMA NodeType ==
  ASSUME NEW q \in Seq(Nodes)
  PROVE  \A k \in DOMAIN q : q[k] \in Nodes /\ q[k].id \in Nat /\ q[k].refcount \in Int
<1> TAKE k \in DOMAIN q
<1>1. k \in 1..Len(q)
  OBVIOUS
<1>2. q[k] \in Nodes
  BY <1>1, ElementOfSeq
<1> QED  BY <1>2 DEF Nodes

LEMMA AfterProperties ==
  ASSUME NEW q \in Seq(Nodes), NEW i \in DOMAIN q
  PROVE  /\ After(q, i) \in Seq(Nodes)
         /\ q[i].refcount = 1 =>
              /\ DOMAIN After(q, i) = 1..Len(q)-1
              /\ \A k \in 1..Len(q)-1 : After(q, i)[k] = IF k < i THEN q[k] ELSE q[k+1]
         /\ q[i].refcount # 1 =>
              /\ DOMAIN After(q, i) = DOMAIN q
              /\ \A k \in DOMAIN q : /\ After(q, i)[k].id = q[k].id
                                     /\ k # i => After(q, i)[k] = q[k]
              /\ After(q, i)[i].refcount = IF q[i].refcount > -2 THEN q[i].refcount - 1
                                           ELSE q[i].refcount
<1>1. DOMAIN q = 1..Len(q) /\ Len(q) \in Nat
  OBVIOUS
<1>2. q[i] \in Nodes /\ q[i].refcount \in Int
  BY NodeType
<1>3. CASE q[i].refcount = 1
  <2>1. After(q, i) = RemoveAt(q, i)
    BY <1>3 DEF After
  <2> QED  BY <1>1, <1>3, <2>1, RemoveAtProperties
<1>4. CASE q[i].refcount # 1 /\ q[i].refcount > -2
  <2> DEFINE r == q[i].refcount - 1
             n == [q[i] EXCEPT !.refcount = r]
  <2>1. n \in Nodes
    <3>1. r \in Int
      BY <1>2
    <3> HIDE DEF r
    <3> QED  BY <1>2, <3>1 DEF Nodes
  <2>2. After(q, i) = [q EXCEPT ![i] = n]
    BY <1>4 DEF After
  <2>3. After(q, i) \in Seq(Nodes)
    BY <2>1, <2>2, ExceptSeq
  <2> QED  BY <1>1, <1>2, <1>4, <2>2, <2>3 DEF Nodes
<1>5. CASE q[i].refcount # 1 /\ ~(q[i].refcount > -2)
  <2>1. After(q, i) = q
    BY <1>5 DEF After
  <2> QED  BY <1>1, <1>2, <1>5, <2>1
<1> QED  BY <1>3, <1>4, <1>5

(* The list that get_symbol_value leaves is the one after a use of the     *)
(* first node.                                                             *)
LEMMA TakenIsAfter ==
  ASSUME NEW q \in Seq(Nodes), q # <<>>
  PROVE  1 \in DOMAIN q /\ Taken(q) = After(q, 1)
<1>1. 1 \in DOMAIN q /\ Len(q) \in Nat /\ Len(q) > 0
  OBVIOUS
<1>2. CASE q[1].refcount = 1
  <2>1. Tail(q) \in Seq(Nodes) /\ Len(Tail(q)) = Len(q) - 1
        /\ \A k \in 1..Len(q)-1 : Tail(q)[k] = q[k+1]
    BY <1>1
  <2>2. /\ RemoveAt(q, 1) \in Seq(Nodes)
        /\ Len(RemoveAt(q, 1)) = Len(q) - 1
        /\ \A k \in 1..Len(q)-1 : RemoveAt(q, 1)[k] = q[k+1]
    BY <1>1, RemoveAtProperties
  <2>3. Tail(q) = RemoveAt(q, 1)
    BY <2>1, <2>2, SeqEqual
  <2> QED  BY <1>1, <1>2, <2>3 DEF Taken, After
<1>3. CASE q[1].refcount # 1
  BY <1>1, <1>3 DEF Taken, After, WILL_RETURN_ONCE
<1> QED  BY <1>2, <1>3

(* A list without repetitions loses the number of node i exactly when the  *)
(* node goes.                                                              *)
LEMMA AfterIds ==
  ASSUME NEW q \in Seq(Nodes), NEW i \in DOMAIN q,
         \A j, k \in DOMAIN q : j < k => q[j].id < q[k].id
  PROVE  Ids(After(q, i)) = IF q[i].refcount = 1 THEN Ids(q) \ {q[i].id} ELSE Ids(q)
<1>1. DOMAIN q = 1..Len(q) /\ Len(q) \in Nat
  OBVIOUS
<1>2. \A k \in DOMAIN q : q[k].id \in Nat
  BY NodeType
<1>3. CASE q[i].refcount = 1
  <2>0. /\ DOMAIN After(q, i) = 1..Len(q)-1
        /\ \A k \in 1..Len(q)-1 : After(q, i)[k] = IF k < i THEN q[k] ELSE q[k+1]
    BY <1>3, AfterProperties
  <2>1. ASSUME NEW k \in 1..Len(q)-1
        PROVE  After(q, i)[k].id \in Ids(q) \ {q[i].id}
    <3>1. k \in DOMAIN q /\ k + 1 \in DOMAIN q
      BY <1>1
    <3>2. CASE k < i
      <4>1. After(q, i)[k] = q[k]
        BY <2>0, <3>2
      <4>2. q[k].id < q[i].id
        BY <3>1, <3>2
      <4> QED  BY <1>2, <3>1, <4>1, <4>2 DEF Ids
    <3>3. CASE ~(k < i)
      <4>1. After(q, i)[k] = q[k+1]
        BY <2>0, <3>3
      <4>2. i < k + 1
        BY <1>1, <3>3
      <4>3. q[i].id < q[k+1].id
        BY <3>1, <4>2
      <4> QED  BY <1>2, <3>1, <4>1, <4>3 DEF Ids
    <3> QED  BY <3>2, <3>3
  <2>2. ASSUME NEW k \in DOMAIN q, q[k].id # q[i].id
        PROVE  \E j \in 1..Len(q)-1 : After(q, i)[j].id = q[k].id
    <3>1. CASE k < i
      <4>1. k \in 1..Len(q)-1
        BY <1>1, <3>1
      <4> QED  BY <2>0, <3>1, <4>1
    <3>2. CASE k > i
      <4>1. k-1 \in 1..Len(q)-1 /\ ~(k-1 < i) /\ k-1+1 = k
        BY <1>1, <3>2
      <4>2. After(q, i)[k-1] = q[k]
        BY <2>0, <4>1
      <4> QED  BY <4>1, <4>2
    <3>3. k < i \/ k > i
      BY <1>1, <2>2
    <3> QED  BY <3>1, <3>2, <3>3
  <2>3. Ids(After(q, i)) = {After(q, i)[k].id : k \in 1..Len(q)-1}
    BY <2>0 DEF Ids
  <2>4. Ids(After(q, i)) \subseteq Ids(q) \ {q[i].id}
    BY <2>1, <2>3
  <2>5. Ids(q) \ {q[i].id} \subseteq Ids(After(q, i))
    BY <2>2, <2>3 DEF Ids
  <2> QED  BY <1>3, <2>4, <2>5
<1>4. CASE q[i].refcount # 1
  <2>1. /\ DOMAIN After(q, i) = DOMAIN q
        /\ \A k \in DOMAIN q : After(q, i)[k].id = q[k].id
    BY <1>4, AfterProperties
  <2> QED  BY <1>4, <2>1 DEF Ids
<1> QED  BY <1>3, <1>4

(* A declaration adds its node at the end of its list.                     *)
LEMMA ListAppend ==
  ASSUME NEW D \in Seq(Declarations), NEW d \in Declarations, d.used = 0,
         NEW q \in Seq(Nodes), NEW S \in SUBSET DOMAIN D, ListOf(D, q, S),
         NEW n \in Nodes, n.id = Len(D) + 1, n.refcount = d.count
  PROVE  ListOf(Append(D, d), Append(q, n), S \union {Len(D) + 1})
<1> DEFINE E == Append(D, d)
           r == Append(q, n)
<1>1. DOMAIN q = 1..Len(q) /\ Len(q) \in Nat /\ DOMAIN D = 1..Len(D) /\ Len(D) \in Nat
  OBVIOUS
<1>2. /\ DOMAIN r = 1..Len(q)+1 /\ r[Len(q)+1] = n
      /\ \A k \in DOMAIN q : r[k] = q[k]
  BY <1>1
<1>3. E[Len(D)+1] = d /\ \A k \in DOMAIN D : E[k] = D[k]
  BY <1>1
<1>4. Len(D) + 1 \notin DOMAIN D
  BY <1>1
<1>5. d.count \in Int
  BY DEF Declarations
<1>6. Counted(d, n.refcount)
  BY <1>5 DEF Counted
<1>7. Ids(r) = Ids(q) \union {Len(D) + 1}
  <2>1. DOMAIN r = DOMAIN q \union {Len(q)+1}
    BY <1>1, <1>2
  <2> HIDE DEF r
  <2> QED  BY <1>2, <2>1 DEF Ids
<1> HIDE DEF E, r
<1>8. \A i \in DOMAIN r : r[i].id \in S \union {Len(D)+1} /\ Counted(E[r[i].id], r[i].refcount)
  <2> TAKE i \in DOMAIN r
  <2>1. CASE i \in DOMAIN q
    BY <1>2, <1>3, <2>1 DEF ListOf
  <2>2. CASE i = Len(q) + 1
    BY <1>2, <1>3, <1>6, <2>2
  <2> QED  BY <1>1, <1>2, <2>1, <2>2
<1>9. \A i, j \in DOMAIN r : i < j => r[i].id < r[j].id
  <2> SUFFICES ASSUME NEW i \in DOMAIN r, NEW j \in DOMAIN r, i < j PROVE r[i].id < r[j].id
    OBVIOUS
  <2>1. i \in DOMAIN q
    BY <1>1, <1>2
  <2>2. CASE j \in DOMAIN q
    BY <1>2, <2>1, <2>2 DEF ListOf
  <2>3. CASE j = Len(q) + 1
    <3>1. q[i].id \in 1..Len(D)
      BY <1>1, <2>1 DEF ListOf
    <3> QED  BY <1>1, <1>2, <2>1, <2>3, <3>1
  <2> QED  BY <1>1, <1>2, <2>2, <2>3
<1>10. \A m \in S \union {Len(D)+1} : m \in Ids(r) \/ Done(E[m])
  BY <1>3, <1>7 DEF ListOf
<1> QED  BY <1>8, <1>9, <1>10 DEF ListOf, E, r

(* A list depends on its own declarations only.                            *)
LEMMA ListOther ==
  ASSUME NEW D, NEW E, NEW q, NEW S, ListOf(D, q, S), \A n \in S : E[n] = D[n]
  PROVE  ListOf(E, q, S)
BY DEF ListOf

(* A use of a node: its declaration is counted, and goes when it is done.  *)
LEMMA ListUse ==
  ASSUME NEW D \in Seq(Declarations), NEW q \in Seq(Nodes), NEW S \in SUBSET DOMAIN D,
         ListOf(D, q, S), NEW i \in DOMAIN q
  PROVE  ListOf(UseOf(D, q[i].id), After(q, i), S)
<1> DEFINE m == q[i].id
           E == UseOf(D, m)
           r == After(q, i)
<1>1. DOMAIN q = 1..Len(q) /\ Len(q) \in Nat
  OBVIOUS
<1>2. m \in DOMAIN D /\ D[m] \in Declarations /\ m \in S /\ Counted(D[m], q[i].refcount)
  BY ElementOfSeq DEF ListOf
<1>3. /\ \A n \in DOMAIN D : n # m => E[n] = D[n]
      /\ E[m].count = D[m].count
      /\ E[m].used = IF D[m].count < 0 THEN 1 ELSE D[m].used + 1
  BY <1>2, UseOfProperties
<1>4. D[m].count \in Int /\ D[m].used \in Nat /\ q[i].refcount \in Int
  BY <1>2, NodeType DEF Declarations
<1>5. \A k \in DOMAIN q : q[k].id \in Nat
  BY NodeType
<1>6. \A k \in DOMAIN q : k # i => q[k].id # m
  BY <1>1, <1>5 DEF ListOf
<1>7. Ids(r) = IF q[i].refcount = 1 THEN Ids(q) \ {m} ELSE Ids(q)
  BY AfterIds DEF ListOf
<1> HIDE DEF E, r, m
<1>8. CASE q[i].refcount = 1
  <2>1. /\ DOMAIN r = 1..Len(q)-1
        /\ \A k \in 1..Len(q)-1 : r[k] = IF k < i THEN q[k] ELSE q[k+1]
    BY <1>8, AfterProperties DEF r
  <2>2. Done(E[m])
    BY <1>2, <1>3, <1>4, <1>8 DEF Counted, Done
  <2>3. \A k \in 1..Len(q)-1 : \E j \in DOMAIN q : j # i /\ r[k] = q[j]
    <3> TAKE k \in 1..Len(q)-1
    <3>1. k \in DOMAIN q /\ k + 1 \in DOMAIN q /\ (k < i => k # i) /\ (~(k < i) => k + 1 # i)
      BY <1>1
    <3> QED  BY <2>1, <3>1
  <2>4. \A k \in DOMAIN r : r[k].id \in S /\ Counted(E[r[k].id], r[k].refcount)
    BY <1>3, <1>6, <2>1, <2>3 DEF ListOf
  <2>5. \A j, k \in DOMAIN r : j < k => r[j].id < r[k].id
    <3> SUFFICES ASSUME NEW j \in DOMAIN r, NEW k \in DOMAIN r, j < k PROVE r[j].id < r[k].id
      OBVIOUS
    <3> DEFINE jj == IF j < i THEN j ELSE j + 1
               kk == IF k < i THEN k ELSE k + 1
    <3>1. jj \in DOMAIN q /\ kk \in DOMAIN q /\ jj < kk
      BY <1>1, <2>1
    <3>2. r[j] = q[jj] /\ r[k] = q[kk]
      BY <2>1
    <3> QED  BY <3>1, <3>2 DEF ListOf
  <2>6. \A n \in S : n \in Ids(r) \/ Done(E[n])
    BY <1>3, <1>7, <1>8, <2>2 DEF ListOf
  <2> QED  BY <2>4, <2>5, <2>6 DEF ListOf, E, r, m
<1>9. CASE q[i].refcount # 1
  <2>1. /\ DOMAIN r = DOMAIN q
        /\ \A k \in DOMAIN q : r[k].id = q[k].id /\ (k # i => r[k] = q[k])
        /\ r[i].refcount = IF q[i].refcount > -2 THEN q[i].refcount - 1 ELSE q[i].refcount
    BY <1>9, AfterProperties DEF r
  <2>2. Counted(E[m], r[i].refcount)
    <3>1. CASE D[m].count > 0
      <4>1. q[i].refcount = D[m].count - D[m].used /\ D[m].used < D[m].count
        BY <1>2, <3>1 DEF Counted
      <4>2. r[i].refcount = q[i].refcount - 1 /\ E[m].used = D[m].used + 1
        BY <1>3, <1>4, <2>1, <3>1, <4>1
      <4>3. E[m].count = D[m].count /\ E[m].count > 0
        BY <1>3, <3>1
      <4>4. E[m].used < E[m].count
        <5>1. D[m].count - D[m].used # 1
          BY <1>9, <4>1
        <5> QED  BY <1>4, <4>1, <4>2, <4>3, <5>1
      <4>5. r[i].refcount = E[m].count - E[m].used
        BY <1>4, <4>1, <4>2, <4>3
      <4>6. ~(E[m].count = -1) /\ ~(E[m].count = 0) /\ ~(E[m].count < -1)
        BY <1>4, <4>3
      <4> QED  BY <4>4, <4>5, <4>6 DEF Counted
    <3>2. CASE D[m].count = -1
      BY <1>2, <1>3, <1>4, <2>1, <3>2 DEF Counted
    <3>3. CASE D[m].count = 0
      BY <1>2, <1>3, <1>4, <2>1, <3>3 DEF Counted
    <3>4. CASE D[m].count < -1
      BY <1>2, <1>3, <1>4, <2>1, <3>4 DEF Counted
    <3> QED  BY <1>4, <3>1, <3>2, <3>3, <3>4
  <2>3. \A k \in DOMAIN r : r[k].id \in S /\ Counted(E[r[k].id], r[k].refcount)
    <3> TAKE k \in DOMAIN r
    <3>1. CASE k = i
      BY <1>2, <2>1, <2>2, <3>1 DEF m
    <3>2. CASE k # i
      BY <1>3, <1>6, <2>1, <3>2 DEF ListOf
    <3> QED  BY <3>1, <3>2
  <2>4. ~Done(D[m])
    BY <1>2, <1>4 DEF Counted, Done
  <2>5. \A n \in S : n \in Ids(r) \/ Done(E[n])
    BY <1>3, <1>7, <1>9, <2>4 DEF ListOf
  <2> QED  BY <2>1, <2>3, <2>5 DEF ListOf, E, r, m
<1> QED  BY <1>8, <1>9

LEMMA DeclarationType ==
  ASSUME NEW D \in Seq(Declarations)
  PROVE  \A n \in DOMAIN D : n \in Nat /\ D[n] \in Declarations /\ D[n].count \in Int /\ D[n].used \in Nat
<1> TAKE n \in DOMAIN D
<1>1. n \in 1..Len(D) /\ Len(D) \in Nat
  OBVIOUS
<1>2. D[n] \in Declarations
  BY <1>1, ElementOfSeq
<1> QED  BY <1>1, <1>2 DEF Declarations

(* What is done stays done, and what has happened stays so, when a node is *)
(* used: its declaration is not done, and a value that is returned for     *)
(* ever has been returned.                                                 *)
LEMMA UseKeeps ==
  ASSUME NEW D \in Seq(Declarations), NEW n \in DOMAIN D, NEW refcount,
         Counted(D[n], refcount), NEW m \in DOMAIN D
  PROVE  /\ Done(D[m]) => Done(UseOf(D, n)[m])
         /\ Happened(D[m]) => Happened(UseOf(D, n)[m])
<1>1. D[n].count \in Int /\ D[n].used \in Nat
  BY DeclarationType
<1>2. /\ UseOf(D, n)[m].count = D[m].count
      /\ m # n => UseOf(D, n)[m] = D[m]
      /\ UseOf(D, n)[n].used = IF D[n].count < 0 THEN 1 ELSE D[n].used + 1
  BY UseOfProperties
<1>3. CASE m # n
  BY <1>2, <1>3
<1>4. CASE m = n
  BY <1>1, <1>2, <1>4 DEF Counted, Done, Happened
<1> QED  BY <1>3, <1>4

(* The first node of a symbol, or a call behind others that need not come  *)
(* first, is used in order.                                                *)
LEMMA UseInOrder ==
  ASSUME NEW D \in Seq(Declarations), InOrder(D), NEW q \in Seq(Nodes), NEW S \in SUBSET DOMAIN D,
         ListOf(D, q, S), NEW i \in DOMAIN q,
         \/ /\ i = 1
            /\ D[q[i].id].sort # "call"
            /\ S = OfIn(D, D[q[i].id].sort, D[q[i].id].key)
         \/ /\ \A j \in 1..i-1 : q[j].refcount < -1
            /\ D[q[i].id].sort = "call"
            /\ S = CallsIn(D)
  PROVE  InOrder(UseOf(D, q[i].id))
<1> DEFINE u == q[i].id
           E == UseOf(D, u)
<1>1. u \in DOMAIN D /\ u \in S /\ Counted(D[u], q[i].refcount)
  BY DEF ListOf
<1>2. /\ DOMAIN E = DOMAIN D
      /\ \A m \in DOMAIN D : /\ E[m].sort = D[m].sort /\ E[m].key = D[m].key
                             /\ E[m].count = D[m].count
                             /\ m # u => E[m] = D[m]
  BY <1>1, UseOfProperties
<1>3. \A m \in DOMAIN D : (Done(D[m]) => Done(E[m])) /\ (Happened(D[m]) => Happened(E[m]))
  BY <1>1, UseKeeps
<1>4. DOMAIN q = 1..Len(q) /\ Len(q) \in Nat
  OBVIOUS
<1>5. \A k \in DOMAIN q : q[k].id \in Nat /\ q[k].refcount \in Int
  BY NodeType
<1>6. \A m \in DOMAIN D : m \in Nat /\ D[m].count \in Int /\ D[m].used \in Nat
  BY DeclarationType
<1>7. ASSUME NEW m \in S, m < u
      PROVE  Done(D[m]) \/ \E k \in 1..i-1 : m = q[k].id
  <2>1. CASE m \in Ids(q)
    <3>1. PICK k \in DOMAIN q : m = q[k].id
      BY <2>1 DEF Ids
    <3>2. k < i
      BY <1>4, <1>5, <1>7, <3>1 DEF ListOf
    <3> QED  BY <1>4, <3>1, <3>2
  <2> QED  BY <2>1 DEF ListOf
<1> SUFFICES ASSUME NEW m \in DOMAIN D, NEW n \in DOMAIN D,
                    m < n, E[n].used > 0, D[m].sort = D[n].sort
             PROVE  /\ D[n].sort = "call" => Happened(E[m])
                    /\ D[n].sort # "call" => (D[m].key = D[n].key => Done(E[m]))
  <2> HIDE DEF E
  <2>1. InOrder(E)
    BY <1>2 DEF InOrder
  <2> QED  BY <2>1 DEF E
<1> HIDE DEF E, u
<1>8. CASE n # u
  BY <1>2, <1>3, <1>8 DEF InOrder
<1>9. CASE n = u
  <2>1. CASE D[n].sort = "call"
    <3>1. m \in S /\ \A j \in 1..i-1 : q[j].refcount < -1
      BY <1>9, <2>1 DEF CallsIn, u
    <3>2. CASE Done(D[m])
      BY <1>3, <1>6, <3>2 DEF Done, Happened
    <3>3. CASE \E k \in 1..i-1 : m = q[k].id
      <4>1. PICK k \in 1..i-1 : m = q[k].id
        BY <3>3
      <4>2. k \in DOMAIN q /\ Counted(D[m], q[k].refcount) /\ q[k].refcount < -1
        BY <1>4, <3>1, <4>1 DEF ListOf
      <4>3. Happened(D[m])
        BY <1>5, <1>6, <4>2 DEF Counted, Happened
      <4> QED  BY <1>3, <2>1, <4>3
    <3> QED  BY <1>7, <1>9, <3>1, <3>2, <3>3, <2>1
  <2>2. CASE D[n].sort # "call" /\ D[m].key = D[n].key
    <3>1. m \in S /\ i = 1
      BY <1>9, <2>2 DEF OfIn, u
    <3>2. Done(D[m])
      BY <1>7, <1>9, <3>1
    <3> QED  BY <1>3, <2>2, <3>2
  <2> QED  BY <2>1, <2>2
<1> QED  BY <1>8, <1>9

(* remove_always_return_values_from_list keeps nodes of the list only, and *)
(* all of those that are not removable.                                    *)
KeptStep(q, K, i) == IF i = 0 THEN <<>>
                     ELSE IF Removable(q[i]) THEN K[i-1] ELSE Append(K[i-1], q[i])

LEMMA KeptExists ==
  ASSUME NEW q
  PROVE  \A n \in Nat : \E K : K = [i \in 0..n |-> KeptStep(q, K, i)]
<1> DEFINE S == {n \in Nat : \E K : K = [i \in 0..n |-> KeptStep(q, K, i)]}
<1>1. 0 \in S
  <2> DEFINE K == [i \in 0..0 |-> <<>>]
  <2>1. K = [i \in 0..0 |-> KeptStep(q, K, i)]
    BY DEF KeptStep
  <2> QED  BY <2>1
<1>2. ASSUME NEW n \in Nat, n \in S PROVE n + 1 \in S
  <2>1. PICK K : K = [i \in 0..n |-> KeptStep(q, K, i)]
    BY <1>2
  <2> DEFINE L == [i \in 0..n+1 |-> IF i = n + 1 THEN KeptStep(q, K, i) ELSE K[i]]
  <2>2. \A i \in 0..n+1 : KeptStep(q, L, i) = KeptStep(q, K, i)
    <3> TAKE i \in 0..n+1
    <3>1. CASE i = 0
      BY <3>1 DEF KeptStep
    <3>2. CASE i # 0
      <4>1. i - 1 \in 0..n+1 /\ i - 1 # n + 1
        BY <3>2
      <4>2. L[i-1] = K[i-1]
        BY <4>1
      <4> HIDE DEF L
      <4> QED  BY <3>2, <4>2 DEF KeptStep
    <3> QED  BY <3>1, <3>2
  <2>3. \A i \in 0..n+1 : L[i] = KeptStep(q, K, i)
    <3> TAKE i \in 0..n+1
    <3>1. CASE i = n + 1
      BY <3>1
    <3>2. CASE i # n + 1
      <4>1. i \in 0..n
        BY <3>2
      <4>2. K[i] = KeptStep(q, K, i)
        BY <2>1, <4>1
      <4> QED  BY <3>2, <4>2
    <3> QED  BY <3>1, <3>2
  <2>4. L = [i \in 0..n+1 |-> KeptStep(q, L, i)]
    BY <2>2, <2>3
  <2> HIDE DEF L
  <2> QED  BY <2>4
<1> HIDE DEF S
<1>3. \A n \in Nat : n \in S
  BY <1>1, <1>2, SetInduction
<1> QED  BY <1>3 DEF S

LEMMA KeptProperties ==
  ASSUME NEW q \in Seq(Nodes)
  PROVE  LET c == remove_always_return_values_from_list(q)
         IN  /\ c \in Seq(Nodes)
             /\ Ids(c) \subseteq Ids(q)
             /\ c = <<>> => \A i \in DOMAIN q : Removable(q[i])
<1> DEFINE K == CHOOSE K : K = [i \in 0..Len(q) |-> KeptStep(q, K, i)]
<1>1. Len(q) \in Nat /\ DOMAIN q = 1..Len(q)
  OBVIOUS
<1>2. K = [i \in 0..Len(q) |-> KeptStep(q, K, i)]
  BY <1>1, KeptExists
<1>3. remove_always_return_values_from_list(q) = K[Len(q)]
  BY DEF remove_always_return_values_from_list, KeptStep
<1> HIDE DEF K
<1> DEFINE S == {n \in Nat : n <= Len(q) =>
                   /\ K[n] \in Seq(Nodes)
                   /\ Ids(K[n]) \subseteq Ids(q)
                   /\ K[n] = <<>> => \A i \in 1..n : Removable(q[i])}
<1>4. 0 \in S
  <2>1. K[0] = <<>>
    BY <1>1, <1>2 DEF KeptStep
  <2>2. <<>> \in Seq(Nodes) /\ Ids(<<>>) = {}
    BY EmptySeq DEF Ids
  <2>3. \A i \in 1..0 : Removable(q[i])
    OBVIOUS
  <2>4. Ids(K[0]) \subseteq Ids(q)
    BY <2>1, <2>2
  <2> QED  BY <2>1, <2>2, <2>3, <2>4
<1>5. ASSUME NEW n \in Nat, n \in S PROVE n + 1 \in S
  <2> SUFFICES ASSUME n + 1 <= Len(q)
               PROVE  /\ K[n+1] \in Seq(Nodes)
                      /\ Ids(K[n+1]) \subseteq Ids(q)
                      /\ K[n+1] = <<>> => \A i \in 1..n+1 : Removable(q[i])
    OBVIOUS
  <2>1. K[n] \in Seq(Nodes) /\ Ids(K[n]) \subseteq Ids(q) /\ (K[n] = <<>> => \A i \in 1..n : Removable(q[i]))
    BY <1>1, <1>5
  <2>2. n + 1 \in DOMAIN q /\ n + 1 \in 0..Len(q) /\ n + 1 # 0 /\ n + 1 - 1 = n
    BY <1>1
  <2>3. K[n+1] = IF Removable(q[n+1]) THEN K[n] ELSE Append(K[n], q[n+1])
    <3>1. K[n+1] = KeptStep(q, K, n+1)
      BY <1>2, <2>2
    <3> QED  BY <2>2, <3>1 DEF KeptStep
  <2>4. CASE Removable(q[n+1])
    <3>1. \A i \in 1..n+1 : i \in 1..n \/ i = n + 1
      OBVIOUS
    <3> QED  BY <2>1, <2>3, <2>4, <3>1
  <2>5. CASE ~Removable(q[n+1])
    <3>1. q[n+1] \in Nodes
      BY <2>2, NodeType
    <3> DEFINE a == Append(K[n], q[n+1])
    <3>2. /\ a \in Seq(Nodes) /\ a # <<>>
          /\ \A i \in DOMAIN a : (i \in DOMAIN K[n] /\ a[i] = K[n][i]) \/ a[i] = q[n+1]
      <4>1. /\ a \in Seq(Nodes) /\ Len(a) = Len(K[n]) + 1 /\ a[Len(K[n]) + 1] = q[n+1]
            /\ \A i \in 1..Len(K[n]) : a[i] = K[n][i]
        BY <2>1, <3>1
      <4>2. Len(K[n]) \in Nat /\ DOMAIN K[n] = 1..Len(K[n])
        BY <2>1
      <4> HIDE DEF a
      <4>3. DOMAIN a = 1..Len(a) /\ a # <<>>
        BY <4>1, <4>2
      <4> QED  BY <4>1, <4>2, <4>3
    <3>3. Ids(a) \subseteq Ids(q)
      <4> HIDE DEF a
      <4>1. \A i \in DOMAIN a : a[i].id \in Ids(q)
        BY <2>1, <2>2, <3>2 DEF Ids
      <4> QED  BY <4>1 DEF Ids
    <3> QED  BY <2>3, <2>5, <3>2, <3>3
  <2> QED  BY <2>4, <2>5
<1> HIDE DEF S
<1>6. Len(q) \in S
  BY <1>1, <1>4, <1>5, SetInduction
<1> QED  BY <1>1, <1>3, <1>6 DEF S

(* The lists of a symbol map.                                              *)
MapOf(D, map, sort) == \A s \in DOMAIN map : ListOf(D, map[s], OfIn(D, sort, s))

LEMMA InIdsOf ==
  ASSUME NEW map
  PROVE  \A x : x \in IdsOf(map) <=> \E s \in DOMAIN map : x \in Ids(map[s])
BY DEF IdsOf

LEMMA AppendIds ==
  ASSUME NEW q \in Seq(Nodes), NEW n \in Nodes
  PROVE  Ids(Append(q, n)) = Ids(q) \union {n.id}
<1> DEFINE r == Append(q, n)
<1>1. DOMAIN q = 1..Len(q) /\ Len(q) \in Nat
  OBVIOUS
<1>2. /\ DOMAIN r = 1..Len(q)+1 /\ r[Len(q)+1] = n
      /\ \A k \in DOMAIN q : r[k] = q[k]
  BY <1>1
<1>3. DOMAIN r = DOMAIN q \union {Len(q)+1}
  BY <1>1, <1>2
<1> HIDE DEF r
<1>4. Ids(r) = Ids(q) \union {n.id}
  BY <1>2, <1>3 DEF Ids
<1> QED  BY <1>4 DEF r

(* The declarations of D and one more.                                     *)
LEMMA DeclareProperties ==
  ASSUME NEW D \in Seq(Declarations), NEW d \in Declarations, d.used = 0
  PROVE  LET E == Append(D, d)
         IN  /\ E \in Seq(Declarations)
             /\ InOrder(D) => InOrder(E)
             /\ \A n \in DOMAIN D : E[n] = D[n]
             /\ \A sort, key : OfIn(E, sort, key) =
                  OfIn(D, sort, key) \union IF d.sort = sort /\ d.key = key THEN {Len(D)+1} ELSE {}
             /\ CallsIn(E) = CallsIn(D) \union IF d.sort = "call" THEN {Len(D)+1} ELSE {}
<1> DEFINE E == Append(D, d)
<1>1. DOMAIN D = 1..Len(D) /\ Len(D) \in Nat
  OBVIOUS
<1>2. E \in Seq(Declarations) /\ E[Len(D)+1] = d /\ \A n \in DOMAIN D : E[n] = D[n]
  BY <1>1
<1>3. DOMAIN E = DOMAIN D \union {Len(D)+1}
  BY <1>1
<1> HIDE DEF E
<1>4. ASSUME InOrder(D) PROVE InOrder(E)
  <2> SUFFICES ASSUME NEW m \in DOMAIN E, NEW n \in DOMAIN E,
                      m < n, E[n].used > 0, E[m].sort = E[n].sort
               PROVE  /\ E[n].sort = "call" => Happened(E[m])
                      /\ E[n].sort # "call" => (E[m].key = E[n].key => Done(E[m]))
    BY DEF InOrder
  <2>1. n \in DOMAIN D
    BY <1>2, <1>3
  <2>2. m \in DOMAIN D
    BY <1>1, <1>3, <2>1
  <2> QED  BY <1>2, <1>4, <2>1, <2>2 DEF InOrder
<1>5. \A sort, key : OfIn(E, sort, key) =
        OfIn(D, sort, key) \union IF d.sort = sort /\ d.key = key THEN {Len(D)+1} ELSE {}
  BY <1>2, <1>3 DEF OfIn
<1>6. CallsIn(E) = CallsIn(D) \union IF d.sort = "call" THEN {Len(D)+1} ELSE {}
  BY <1>2, <1>3 DEF CallsIn
<1> QED  BY <1>2, <1>4, <1>5, <1>6 DEF E

(* Map r is map with node n at the end of the list of key.                 *)
Grown(map, r, K, key, n) ==
  /\ map \in [K -> Seq(Nodes)] /\ r \in [K -> Seq(Nodes)] /\ key \in K
  /\ r[key] = Append(map[key], n)
  /\ \A s \in K : s # key => r[s] = map[s]

LEMMA GrownIds ==
  ASSUME NEW map, NEW r, NEW K, NEW key, NEW n \in Nodes, Grown(map, r, K, key, n)
  PROVE  IdsOf(r) = IdsOf(map) \union {n.id}
<1>1. map[key] \in Seq(Nodes) /\ DOMAIN r = K /\ DOMAIN map = K /\ key \in K
  BY DEF Grown
<1>2. Ids(r[key]) = Ids(map[key]) \union {n.id}
  BY <1>1, AppendIds DEF Grown
<1>3. \A s \in K : Ids(r[s]) = Ids(map[s]) \union IF s = key THEN {n.id} ELSE {}
  BY <1>2 DEF Grown
<1>4. \A x : x \in IdsOf(r) <=> x \in IdsOf(map) \union {n.id}
  BY <1>1, <1>3, InIdsOf
<1> QED  BY <1>4

LEMMA MapAppend ==
  ASSUME NEW D \in Seq(Declarations), NEW d \in Declarations, d.used = 0,
         NEW sort, NEW key, d.sort = sort, d.key = key,
         NEW n \in Nodes, n.id = Len(D) + 1, n.refcount = d.count,
         NEW K, NEW map, NEW r, Grown(map, r, K, key, n), MapOf(D, map, sort)
  PROVE  MapOf(Append(D, d), r, sort)
<1> DEFINE E == Append(D, d)
<1>1. map \in [K -> Seq(Nodes)] /\ r \in [K -> Seq(Nodes)] /\ key \in K
  BY DEF Grown
<1>2. \A m \in DOMAIN D : E[m] = D[m]
  OBVIOUS
<1>3. \A s : OfIn(E, sort, s) = OfIn(D, sort, s) \union IF key = s THEN {Len(D)+1} ELSE {}
  BY DeclareProperties
<1>4. r[key] = Append(map[key], n) /\ \A s \in K : s # key => r[s] = map[s]
  BY DEF Grown
<1>5. \A s \in K : map[s] \in Seq(Nodes) /\ ListOf(D, map[s], OfIn(D, sort, s))
  BY <1>1 DEF MapOf
<1>6. \A s \in K : OfIn(D, sort, s) \in SUBSET DOMAIN D
  BY DEF OfIn
<1> DEFINE Own == OfIn(D, sort, key)
<1>7. ListOf(E, r[key], Own \union {Len(D)+1})
  <2>1. Own \in SUBSET DOMAIN D /\ ListOf(D, map[key], Own) /\ map[key] \in Seq(Nodes)
    BY <1>1, <1>5, <1>6
  <2> DEFINE q == map[key]
  <2>2. q \in Seq(Nodes) /\ ListOf(D, q, Own)
    BY <2>1
  <2> HIDE DEF Own, q
  <2>3. ListOf(Append(D, d), Append(q, n), Own \union {Len(D)+1})
    BY <2>1, <2>2, ListAppend
  <2> QED  BY <1>4, <2>3 DEF q
<1>8. \A s \in K : s # key => ListOf(E, r[s], OfIn(D, sort, s))
  <2> SUFFICES ASSUME NEW s \in K, s # key PROVE ListOf(E, map[s], OfIn(D, sort, s))
    BY <1>4
  <2> DEFINE S == OfIn(D, sort, s)
  <2>1. ListOf(D, map[s], S) /\ S \subseteq DOMAIN D
    BY <1>5, <1>6
  <2> HIDE DEF S, E
  <2>2. ListOf(E, map[s], S)
    BY <1>2, <2>1, ListOther
  <2> QED  BY <2>2 DEF S
<1> HIDE DEF E
<1>9. MapOf(E, r, sort)
  <2> SUFFICES ASSUME NEW s \in K PROVE ListOf(E, r[s], OfIn(E, sort, s))
    BY <1>1 DEF MapOf
  <2>1. CASE s = key
    <3>1. OfIn(E, sort, s) = Own \union {Len(D)+1}
      BY <1>3, <2>1
    <3> QED  BY <1>7, <2>1, <3>1
  <2>2. CASE s # key
    <3>1. OfIn(E, sort, s) = OfIn(D, sort, s) \union IF key = s THEN {Len(D)+1} ELSE {}
      BY <1>3
    <3>2. OfIn(E, sort, s) = OfIn(D, sort, s)
      BY <2>2, <3>1
    <3> QED  BY <1>8, <2>2, <3>2
  <2> QED  BY <2>1, <2>2
<1> QED  BY <1>9 DEF E

(* A declaration of another sort leaves a symbol map alone.                *)
LEMMA MapAppendOther ==
  ASSUME NEW D \in Seq(Declarations), NEW d \in Declarations, d.used = 0,
         NEW map, NEW sort, MapOf(D, map, sort), d.sort # sort
  PROVE  MapOf(Append(D, d), map, sort)
<1> DEFINE E == Append(D, d)
<1>1. \A m \in DOMAIN D : E[m] = D[m]
  OBVIOUS
<1>2. \A key : OfIn(E, sort, key) = OfIn(D, sort, key)
  <2>1. \A key : OfIn(E, sort, key) =
          OfIn(D, sort, key) \union IF d.sort = sort /\ d.key = key THEN {Len(D)+1} ELSE {}
    BY DeclareProperties
  <2> QED  BY <2>1
<1> HIDE DEF E
<1>3. ASSUME NEW s \in DOMAIN map PROVE ListOf(E, map[s], OfIn(E, sort, s))
  <2>1. ListOf(D, map[s], OfIn(D, sort, s)) /\ OfIn(D, sort, s) \subseteq DOMAIN D
    BY DEF MapOf, OfIn
  <2>2. ListOf(E, map[s], OfIn(D, sort, s))
    BY <1>1, <2>1, ListOther
  <2> QED  BY <1>2, <2>2
<1> QED  BY <1>3 DEF MapOf, E

(* A use of a declaration of another sort does so too.                     *)
LEMMA UseSorts ==
  ASSUME NEW D \in Seq(Declarations), NEW n \in DOMAIN D
  PROVE  /\ \A sort, key : OfIn(UseOf(D, n), sort, key) = OfIn(D, sort, key)
         /\ CallsIn(UseOf(D, n)) = CallsIn(D)
BY UseOfProperties DEF OfIn, CallsIn

LEMMA MapUseOther ==
  ASSUME NEW D \in Seq(Declarations), NEW n \in DOMAIN D,
         NEW map, NEW sort, MapOf(D, map, sort), D[n].sort # sort
  PROVE  MapOf(UseOf(D, n), map, sort) /\ n \notin IdsOf(map)
<1> DEFINE E == UseOf(D, n)
<1>1. \A m \in DOMAIN D : m # n => E[m] = D[m]
  BY UseOfProperties
<1>2. \A key : OfIn(E, sort, key) = OfIn(D, sort, key)
  BY UseSorts
<1> HIDE DEF E
<1>3. ASSUME NEW s \in DOMAIN map
      PROVE  ListOf(E, map[s], OfIn(E, sort, s)) /\ n \notin Ids(map[s])
  <2>1. ListOf(D, map[s], OfIn(D, sort, s)) /\ OfIn(D, sort, s) \subseteq DOMAIN D
        /\ n \notin OfIn(D, sort, s)
    BY DEF MapOf, OfIn
  <2>2. ListOf(E, map[s], OfIn(D, sort, s))
    BY <1>1, <2>1, ListOther
  <2>3. n \notin Ids(map[s])
    BY <2>1 DEF ListOf, Ids
  <2> QED  BY <1>2, <2>2, <2>3
<1> QED  BY <1>3, InIdsOf DEF MapOf, E

LEMMA CallsUseOther ==
  ASSUME NEW D \in Seq(Declarations), NEW n \in DOMAIN D,
         NEW q, ListOf(D, q, CallsIn(D)), D[n].sort # "call"
  PROVE  ListOf(UseOf(D, n), q, CallsIn(UseOf(D, n))) /\ n \notin Ids(q)
<1>1. \A m \in DOMAIN D : m # n => UseOf(D, n)[m] = D[m]
  BY UseOfProperties
<1>2. n \notin CallsIn(D) /\ CallsIn(D) \subseteq DOMAIN D
  BY DEF CallsIn
<1>3. ListOf(UseOf(D, n), q, CallsIn(D))
  BY <1>1, <1>2, ListOther
<1>4. n \notin Ids(q)
  BY <1>2 DEF ListOf, Ids
<1> QED  BY <1>3, <1>4, UseSorts

(* get_symbol_value takes the first value of symbol s.                     *)
LEMMA MapUse ==
  ASSUME NEW D \in Seq(Declarations), NEW K, NEW map \in [K -> Seq(Nodes)],
         NEW sort, sort # "call", MapOf(D, map, sort), InOrder(D),
         NEW s \in K, map[s] # <<>>
  PROVE  LET n == map[s][1].id
             r == [map EXCEPT ![s] = Taken(map[s])]
         IN  /\ n \in DOMAIN D /\ D[n].sort = sort
             /\ r \in [K -> Seq(Nodes)]
             /\ MapOf(UseOf(D, n), r, sort)
             /\ IdsOf(r) = IdsOf(map) \ FreedBy(map[s])
             /\ FreedBy(map[s]) \subseteq {n}
             /\ InOrder(UseOf(D, n))
<1> DEFINE q == map[s]
           n == q[1].id
           E == UseOf(D, n)
           r == [map EXCEPT ![s] = Taken(q)]
           S == OfIn(D, sort, s)
<1>1. q \in Seq(Nodes) /\ ListOf(D, q, S) /\ S \in SUBSET DOMAIN D
  BY DEF MapOf, OfIn
<1>2. 1 \in DOMAIN q /\ Taken(q) = After(q, 1)
  BY <1>1, TakenIsAfter
<1>3. n \in S
  BY <1>1, <1>2 DEF ListOf
<1>4. n \in DOMAIN D /\ D[n].sort = sort /\ D[n].key = s
  BY <1>3 DEF OfIn
<1>5. Taken(q) \in Seq(Nodes)
  BY <1>1, <1>2, AfterProperties
<1>6. r \in [K -> Seq(Nodes)] /\ r[s] = Taken(q) /\ \A t \in K : t # s => r[t] = map[t]
  BY <1>5
<1>7. InOrder(E)
  <2> HIDE DEF q, S
  <2> QED  BY <1>1, <1>2, <1>4, UseInOrder DEF S
<1>8. ListOf(E, Taken(q), S)
  <2> HIDE DEF q, S
  <2> QED  BY <1>1, <1>2, ListUse
<1>9. Ids(Taken(q)) = Ids(q) \ FreedBy(q) /\ FreedBy(q) \subseteq {n}
  <2> HIDE DEF q, S
  <2> QED  BY <1>1, <1>2, AfterIds DEF ListOf, FreedBy
<1>10. \A key : OfIn(E, sort, key) = OfIn(D, sort, key)
  BY <1>4, UseSorts
<1>11. \A m \in DOMAIN D : m # n => E[m] = D[m]
  BY <1>4, UseOfProperties
<1> HIDE DEF E, r, q, n
<1>12. ASSUME NEW t \in K, t # s
       PROVE  ListOf(E, map[t], OfIn(E, sort, t)) /\ n \notin Ids(map[t])
  <2>1. ListOf(D, map[t], OfIn(D, sort, t)) /\ OfIn(D, sort, t) \subseteq DOMAIN D
    BY DEF MapOf, OfIn
  <2>2. n \notin OfIn(D, sort, t)
    BY <1>4, <1>12 DEF OfIn
  <2>3. ListOf(E, map[t], OfIn(D, sort, t))
    BY <1>11, <2>1, <2>2, ListOther
  <2>4. n \notin Ids(map[t])
    BY <2>1, <2>2 DEF ListOf, Ids
  <2> QED  BY <1>10, <2>3, <2>4
<1>13. MapOf(E, r, sort)
  <2> SUFFICES ASSUME NEW t \in K PROVE ListOf(E, r[t], OfIn(E, sort, t))
    BY <1>6 DEF MapOf
  <2>1. CASE t = s
    BY <1>6, <1>8, <1>10, <2>1
  <2>2. CASE t # s
    BY <1>6, <1>12, <2>2
  <2> QED  BY <2>1, <2>2
<1>14. IdsOf(r) = IdsOf(map) \ FreedBy(q)
  <2>1. DOMAIN r = K /\ DOMAIN map = K
    BY <1>6
  <2>2. \A t \in K : Ids(r[t]) = Ids(map[t]) \ FreedBy(q)
    <3> TAKE t \in K
    <3>1. CASE t = s
      BY <1>6, <1>9, <3>1 DEF q
    <3>2. CASE t # s
      BY <1>6, <1>9, <1>12, <3>2
    <3> QED  BY <3>1, <3>2
  <2> QED  BY <2>1, <2>2, InIdsOf
<1> QED  BY <1>4, <1>6, <1>7, <1>9, <1>13, <1>14 DEF E, r, q, n

(* Values belong to functions and checks to parameters.                    *)
Keyed(D) == \A n \in DOMAIN D : /\ D[n].sort = "result" => D[n].key \in Functions
                                /\ D[n].sort = "parameter" => D[n].key \in Parameters

(* While the test runs, each list has what is still to come of its         *)
(* declarations.                                                           *)
Listed ==
  /\ verdict = "none" /\ left_in = {}
  /\ declared \in Seq(Declarations) /\ Keyed(declared)
  /\ result_map \in [Functions -> Seq(Nodes)]
  /\ parameter_map \in [Parameters -> Seq(Nodes)]
  /\ call_ordering \in Seq(Nodes)
  /\ MapOf(declared, result_map, "result")
  /\ MapOf(declared, parameter_map, "parameter")
  /\ ListOf(declared, call_ordering, CallsIn(declared))

(* The inductive invariant of the expectations.                            *)
MockInv ==
  /\ InOrder(declared)
  /\ PassedIsSatisfied
  /\ DeclarationsFreed
  /\ stage = "running" => Listed

LEMMA OrderIsOrder == InOrder(declared) => UsedInOrder
<1> SUFFICES ASSUME InOrder(declared), NEW m \in DOMAIN declared, NEW n \in DOMAIN declared,
                    m < n, declared[n].used > 0, declared[m].sort = declared[n].sort
             PROVE  CASE declared[n].sort = "call" -> Satisfied(m)
                      [] OTHER -> declared[m].key = declared[n].key => UsedUp(m)
  BY DEF UsedInOrder
<1>1. Happened(declared[m]) => Satisfied(m)
  BY DEF Happened, Satisfied, WILL_RETURN_ALWAYS
<1>2. Done(declared[m]) => UsedUp(m)
  BY DEF Done, UsedUp
<1> QED  BY <1>1, <1>2 DEF InOrder

(* A declaration, whatever it is of.                                       *)
LEMMA DeclareKeeps ==
  ASSUME MockInv, NEW count \in Counts,
         \/ \E f \in Functions : _will_return(f, count) \/ _expect_function_call(f, count)
         \/ \E s \in Parameters, c \in Checks : _expect_check(s, c, count)
  PROVE  MockInv'
<1>1. PICK sort \in {"result", "parameter", "call"}, key \in Functions \union Parameters,
           what \in Functions \union Checks :
        /\ Declare(sort, key, count)
        /\ sort = "result" => key \in Functions
        /\ sort = "parameter" => key \in Parameters
        /\ result_map' = IF sort = "result"
                         THEN [result_map EXCEPT ![key] = Append(@, Node(count, what))] ELSE result_map
        /\ parameter_map' = IF sort = "parameter"
                            THEN [parameter_map EXCEPT ![key] = Append(@, Node(count, what))]
                            ELSE parameter_map
        /\ call_ordering' = IF sort = "call" THEN Append(call_ordering, Node(count, what))
                            ELSE call_ordering
        /\ UNCHANGED <<stage, verdict, left_in>>
  <2>1. ASSUME NEW f \in Functions, _will_return(f, count)
        PROVE  /\ Declare("result", f, count)
               /\ result_map' = [result_map EXCEPT ![f] = Append(@, Node(count, f))]
               /\ parameter_map' = parameter_map /\ call_ordering' = call_ordering
               /\ UNCHANGED <<stage, verdict, left_in>>
    BY <2>1 DEF _will_return
  <2>2. ASSUME NEW f \in Functions, _expect_function_call(f, count)
        PROVE  /\ Declare("call", f, count)
               /\ call_ordering' = Append(call_ordering, Node(count, f))
               /\ parameter_map' = parameter_map /\ result_map' = result_map
               /\ UNCHANGED <<stage, verdict, left_in>>
    BY <2>2 DEF _expect_function_call
  <2>3. ASSUME NEW s \in Parameters, NEW c \in Checks, _expect_check(s, c, count)
        PROVE  /\ Declare("parameter", s, count)
               /\ parameter_map' = [parameter_map EXCEPT ![s] = Append(@, Node(count, c))]
               /\ result_map' = result_map /\ call_ordering' = call_ordering
               /\ UNCHANGED <<stage, verdict, left_in>>
    BY <2>3 DEF _expect_check
  <2>4. CASE \E f \in Functions : _will_return(f, count)
    BY <2>1, <2>4
  <2>5. CASE \E f \in Functions : _expect_function_call(f, count)
    BY <2>2, <2>5
  <2>6. CASE \E s \in Parameters, c \in Checks : _expect_check(s, c, count)
    BY <2>3, <2>6
  <2> QED  BY <2>4, <2>5, <2>6
<1> DEFINE d == [sort |-> sort, key |-> key, count |-> count, used |-> 0]
           n == Node(count, what)
           E == Append(declared, d)
<1>2. /\ stage = "running" /\ stage' = stage /\ verdict' = verdict /\ left_in' = left_in
      /\ declared' = E
      /\ memory' = memory \union {Len(declared) + 1}
      /\ Listed
  BY <1>1 DEF Declare, MockInv
<1>3. declared \in Seq(Declarations) /\ Len(declared) \in Nat
  BY <1>2 DEF Listed
<1>4. d \in Declarations /\ d.used = 0 /\ d.sort = sort /\ d.key = key /\ d.count = count
  BY MockAssumption DEF Declarations
<1>5. n \in Nodes /\ n.id = Len(declared) + 1 /\ n.refcount = d.count
  BY <1>3, MockAssumption DEF Nodes, Node
<1> HIDE DEF d, n
<1>6. E \in Seq(Declarations) /\ InOrder(E)
  BY <1>3, <1>4, DeclareProperties DEF MockInv
<1>13. Keyed(E)
  <2>1. /\ E[Len(declared)+1] = d /\ \A m \in DOMAIN declared : E[m] = declared[m]
        /\ DOMAIN E = 1..Len(declared)+1 /\ DOMAIN declared = 1..Len(declared)
    BY <1>3, <1>4
  <2>2. \A m \in DOMAIN E : m \in DOMAIN declared \/ m = Len(declared)+1
    BY <1>3, <2>1
  <2>3. Keyed(declared)
    BY <1>2 DEF Listed
  <2> HIDE DEF E
  <2> QED  BY <1>1, <1>4, <2>1, <2>2, <2>3 DEF Keyed
<1>7. /\ result_map' \in [Functions -> Seq(Nodes)]
      /\ MapOf(E, result_map', "result")
      /\ IdsOf(result_map') = IdsOf(result_map) \union
                                IF sort = "result" THEN {Len(declared)+1} ELSE {}
  <2>1. result_map \in [Functions -> Seq(Nodes)] /\ MapOf(declared, result_map, "result")
    BY <1>2 DEF Listed
  <2>2. CASE sort = "result"
    <3>1. result_map' = [result_map EXCEPT ![key] = Append(result_map[key], n)] /\ key \in Functions
          /\ d.sort = "result" /\ d.key = key
      BY <1>1, <1>4, <2>2 DEF n
    <3>2. result_map[key] \in Seq(Nodes)
      BY <2>1, <3>1
    <3>3. Append(result_map[key], n) \in Seq(Nodes)
      BY <1>5, <3>2
    <3>4. /\ result_map' \in [Functions -> Seq(Nodes)]
          /\ result_map'[key] = Append(result_map[key], n)
          /\ \A s \in Functions : s # key => result_map'[s] = result_map[s]
      BY <2>1, <3>1, <3>3
    <3>5. Grown(result_map, result_map', Functions, key, n)
      BY <2>1, <3>1, <3>4 DEF Grown
    <3>6. MapOf(Append(declared, d), result_map', "result")
      BY <1>3, <1>4, <1>5, <2>1, <3>1, <3>5, MapAppend
    <3>7. IdsOf(result_map') = IdsOf(result_map) \union {n.id}
      BY <1>5, <3>5, GrownIds
    <3> QED  BY <1>5, <2>2, <3>4, <3>6, <3>7
  <2>3. CASE sort # "result"
    <3>1. result_map' = result_map
      BY <1>1, <2>3
    <3> QED  BY <1>3, <1>4, <2>1, <2>3, <3>1, MapAppendOther
  <2> QED  BY <2>2, <2>3
<1>8. /\ parameter_map' \in [Parameters -> Seq(Nodes)]
      /\ MapOf(E, parameter_map', "parameter")
      /\ IdsOf(parameter_map') = IdsOf(parameter_map) \union
                                   IF sort = "parameter" THEN {Len(declared)+1} ELSE {}
  <2>1. parameter_map \in [Parameters -> Seq(Nodes)] /\ MapOf(declared, parameter_map, "parameter")
    BY <1>2 DEF Listed
  <2>2. CASE sort = "parameter"
    <3>1. parameter_map' = [parameter_map EXCEPT ![key] = Append(parameter_map[key], n)] /\ key \in Parameters
          /\ d.sort = "parameter" /\ d.key = key
      BY <1>1, <1>4, <2>2 DEF n
    <3>2. parameter_map[key] \in Seq(Nodes)
      BY <2>1, <3>1
    <3>3. Append(parameter_map[key], n) \in Seq(Nodes)
      BY <1>5, <3>2
    <3>4. /\ parameter_map' \in [Parameters -> Seq(Nodes)]
          /\ parameter_map'[key] = Append(parameter_map[key], n)
          /\ \A s \in Parameters : s # key => parameter_map'[s] = parameter_map[s]
      BY <2>1, <3>1, <3>3
    <3>5. Grown(parameter_map, parameter_map', Parameters, key, n)
      BY <2>1, <3>1, <3>4 DEF Grown
    <3>6. MapOf(Append(declared, d), parameter_map', "parameter")
      BY <1>3, <1>4, <1>5, <2>1, <3>1, <3>5, MapAppend
    <3>7. IdsOf(parameter_map') = IdsOf(parameter_map) \union {n.id}
      BY <1>5, <3>5, GrownIds
    <3> QED  BY <1>5, <2>2, <3>4, <3>6, <3>7
  <2>3. CASE sort # "parameter"
    <3>1. parameter_map' = parameter_map
      BY <1>1, <2>3
    <3> QED  BY <1>3, <1>4, <2>1, <2>3, <3>1, MapAppendOther
  <2> QED  BY <2>2, <2>3
<1>9. /\ call_ordering' \in Seq(Nodes)
      /\ ListOf(E, call_ordering', CallsIn(E))
      /\ Ids(call_ordering') = Ids(call_ordering) \union
                                 IF sort = "call" THEN {Len(declared)+1} ELSE {}
  <2>1. call_ordering \in Seq(Nodes) /\ ListOf(declared, call_ordering, CallsIn(declared))
        /\ CallsIn(declared) \in SUBSET DOMAIN declared
    BY <1>2 DEF Listed, CallsIn
  <2>2. CallsIn(E) = CallsIn(declared) \union IF d.sort = "call" THEN {Len(declared)+1} ELSE {}
    BY <1>3, <1>4, DeclareProperties
  <2>3. CASE sort = "call"
    <3>1. call_ordering' = Append(call_ordering, n)
      BY <1>1, <2>3 DEF n
    <3>2. ListOf(E, Append(call_ordering, n), CallsIn(declared) \union {Len(declared)+1})
      BY <1>3, <1>4, <1>5, <2>1, ListAppend
    <3>3. Ids(call_ordering') = Ids(call_ordering) \union {Len(declared)+1}
      BY <1>5, <2>1, <3>1, AppendIds
    <3> QED  BY <1>4, <1>5, <2>1, <2>2, <2>3, <3>1, <3>2, <3>3
  <2>4. CASE sort # "call"
    <3>1. call_ordering' = call_ordering /\ CallsIn(E) = CallsIn(declared)
      BY <1>1, <1>4, <2>2, <2>4
    <3>2. \A m \in CallsIn(declared) : E[m] = declared[m]
      BY <1>3, <1>4, <2>1, DeclareProperties
    <3>3. ListOf(E, call_ordering, CallsIn(declared))
      BY <2>1, <3>2, ListOther
    <3> QED  BY <2>1, <2>4, <3>1, <3>3
  <2> QED  BY <2>3, <2>4
<1>10. DeclarationsFreed'
  BY <1>1, <1>2, <1>7, <1>8, <1>9 DEF MockInv, DeclarationsFreed
<1>11. Listed'
  BY <1>2, <1>6, <1>7, <1>8, <1>9, <1>13 DEF Listed
<1>12. PassedIsSatisfied'
  BY <1>2 DEF Listed, PassedIsSatisfied
<1> QED  BY <1>2, <1>6, <1>10, <1>11, <1>12 DEF MockInv

(* exit_test leaves what was declared, and the lists have the nodes they   *)
(* had.                                                                    *)
LEMMA ExitKeeps ==
  ASSUME MockInv, stage = "running", exit_test,
         IdsOf(result_map') = IdsOf(result_map), IdsOf(parameter_map') = IdsOf(parameter_map),
         UNCHANGED <<call_ordering, declared>>,
         memory \subseteq memory', memory' \ memory \subseteq left_in'
  PROVE  MockInv'
<1>1. stage' # "running" /\ verdict' # "passed" /\ verdict' = "failed"
  BY DEF exit_test
<1>2. InOrder(declared)' /\ DeclarationsFreed'
  <2>1. left_in = {}
    BY DEF MockInv, Listed
  <2> QED  BY <1>1, <2>1 DEF MockInv, DeclarationsFreed
<1>3. PassedIsSatisfied'
  BY <1>1 DEF PassedIsSatisfied
<1> QED  BY <1>1, <1>2, <1>3 DEF MockInv

LEMMA UseKeyed ==
  ASSUME NEW D \in Seq(Declarations), NEW n \in DOMAIN D, Keyed(D)
  PROVE  Keyed(UseOf(D, n))
<1>1. /\ DOMAIN UseOf(D, n) = DOMAIN D
      /\ \A m \in DOMAIN D : UseOf(D, n)[m].sort = D[m].sort /\ UseOf(D, n)[m].key = D[m].key
  BY UseOfProperties
<1> QED  BY <1>1 DEF Keyed

LEMMA MockKeeps ==
  ASSUME MockInv, NEW f \in Functions, _mock(f)
  PROVE  MockInv'
<1> DEFINE q == result_map[f]
           n == q[1].id
<1>1. stage = "running" /\ Listed
  BY DEF _mock, MockInv
<1>2. CASE q = <<>> /\ exit_test
           /\ UNCHANGED <<result_map, memory, declared, parameter_map, call_ordering, left_in>>
  BY <1>1, <1>2, ExitKeeps
<1>3. CASE /\ q # <<>>
           /\ result_map' = [result_map EXCEPT ![f] = Taken(q)]
           /\ memory' = memory \ FreedBy(q)
           /\ declared' = UseOf(declared, n)
           /\ UNCHANGED <<stage, verdict, parameter_map, call_ordering, left_in>>
  <2>1. /\ declared \in Seq(Declarations) /\ result_map \in [Functions -> Seq(Nodes)]
        /\ MapOf(declared, result_map, "result") /\ InOrder(declared)
    BY <1>1 DEF Listed, MockInv
  <2>2. /\ n \in DOMAIN declared /\ declared[n].sort = "result"
        /\ result_map' \in [Functions -> Seq(Nodes)]
        /\ MapOf(declared', result_map', "result")
        /\ IdsOf(result_map') = IdsOf(result_map) \ FreedBy(q)
        /\ FreedBy(q) \subseteq {n}
        /\ InOrder(declared')
    <3> DEFINE r == [result_map EXCEPT ![f] = Taken(result_map[f])]
    <3>1. "result" # "call"
      OBVIOUS
    <3>2. /\ n \in DOMAIN declared /\ declared[n].sort = "result"
          /\ r \in [Functions -> Seq(Nodes)]
          /\ MapOf(UseOf(declared, n), r, "result")
          /\ IdsOf(r) = IdsOf(result_map) \ FreedBy(q)
          /\ FreedBy(q) \subseteq {n}
          /\ InOrder(UseOf(declared, n))
      BY <1>3, <2>1, <3>1, MapUse
    <3> HIDE DEF r
    <3>3. result_map' = r /\ declared' = UseOf(declared, n)
      BY <1>3 DEF r
    <3> QED  BY <3>2, <3>3
  <2> HIDE DEF q, n
  <2>3. declared' \in Seq(Declarations) /\ Keyed(declared')
    BY <1>1, <1>3, <2>1, <2>2, UseOfProperties, UseKeyed DEF Listed
  <2>4. MapOf(declared', parameter_map', "parameter") /\ n \notin IdsOf(parameter_map)
    BY <1>1, <1>3, <2>1, <2>2, MapUseOther DEF Listed
  <2>5. ListOf(declared', call_ordering', CallsIn(declared')) /\ n \notin Ids(call_ordering)
    BY <1>1, <1>3, <2>1, <2>2, CallsUseOther DEF Listed
  <2>6. DeclarationsFreed'
    BY <1>3, <2>2, <2>4, <2>5 DEF MockInv, DeclarationsFreed
  <2>7. Listed'
    BY <1>1, <1>3, <2>2, <2>3, <2>4, <2>5 DEF Listed
  <2>8. PassedIsSatisfied'
    BY <1>1, <1>3 DEF Listed, PassedIsSatisfied
  <2> QED  BY <2>2, <2>6, <2>7, <2>8 DEF MockInv
<1> QED  BY <1>2, <1>3 DEF _mock, Use, UseOf

LEMMA CheckExpectedKeeps ==
  ASSUME MockInv, NEW s \in Parameters, NEW value \in Arguments, _check_expected(s, value)
  PROVE  MockInv'
<1> DEFINE q == parameter_map[s]
           n == q[1].id
<1>1. stage = "running" /\ Listed
  BY DEF _check_expected, MockInv
<1>2. CASE q = <<>> /\ exit_test
           /\ UNCHANGED <<result_map, memory, declared, parameter_map, call_ordering, left_in>>
  BY <1>1, <1>2, ExitKeeps
<1>4. CASE /\ q # <<>> /\ q[1].refcount = 0
           /\ parameter_map' = [parameter_map EXCEPT ![s] = Taken(q)]
           /\ exit_test
           /\ UNCHANGED <<result_map, memory, declared, call_ordering, left_in>>
  <2>1. /\ declared \in Seq(Declarations) /\ parameter_map \in [Parameters -> Seq(Nodes)]
        /\ MapOf(declared, parameter_map, "parameter") /\ InOrder(declared)
    BY <1>1 DEF Listed, MockInv
  <2>2. IdsOf(parameter_map') = IdsOf(parameter_map) \ FreedBy(q)
    <3> DEFINE r == [parameter_map EXCEPT ![s] = Taken(parameter_map[s])]
    <3>1. "parameter" # "call"
      OBVIOUS
    <3>2. /\ n \in DOMAIN declared /\ declared[n].sort = "parameter"
          /\ r \in [Parameters -> Seq(Nodes)]
          /\ MapOf(UseOf(declared, n), r, "parameter")
          /\ IdsOf(r) = IdsOf(parameter_map) \ FreedBy(q)
          /\ FreedBy(q) \subseteq {n}
          /\ InOrder(UseOf(declared, n))
      BY <1>4, <2>1, <3>1, MapUse
    <3> QED  BY <1>4, <3>2
  <2>3. FreedBy(q) = {}
    BY <1>4 DEF FreedBy
  <2> HIDE DEF q
  <2> QED  BY <1>1, <1>4, <2>2, <2>3, ExitKeeps
<1>3. CASE /\ q # <<>>
           /\ parameter_map' = [parameter_map EXCEPT ![s] = Taken(q)]
           /\ declared' = UseOf(declared, n)
           /\ \/ /\ memory' = memory \ FreedBy(q) /\ UNCHANGED left_in
                 /\ UNCHANGED <<stage, verdict>> \/ exit_test
              \/ memory' = memory /\ left_in' = FreedBy(q) /\ exit_test
           /\ UNCHANGED <<result_map, call_ordering>>
  <2>1. /\ declared \in Seq(Declarations) /\ parameter_map \in [Parameters -> Seq(Nodes)]
        /\ MapOf(declared, parameter_map, "parameter") /\ InOrder(declared)
    BY <1>1 DEF Listed, MockInv
  <2>2. /\ n \in DOMAIN declared /\ declared[n].sort = "parameter"
        /\ parameter_map' \in [Parameters -> Seq(Nodes)]
        /\ MapOf(declared', parameter_map', "parameter")
        /\ IdsOf(parameter_map') = IdsOf(parameter_map) \ FreedBy(q)
        /\ FreedBy(q) \subseteq {n}
        /\ InOrder(declared')
    <3> DEFINE r == [parameter_map EXCEPT ![s] = Taken(parameter_map[s])]
    <3>1. "parameter" # "call"
      OBVIOUS
    <3>2. /\ n \in DOMAIN declared /\ declared[n].sort = "parameter"
          /\ r \in [Parameters -> Seq(Nodes)]
          /\ MapOf(UseOf(declared, n), r, "parameter")
          /\ IdsOf(r) = IdsOf(parameter_map) \ FreedBy(q)
          /\ FreedBy(q) \subseteq {n}
          /\ InOrder(UseOf(declared, n))
      BY <1>3, <2>1, <3>1, MapUse
    <3> HIDE DEF r
    <3>3. parameter_map' = r /\ declared' = UseOf(declared, n)
      BY <1>3 DEF r
    <3> QED  BY <3>2, <3>3
  <2> HIDE DEF q, n
  <2>3. declared' \in Seq(Declarations) /\ Keyed(declared')
    BY <1>1, <1>3, <2>1, <2>2, UseOfProperties, UseKeyed DEF Listed
  <2>4. MapOf(declared', result_map', "result") /\ n \notin IdsOf(result_map)
    BY <1>1, <1>3, <2>1, <2>2, MapUseOther DEF Listed
  <2>5. ListOf(declared', call_ordering', CallsIn(declared')) /\ n \notin Ids(call_ordering)
    BY <1>1, <1>3, <2>1, <2>2, CallsUseOther DEF Listed
  <2>6. DeclarationsFreed'
    <3>1. left_in = {}
      BY <1>1 DEF Listed
    <3>2. CASE memory' = memory \ FreedBy(q) /\ left_in' = left_in
      BY <1>3, <2>2, <2>4, <2>5, <3>1, <3>2 DEF MockInv, DeclarationsFreed
    <3>3. CASE memory' = memory /\ left_in' = FreedBy(q) /\ verdict' = "failed"
      BY <1>3, <2>2, <2>4, <2>5, <3>1, <3>3 DEF MockInv, DeclarationsFreed
    <3> QED  BY <1>3, <3>2, <3>3 DEF exit_test
  <2>7. stage' = "running" => Listed'
    BY <1>1, <1>3, <2>2, <2>3, <2>4, <2>5 DEF Listed, exit_test
  <2>8. PassedIsSatisfied'
    BY <1>1, <1>3 DEF Listed, PassedIsSatisfied, exit_test
  <2> QED  BY <2>2, <2>6, <2>7, <2>8 DEF MockInv
<1> QED  BY <1>2, <1>3, <1>4 DEF _check_expected, Use, UseOf

LEMMA FunctionCalledKeeps ==
  ASSUME MockInv, NEW f \in Functions, _function_called(f)
  PROVE  MockInv'
<1>1. stage = "running" /\ Listed
  BY DEF _function_called, MockInv
<1>2. CASE exit_test /\ UNCHANGED <<result_map, memory, declared, parameter_map, call_ordering, left_in>>
  BY <1>1, <1>2, ExitKeeps
<1>3. CASE \E i \in Sought(f) :
             /\ call_ordering' = After(call_ordering, i)
             /\ declared' = UseOf(declared, call_ordering[i].id)
             /\ memory' = IF call_ordering[i].refcount = 1 THEN memory \ {call_ordering[i].id} ELSE memory
             /\ UNCHANGED <<stage, verdict, result_map, parameter_map, left_in>>
  <2>1. PICK i \in Sought(f) :
             /\ call_ordering' = After(call_ordering, i)
             /\ declared' = UseOf(declared, call_ordering[i].id)
             /\ memory' = IF call_ordering[i].refcount = 1 THEN memory \ {call_ordering[i].id} ELSE memory
             /\ UNCHANGED <<stage, verdict, result_map, parameter_map, left_in>>
    BY <1>3
  <2> DEFINE n == call_ordering[i].id
             S == CallsIn(declared)
  <2>2. i \in DOMAIN call_ordering /\ \A j \in 1..i-1 : call_ordering[j].refcount < -1
    BY DEF Sought
  <2>3. /\ declared \in Seq(Declarations) /\ call_ordering \in Seq(Nodes)
        /\ ListOf(declared, call_ordering, S) /\ InOrder(declared)
        /\ S \in SUBSET DOMAIN declared
    BY <1>1 DEF Listed, MockInv, CallsIn
  <2>4. n \in S
    BY <2>2, <2>3 DEF ListOf
  <2>5. n \in DOMAIN declared /\ declared[n].sort = "call"
    BY <2>4 DEF CallsIn
  <2>6. ListOf(declared', call_ordering', CallsIn(declared'))
    <3>1. ListOf(declared', call_ordering', S)
      BY <2>1, <2>2, <2>3, ListUse
    <3> QED  BY <2>1, <2>3, <2>5, <3>1, UseSorts
  <2>7. InOrder(declared')
    BY <2>1, <2>2, <2>3, <2>5, UseInOrder
  <2>8. call_ordering' \in Seq(Nodes)
    BY <2>1, <2>2, <2>3, AfterProperties
  <2>9. Ids(call_ordering') = IF call_ordering[i].refcount = 1 THEN Ids(call_ordering) \ {n}
                              ELSE Ids(call_ordering)
    BY <2>1, <2>2, <2>3, AfterIds DEF ListOf
  <2> HIDE DEF n, S
  <2>10. declared' \in Seq(Declarations) /\ Keyed(declared')
    BY <1>1, <2>1, <2>3, <2>5, UseOfProperties, UseKeyed DEF Listed, n
  <2>11. MapOf(declared', result_map', "result") /\ n \notin IdsOf(result_map)
    BY <1>1, <2>1, <2>3, <2>5, MapUseOther DEF Listed, n
  <2>12. MapOf(declared', parameter_map', "parameter") /\ n \notin IdsOf(parameter_map)
    BY <1>1, <2>1, <2>3, <2>5, MapUseOther DEF Listed, n
  <2>13. DeclarationsFreed'
    BY <2>1, <2>9, <2>11, <2>12 DEF MockInv, DeclarationsFreed, n
  <2>14. Listed'
    BY <1>1, <2>1, <2>6, <2>8, <2>10, <2>11, <2>12 DEF Listed
  <2>15. PassedIsSatisfied'
    BY <1>1, <2>1 DEF Listed, PassedIsSatisfied
  <2> QED  BY <2>7, <2>13, <2>14, <2>15 DEF MockInv
<1> QED  BY <1>2, <1>3 DEF _function_called, Use, UseOf, After

(* remove_always_return_values takes the first value of a symbol, so what  *)
(* is left of nothing was at most that value.                              *)
LEMMA RemoveAlways ==
  ASSUME NEW K, NEW map \in [K -> Seq(Nodes)]
  PROVE  LET r == remove_always_return_values(map)
         IN  /\ IdsOf(r) \subseteq IdsOf(map)
             /\ \A s \in K : r[s] = <<>> =>
                  \A i \in DOMAIN map[s] : i = 1 /\ Removable(map[s][i])
<1> DEFINE r == remove_always_return_values(map)
<1>1. DOMAIN r = K /\ DOMAIN map = K
  BY DEF remove_always_return_values
<1>2. \A s \in K : r[s] = IF map[s] # <<>> /\ Removable(Head(map[s])) THEN Tail(map[s]) ELSE map[s]
  BY DEF remove_always_return_values
<1> HIDE DEF r
<1>3. ASSUME NEW s \in K
      PROVE  /\ Ids(r[s]) \subseteq Ids(map[s])
             /\ r[s] = <<>> => \A i \in DOMAIN map[s] : i = 1 /\ Removable(map[s][i])
  <2> DEFINE q == map[s]
  <2>1. q \in Seq(Nodes) /\ DOMAIN q = 1..Len(q) /\ Len(q) \in Nat
    OBVIOUS
  <2> HIDE DEF q
  <2>2. CASE q # <<>> /\ Removable(Head(q))
    <3>1. Len(q) > 0 /\ Head(q) = q[1]
      BY <2>1, <2>2
    <3> DEFINE t == Tail(q)
    <3>2. /\ t \in Seq(Nodes) /\ Len(t) = Len(q) - 1
          /\ \A i \in 1..Len(q)-1 : t[i] = q[i+1]
      BY <2>1, <3>1
    <3>3. r[s] = t
      BY <1>2, <2>2 DEF q
    <3> HIDE DEF t
    <3>4. DOMAIN t = 1..Len(q)-1
      BY <3>2
    <3>5. \A i \in DOMAIN t : i + 1 \in DOMAIN q /\ t[i] = q[i+1]
      BY <2>1, <3>2, <3>4
    <3>6. Ids(t) \subseteq Ids(q)
      BY <3>5 DEF Ids
    <3>7. ASSUME t = <<>> PROVE \A i \in DOMAIN q : i = 1 /\ Removable(q[i])
      <4>1. Len(t) = 0
        BY <3>7
      <4>2. Len(q) = 1
        <5>1. Len(q) - 1 = 0
          BY <3>2, <4>1, Zenon
        <5>2. Len(q) \in Nat
          BY <2>1
        <5> QED  BY <5>1, <5>2
      <4> QED  BY <2>1, <2>2, <3>1, <4>2
    <3> QED  BY <3>3, <3>6, <3>7 DEF q
  <2>3. CASE ~(q # <<>> /\ Removable(Head(q)))
    <3>1. r[s] = q
      BY <1>2, <2>3 DEF q
    <3>2. q = <<>> => DOMAIN q = {}
      OBVIOUS
    <3> QED  BY <3>1, <3>2 DEF q
  <2> QED  BY <2>2, <2>3
<1>4. IdsOf(r) \subseteq IdsOf(map)
  BY <1>1, <1>3, InIdsOf
<1> QED  BY <1>3, <1>4 DEF r

(* Declarations n of D whose list is empty or has one node, of a value     *)
(* that is returned for ever: all that was asked for has happened.         *)
LEMMA EmptiedIsHappened ==
  ASSUME NEW D \in Seq(Declarations), InOrder(D), NEW q \in Seq(Nodes),
         NEW sort, sort # "call", NEW key, ListOf(D, q, OfIn(D, sort, key)),
         \A i \in DOMAIN q : i = 1 /\ Removable(q[i]),
         NEW n \in OfIn(D, sort, key)
  PROVE  /\ Happened(D[n])
         /\ \A m \in OfIn(D, sort, key) : m < n => Done(D[m])
<1>1. \A m \in OfIn(D, sort, key) : m \in DOMAIN D /\ D[m].sort = sort /\ D[m].key = key
  BY DEF OfIn
<1>2. \A m \in DOMAIN D : m \in Nat /\ D[m].count \in Int /\ D[m].used \in Nat
  BY DeclarationType
<1>3. \A k \in DOMAIN q : q[k].id \in Nat /\ q[k].refcount \in Int
  BY NodeType
<1>4. \A m \in OfIn(D, sort, key) : Done(D[m]) \/ \E i \in DOMAIN q : m = q[i].id
  BY DEF ListOf, Ids
<1>5. CASE Done(D[n])
  <2>1. Happened(D[n]) /\ D[n].used > 0
    BY <1>1, <1>2, <1>5 DEF Done, Happened
  <2>2. \A m \in OfIn(D, sort, key) : m < n => Done(D[m])
    BY <1>1, <2>1 DEF InOrder
  <2> QED  BY <2>1, <2>2
<1>6. CASE \E i \in DOMAIN q : n = q[i].id
  <2>1. PICK i \in DOMAIN q : n = q[i].id
    BY <1>6
  <2>2. Counted(D[n], q[i].refcount) /\ q[i].refcount < -1
    BY <2>1 DEF ListOf, Removable
  <2>3. Happened(D[n])
    BY <1>1, <1>2, <1>3, <2>2 DEF Counted, Happened
  <2>4. ASSUME NEW m \in OfIn(D, sort, key), m < n PROVE Done(D[m])
    <3>1. ASSUME NEW j \in DOMAIN q, m = q[j].id PROVE FALSE
      <4>1. j = i
        OBVIOUS
      <4> QED  BY <1>1, <1>2, <2>1, <2>4, <3>1, <4>1
    <3> QED  BY <1>4, <3>1
  <2> QED  BY <2>3, <2>4
<1> QED  BY <1>4, <1>5, <1>6

LEMMA MapIdsSort ==
  ASSUME NEW D, NEW map, NEW sort, MapOf(D, map, sort), NEW x \in IdsOf(map)
  PROVE  x \in DOMAIN D /\ D[x].sort = sort
<1>1. PICK s \in DOMAIN map : x \in Ids(map[s])
  BY InIdsOf
<1>2. x \in OfIn(D, sort, s)
  BY <1>1 DEF MapOf, ListOf, Ids
<1> QED  BY <1>2 DEF OfIn

LEMMA LeftoverKeeps ==
  ASSUME MockInv, fail_if_leftover_values
  PROVE  MockInv'
<1> DEFINE r == remove_always_return_values(result_map)
           p == remove_always_return_values(parameter_map)
           c == remove_always_return_values_from_list(call_ordering)
<1>1. stage = "running" /\ Listed
  BY DEF fail_if_leftover_values, MockInv
<1>2. /\ result_map' = r /\ parameter_map' = p /\ call_ordering' = c /\ declared' = declared
      /\ memory' = memory \ ((IdsOf(result_map) \ IdsOf(r))
                             \union (IdsOf(parameter_map) \ IdsOf(p))
                             \union (Ids(call_ordering) \ Ids(c)))
      /\ stage' # "running" /\ left_in' = left_in
      /\ verdict' = "passed" => /\ ~check_for_leftover_values(r)
                                /\ ~check_for_leftover_values(p)
                                /\ c = <<>>
  BY DEF fail_if_leftover_values, exit_test
<1>3. /\ declared \in Seq(Declarations) /\ call_ordering \in Seq(Nodes)
      /\ result_map \in [Functions -> Seq(Nodes)]
      /\ parameter_map \in [Parameters -> Seq(Nodes)]
      /\ MapOf(declared, result_map, "result") /\ MapOf(declared, parameter_map, "parameter")
      /\ ListOf(declared, call_ordering, CallsIn(declared))
  BY <1>1 DEF Listed
<1>4. /\ IdsOf(r) \subseteq IdsOf(result_map)
      /\ \A f \in Functions : r[f] = <<>> =>
           \A i \in DOMAIN result_map[f] : i = 1 /\ Removable(result_map[f][i])
  BY <1>3, RemoveAlways
<1>5. /\ IdsOf(p) \subseteq IdsOf(parameter_map)
      /\ \A s \in Parameters : p[s] = <<>> =>
           \A i \in DOMAIN parameter_map[s] : i = 1 /\ Removable(parameter_map[s][i])
  BY <1>3, RemoveAlways
<1>6. Ids(c) \subseteq Ids(call_ordering) /\ (c = <<>> => \A i \in DOMAIN call_ordering : Removable(call_ordering[i]))
  BY <1>3, KeptProperties
<1>7. DOMAIN r = Functions /\ DOMAIN p = Parameters
  BY <1>3 DEF remove_always_return_values
<1> HIDE DEF r, p, c
<1>8. DeclarationsFreed'
  <2>1. \A x \in IdsOf(result_map) : declared[x].sort = "result"
    BY <1>3, MapIdsSort
  <2>2. \A x \in IdsOf(parameter_map) : declared[x].sort = "parameter"
    BY <1>3, MapIdsSort
  <2>3. \A x \in Ids(call_ordering) : declared[x].sort = "call"
    BY <1>3 DEF ListOf, Ids, CallsIn
  <2>4. memory = IdsOf(result_map) \union IdsOf(parameter_map) \union Ids(call_ordering)
    BY <1>1 DEF MockInv, DeclarationsFreed, Listed
  <2>5. /\ IdsOf(result_map) \intersect IdsOf(parameter_map) = {}
        /\ IdsOf(result_map) \intersect Ids(call_ordering) = {}
        /\ IdsOf(parameter_map) \intersect Ids(call_ordering) = {}
    BY <2>1, <2>2, <2>3
  <2>6. memory' = IdsOf(r) \union IdsOf(p) \union Ids(c)
    BY <1>2, <1>4, <1>5, <1>6, <2>4, <2>5
  <2>7. left_in' = {}
    BY <1>1, <1>2 DEF Listed
  <2> QED  BY <1>2, <2>6, <2>7 DEF DeclarationsFreed
<1>9. ASSUME verdict' = "passed", NEW n \in DOMAIN declared
      PROVE  /\ Happened(declared[n])
             /\ declared[n].sort # "call" =>
                  \A m \in OfIn(declared, declared[n].sort, declared[n].key) : m < n => Done(declared[m])
  <2>1. declared[n] \in Declarations /\ declared[n].count \in Int /\ declared[n].used \in Nat
    BY <1>3, DeclarationType
  <2>2. CASE declared[n].sort = "result"
    <3> DEFINE f == declared[n].key
    <3>1. n \in OfIn(declared, "result", f)
      BY <2>2 DEF OfIn
    <3>2. f \in Functions
      BY <1>1, <2>2 DEF Listed, Keyed
    <3>3. result_map[f] \in Seq(Nodes) /\ ListOf(declared, result_map[f], OfIn(declared, "result", f))
      BY <1>3, <3>2 DEF MapOf
    <3>4. r[f] = <<>>
      BY <1>2, <1>7, <1>9, <3>2 DEF check_for_leftover_values
    <3>5. \A i \in DOMAIN result_map[f] : i = 1 /\ Removable(result_map[f][i])
      BY <1>4, <1>5, <3>2, <3>4
    <3> HIDE DEF f
    <3>6. /\ Happened(declared[n])
          /\ \A m \in OfIn(declared, "result", f) : m < n => Done(declared[m])
      <4>1. "result" # "call"
        OBVIOUS
      <4> QED  BY <1>3, <3>1, <3>3, <3>5, <4>1, EmptiedIsHappened DEF MockInv
    <3> QED  BY <2>2, <3>6 DEF f
  <2>3. CASE declared[n].sort = "parameter"
    <3> DEFINE f == declared[n].key
    <3>1. n \in OfIn(declared, "parameter", f)
      BY <2>3 DEF OfIn
    <3>2. f \in Parameters
      BY <1>1, <2>3 DEF Listed, Keyed
    <3>3. parameter_map[f] \in Seq(Nodes) /\ ListOf(declared, parameter_map[f], OfIn(declared, "parameter", f))
      BY <1>3, <3>2 DEF MapOf
    <3>4. p[f] = <<>>
      BY <1>2, <1>7, <1>9, <3>2 DEF check_for_leftover_values
    <3>5. \A i \in DOMAIN parameter_map[f] : i = 1 /\ Removable(parameter_map[f][i])
      BY <1>4, <1>5, <3>2, <3>4
    <3> HIDE DEF f
    <3>6. /\ Happened(declared[n])
          /\ \A m \in OfIn(declared, "parameter", f) : m < n => Done(declared[m])
      <4>1. "parameter" # "call"
        OBVIOUS
      <4> QED  BY <1>3, <3>1, <3>3, <3>5, <4>1, EmptiedIsHappened DEF MockInv
    <3> QED  BY <2>3, <3>6 DEF f
  <2>4. CASE declared[n].sort = "call"
    <3>1. n \in CallsIn(declared)
      BY <2>4 DEF CallsIn
    <3>2. CASE Done(declared[n])
      BY <2>1, <2>4, <3>2 DEF Done, Happened
    <3>3. CASE n \in Ids(call_ordering)
      <4>1. PICK i \in DOMAIN call_ordering : n = call_ordering[i].id
        BY <3>3 DEF Ids
      <4>2. Counted(declared[n], call_ordering[i].refcount) /\ call_ordering[i].refcount < -1
        BY <1>2, <1>3, <1>6, <1>9, <4>1 DEF ListOf, Removable
      <4>3. call_ordering[i].refcount \in Int
        BY <1>3, NodeType
      <4> QED  BY <2>1, <2>4, <4>2, <4>3 DEF Counted, Happened
    <3> QED  BY <1>3, <3>1, <3>2, <3>3 DEF ListOf
  <2> QED  BY <2>1, <2>2, <2>3, <2>4 DEF Declarations
<1>10. PassedIsSatisfied'
  <2>1. \A n \in DOMAIN declared : Happened(declared[n]) => Satisfied(n)
    BY DEF Happened, Satisfied, WILL_RETURN_ALWAYS
  <2>2. \A n \in DOMAIN declared : Done(declared[n]) => UsedUp(n)
    BY DEF Done, UsedUp
  <2>3. \A sort, key : Of(sort, key) = OfIn(declared, sort, key)
    BY DEF Of, OfIn
  <2>4. ASSUME verdict' = "passed", NEW n \in DOMAIN declared
        PROVE  /\ Satisfied(n)
               /\ declared[n].sort # "call" =>
                    \A m \in Of(declared[n].sort, declared[n].key) : m < n => UsedUp(m)
    BY <1>9, <2>1, <2>2, <2>3, <2>4 DEF OfIn
  <2>5. \A n \in DOMAIN declared : /\ Satisfied(n)' = Satisfied(n) /\ UsedUp(n)' = UsedUp(n)
    BY <1>2 DEF Satisfied, UsedUp
  <2>6. \A sort, key : Of(sort, key)' = Of(sort, key) /\ Of(sort, key) \subseteq DOMAIN declared
    BY <1>2 DEF Of
  <2> QED  BY <1>2, <2>4, <2>5, <2>6 DEF PassedIsSatisfied
<1> QED  BY <1>2, <1>8, <1>10 DEF MockInv

LEMMA TeardownKeeps ==
  ASSUME MockInv, teardown_testing
  PROVE  MockInv'
<1>1. /\ memory' \subseteq left_in' /\ left_in' = left_in /\ verdict' = verdict
      /\ left_in # {} => verdict = "failed"
  BY DEF MockInv, DeclarationsFreed, teardown_testing
<1>2. /\ IdsOf(result_map') = {} /\ IdsOf(parameter_map') = {} /\ Ids(call_ordering') = {}
  BY DEF teardown_testing, IdsOf, Ids
<1>3. DeclarationsFreed'
  BY <1>1, <1>2 DEF DeclarationsFreed
<1>4. PassedIsSatisfied'
  BY DEF MockInv, teardown_testing, PassedIsSatisfied, Satisfied, UsedUp, Of
<1> QED  BY <1>3, <1>4 DEF MockInv, teardown_testing

(* UsedInOrder, PassedIsSatisfied and DeclarationsFreed: whatever a test   *)
(* declares, and however it goes on, mock(), check_expected() and          *)
(* function_called() use the declarations in order, a test passes only     *)
(* when all of them have been met, and none is lost or left but one in     *)
(* whose making or last check the test was left (cmocka.c).                *)
LEMMA ExpectationsSafe == MockSpec => [](UsedInOrder /\ PassedIsSatisfied /\ DeclarationsFreed)
<1>1. MockInit => MockInv
  <2> SUFFICES ASSUME MockInit PROVE MockInv
    OBVIOUS
  <2>1. declared = <<>> /\ DOMAIN declared = {} /\ <<>> \in Seq(Declarations)
    BY EmptySeq DEF MockInit
  <2>2. <<>> \in Seq(Nodes) /\ Ids(<<>>) = {} /\ DOMAIN <<>> = {}
    BY EmptySeq DEF Ids
  <2>3. \A S : S \subseteq DOMAIN declared => ListOf(declared, <<>>, S)
    BY <2>1, <2>2 DEF ListOf
  <2>4. Listed
    <3>1. MapOf(declared, result_map, "result") /\ MapOf(declared, parameter_map, "parameter")
      BY <2>3 DEF MockInit, MapOf, OfIn
    <3>2. ListOf(declared, call_ordering, CallsIn(declared))
      BY <2>3 DEF MockInit, CallsIn
    <3>3. Keyed(declared)
      BY <2>1 DEF Keyed
    <3> QED  BY <2>1, <2>2, <3>1, <3>2, <3>3 DEF MockInit, Listed
  <2>5. DeclarationsFreed
    BY <2>2 DEF MockInit, DeclarationsFreed, IdsOf
  <2> QED  BY <2>1, <2>4, <2>5 DEF MockInit, MockInv, InOrder, PassedIsSatisfied
<1>2. MockInv /\ [MockNext]_mockVars => MockInv'
  <2> SUFFICES ASSUME MockInv, [MockNext]_mockVars PROVE MockInv'
    OBVIOUS
  <2>1. CASE UNCHANGED mockVars
    BY <2>1
    DEF mockVars, MockInv, Listed, PassedIsSatisfied, DeclarationsFreed, Satisfied, UsedUp, Of
  <2>2. CASE _fail
    BY <2>2, ExitKeeps DEF _fail
  <2>3. CASE _will_return_nothing
    BY <2>3, ExitKeeps DEF _will_return_nothing
  <2> QED
    BY <2>1, <2>2, <2>3, DeclareKeeps, MockKeeps, CheckExpectedKeeps, FunctionCalledKeeps,
       LeftoverKeeps, TeardownKeeps
    DEF MockNext
<1>3. MockInv => UsedInOrder /\ PassedIsSatisfied /\ DeclarationsFreed
  BY OrderIsOrder DEF MockInv
<1> QED  BY <1>1, <1>2, <1>3, PTL DEF MockSpec

(* Whatever a test declares and calls, mock() and check_expected() use the *)
(* declarations of a symbol strictly in order, each to its end, and        *)
(* function_called() passes over a call only when it needs no further one. *)
THEOREM UseIsInOrder == MockSpec => []UsedInOrder
BY ExpectationsSafe, PTL

(* A test passes only when every declaration has been met in full: the     *)
(* check for leftovers looks at what the counts say and at nothing else.   *)
THEOREM PassIsEarned == MockSpec => []PassedIsSatisfied
BY ExpectationsSafe, PTL

(* A declaration is freed with its last use or at the end of the test, so  *)
(* none is lost before and none is left for the next test, except one that *)
(* a failed test left behind: the value declared with the count 0, or the  *)
(* check whose last use never came back to _check_expected.                *)
THEOREM NothingLeftBehind == MockSpec => []DeclarationsFreed
BY ExpectationsSafe, PTL

-----------------------------------------------------------------------------
(***************************************************************************)
(* The runner: what it reports.                                            *)
(***************************************************************************)
GroupPlaces == [kind : {"group_setup", "group_teardown", "finish"}, test : {0}]
TestPlaces == [kind : {"setup", "test", "teardown"}, test : DOMAIN Tests]
Statuses == {"NOT_STARTED", "PASSED", "FAILED", "SKIPPED", "ERROR"}

(* Test t has not begun.                                                   *)
Ahead(t) == \/ at.kind = "group_setup"
            \/ at.kind \in {"setup", "test"} /\ t >= at.test
            \/ at.kind = "teardown" /\ t > at.test

Failures == total.FAILED + total.ERROR

ReportShape ==
  /\ at \in GroupPlaces \union TestPlaces
  /\ status \in [DOMAIN Tests -> Statuses]
  /\ truth \in [DOMAIN Tests -> {"none", "ok", "bad", "skip"}]
  /\ total \in [PASSED : Nat, FAILED : Nat, ERROR : Nat, SKIPPED : Nat]
  /\ exit = "returned" => at.kind = "finish"

(* What is known of the status of a test.                                  *)
StatusOf(t) ==
  /\ status[t] = "ERROR" <=> t \in unfit
  /\ Ahead(t) => status[t] = "NOT_STARTED"
  /\ at.kind = "teardown" /\ t = at.test => status[t] \in {"PASSED", "FAILED", "SKIPPED"}
  /\ Over(t) => status[t] \in {"PASSED", "SKIPPED"} \/ Failures > 0
  /\ status[t] = "PASSED" => truth[t] = "ok"
  /\ status[t] = "FAILED" => truth[t] = "bad"
  /\ status[t] = "SKIPPED" => truth[t] = "skip" \/ (truth[t] = "bad" /\ astray)

(* The inductive invariant of the report.                                  *)
ReportInv ==
  /\ ReportShape
  /\ skip \in BOOLEAN /\ astray \in BOOLEAN /\ (skip => astray)
  /\ \A t \in DOMAIN Tests : StatusOf(t)

LEMMA TestsDomain == DOMAIN Tests = 1..Len(Tests) /\ Len(Tests) \in Nat
BY RunnerAssumption

LEMMA AtCases ==
  ASSUME at \in GroupPlaces \union TestPlaces
  PROVE  /\ at.kind \in {"group_setup", "setup", "test", "teardown", "group_teardown", "finish"}
         /\ at.kind \in {"setup", "test", "teardown"} => at.test \in DOMAIN Tests
         /\ at.kind \in {"group_setup", "group_teardown", "finish"} => at.test = 0
<1>1. CASE at \in GroupPlaces
  BY <1>1 DEF GroupPlaces
<1>2. CASE at \in TestPlaces
  BY <1>2 DEF TestPlaces
<1> QED  BY <1>1, <1>2

(* The place after test t: a later test, or the teardown of the group.     *)
LEMMA FromTestIs ==
  ASSUME NEW t \in Nat, t > 0
  PROVE  /\ FromTest(t) \in GroupPlaces \union TestPlaces
         /\ t <= Len(Tests) => FromTest(t).kind = "setup" /\ FromTest(t).test = t
         /\ t > Len(Tests) => FromTest(t).kind = "group_teardown" /\ FromTest(t).test = 0
<1>1. CASE t <= Len(Tests)
  <2>1. t \in DOMAIN Tests
    BY <1>1, TestsDomain
  <2> QED  BY <1>1, <2>1, TestsDomain DEF FromTest, Function, TestPlaces
<1>2. CASE ~(t <= Len(Tests))
  BY <1>2, TestsDomain DEF FromTest, Function, GroupPlaces
<1> QED  BY <1>1, <1>2, TestsDomain

LEMMA TotalCounts ==
  ASSUME total \in [PASSED : Nat, FAILED : Nat, ERROR : Nat, SKIPPED : Nat],
         NEW s \in {"PASSED", "FAILED", "SKIPPED", "ERROR"}, total' = [total EXCEPT ![s] = @ + 1]
  PROVE  /\ total' \in [PASSED : Nat, FAILED : Nat, ERROR : Nat, SKIPPED : Nat]
         /\ Failures \in Nat /\ Failures' \in Nat /\ Failures' >= Failures
         /\ s \in {"FAILED", "ERROR"} => Failures' > 0
<1>1. CASE s = "PASSED"
  <2>1. total' = [total EXCEPT !.PASSED = @ + 1]
    BY <1>1
  <2> QED  BY <1>1, <2>1 DEF Failures
<1>2. CASE s = "FAILED"
  <2>1. total' = [total EXCEPT !.FAILED = @ + 1]
    BY <1>2
  <2> QED  BY <1>2, <2>1 DEF Failures
<1>3. CASE s = "ERROR"
  <2>1. total' = [total EXCEPT !.ERROR = @ + 1]
    BY <1>3
  <2> QED  BY <1>3, <2>1 DEF Failures
<1>4. CASE s = "SKIPPED"
  <2>1. total' = [total EXCEPT !.SKIPPED = @ + 1]
    BY <1>4
  <2> QED  BY <1>4, <2>1 DEF Failures
<1> QED  BY <1>1, <1>2, <1>3, <1>4

(* A test is counted, and the next one follows.                            *)
LEMMA ConcludeReport ==
  ASSUME ReportInv, at.kind \in {"setup", "teardown"},
         NEW s \in {"PASSED", "FAILED", "SKIPPED", "ERROR"}, Conclude(at.test, s),
         s = "ERROR" \/ (at.kind = "teardown" /\ s = status[at.test]),
         truth' = truth, exit' = exit, exit = "none",
         unfit' = IF s = "ERROR" THEN unfit \union {at.test} ELSE unfit,
         skip' \in BOOLEAN, astray' \in BOOLEAN, astray => astray', skip' => astray'
  PROVE  ReportInv'
<1>0. at.test \in DOMAIN Tests /\ at.test \in Nat /\ at.test > 0 /\ at.test + 1 \in Nat
      /\ at.test + 1 > 0 /\ at.test <= Len(Tests)
  BY AtCases, TestsDomain DEF ReportInv, ReportShape
<1>1. /\ status' = [status EXCEPT ![at.test] = s]
      /\ total' = [total EXCEPT ![s] = @ + 1]
      /\ at' = FromTest(at.test + 1)
  BY DEF Conclude
<1>2. /\ at' \in GroupPlaces \union TestPlaces
      /\ at.test + 1 <= Len(Tests) => at'.kind = "setup" /\ at'.test = at.test + 1
      /\ at.test + 1 > Len(Tests) => at'.kind = "group_teardown" /\ at'.test = 0
  BY <1>0, <1>1, FromTestIs
<1>3. /\ total' \in [PASSED : Nat, FAILED : Nat, ERROR : Nat, SKIPPED : Nat]
      /\ Failures \in Nat /\ Failures' \in Nat /\ Failures' >= Failures
      /\ s \in {"FAILED", "ERROR"} => Failures' > 0
  BY <1>1, TotalCounts DEF ReportInv, ReportShape
<1>4. status' \in [DOMAIN Tests -> Statuses]
  BY <1>1 DEF ReportInv, ReportShape, Statuses
<1>5. ReportShape'
  BY <1>2, <1>3, <1>4 DEF ReportInv, ReportShape
<1>6. ASSUME NEW t \in DOMAIN Tests PROVE StatusOf(t)'
  <2>0. t \in Nat /\ t >= 1 /\ t <= Len(Tests) /\ StatusOf(t) /\ status \in [DOMAIN Tests -> Statuses]
    BY TestsDomain DEF ReportInv, ReportShape
  <2>1. Ahead(t)' => t > at.test
    BY <1>0, <1>2, <2>0, TestsDomain DEF Ahead
  <2>2. Over(t)' => t <= at.test
    BY <1>0, <1>2, <2>0, TestsDomain DEF Over
  <2>3. at'.kind # "teardown"
    BY <1>0, <1>2, TestsDomain
  <2>4. CASE t = at.test
    <3>1. status'[t] = s
      BY <1>1, <2>0, <2>4
    <3>2. status[t] = s \/ s = "ERROR"
      BY <2>4
    <3>3. s \in {"PASSED", "SKIPPED"} \/ Failures' > 0
      BY <1>3
    <3>4. s = "ERROR" <=> t \in unfit'
      BY <2>0, <2>4, <3>2 DEF StatusOf
    <3> QED  BY <2>0, <2>1, <2>3, <2>4, <3>1, <3>2, <3>3, <3>4, <1>0 DEF StatusOf
  <2>5. CASE t # at.test
    <3>1. status'[t] = status[t]
      BY <1>1, <2>0, <2>5
    <3>2. Ahead(t)' => Ahead(t)
      BY <1>0, <2>0, <2>1 DEF Ahead
    <3>3. Over(t)' => Over(t)
      BY <1>0, <2>0, <2>2, <2>5 DEF Over
    <3>4. Failures > 0 => Failures' > 0
      BY <1>3
    <3>5. t \in unfit' <=> t \in unfit
      BY <2>5
    <3> QED  BY <2>0, <2>3, <3>1, <3>2, <3>3, <3>4, <3>5 DEF StatusOf
  <2> QED  BY <2>4, <2>5
<1> QED  BY <1>5, <1>6 DEF ReportInv

(* The runner goes on after a function with result rc, or without one.     *)
LEMMA ContinueReport ==
  ASSUME ReportInv, exit = "none", exit' = exit,
         NEW rc, NEW skipped \in BOOLEAN, Continue(rc, skipped),
         NEW how \in {"bad", "skip"},
         at.kind = "test" => truth' = [truth EXCEPT ![at.test] = IF rc = 0 THEN "ok" ELSE how],
         at.kind # "test" => truth' = truth,
         unfit' = IF at.kind \in {"setup", "teardown"} /\ rc # 0 THEN unfit \union {at.test}
                  ELSE unfit,
         astray' \in BOOLEAN, astray => astray',
         skipped => astray' \/ (at.kind = "test" /\ rc # 0 /\ how = "skip"),
         how = "skip" => skipped
  PROVE  ReportInv'
<1>0. /\ ReportShape /\ \A t \in DOMAIN Tests : StatusOf(t)
      /\ at.kind \in {"group_setup", "setup", "test", "teardown", "group_teardown", "finish"}
      /\ at.kind \in {"setup", "test", "teardown"} => at.test \in DOMAIN Tests
      /\ at.kind \in {"group_setup", "group_teardown", "finish"} => at.test = 0
  BY AtCases DEF ReportInv, ReportShape
<1>1. CASE /\ at.kind = "group_setup" /\ skip' = skipped /\ status' = status
           /\ at' = FromTest(1) /\ total' = total
  <2>0. unfit' = unfit
    BY <1>1
  <2>1. /\ at' \in GroupPlaces \union TestPlaces
        /\ 1 <= Len(Tests) => at'.kind = "setup" /\ at'.test = 1
        /\ 1 > Len(Tests) => at'.kind = "group_teardown" /\ at'.test = 0
    BY <1>1, FromTestIs
  <2>2. truth' = truth
    BY <1>1
  <2>3. ReportShape'
    BY <1>0, <1>1, <2>1, <2>2 DEF ReportShape
  <2>4. ASSUME NEW t \in DOMAIN Tests PROVE StatusOf(t)'
    <3>1. t \in Nat /\ t >= 1 /\ t <= Len(Tests) /\ Len(Tests) \in Nat
      BY TestsDomain
    <3>2. status[t] = "NOT_STARTED" /\ status'[t] = "NOT_STARTED"
      BY <1>0, <1>1 DEF StatusOf, Ahead
    <3>3. at'.kind = "setup" /\ at'.test = 1
      BY <2>1, <3>1
    <3>4. ~Over(t)'
      BY <3>1, <3>3 DEF Over
    <3> QED  BY <1>0, <2>0, <3>2, <3>3, <3>4 DEF StatusOf
  <2> QED  BY <1>1, <2>3, <2>4 DEF ReportInv
<1>2. CASE /\ at.kind = "group_setup" /\ skip' = skipped /\ status' = status
           /\ at' = Function("group_teardown", 0) /\ total' = [total EXCEPT !.ERROR = @ + 1]
  <2>0. unfit' = unfit
    BY <1>2
  <2>1. at' \in GroupPlaces \union TestPlaces /\ at'.kind = "group_teardown"
    BY <1>2 DEF Function, GroupPlaces
  <2>2. truth' = truth
    BY <1>2
  <2>3. total' \in [PASSED : Nat, FAILED : Nat, ERROR : Nat, SKIPPED : Nat] /\ Failures' > 0
    BY <1>0, <1>2 DEF ReportShape, Failures
  <2>4. ReportShape'
    BY <1>0, <1>2, <2>1, <2>2, <2>3 DEF ReportShape
  <2>5. ASSUME NEW t \in DOMAIN Tests PROVE StatusOf(t)'
    <3>1. status'[t] = "NOT_STARTED"
      BY <1>0, <1>2 DEF StatusOf, Ahead
    <3>2. t \notin unfit'
      BY <1>0, <1>2, <2>0, <3>1 DEF StatusOf
    <3> QED  BY <2>1, <2>3, <3>1, <3>2 DEF StatusOf
  <2> QED  BY <1>2, <2>4, <2>5 DEF ReportInv
<1>3. CASE /\ at.kind = "setup" /\ rc = 0
           /\ skip' = skipped /\ status' = status /\ total' = total
           /\ at' = Function("test", at.test)
  <2>0. unfit' = unfit
    BY <1>3
  <2>1. at' \in GroupPlaces \union TestPlaces /\ at'.kind = "test" /\ at'.test = at.test
    BY <1>0, <1>3 DEF Function, TestPlaces
  <2>2. truth' = truth
    BY <1>3
  <2>3. ReportShape'
    BY <1>0, <1>3, <2>1, <2>2 DEF ReportShape
  <2>4. ASSUME NEW t \in DOMAIN Tests PROVE StatusOf(t)'
    <3>1. (Ahead(t)' => Ahead(t)) /\ (Over(t)' => Over(t)) /\ Failures' = Failures
      BY <1>3, <2>1 DEF Ahead, Over, Failures
    <3> QED  BY <1>0, <1>3, <2>0, <2>1, <2>2, <3>1 DEF StatusOf
  <2> QED  BY <1>3, <2>3, <2>4 DEF ReportInv
<1>4. CASE at.kind = "setup" /\ rc # 0 /\ Conclude(at.test, "ERROR") /\ skip' = skipped
  BY <1>4, ConcludeReport
<1>5. CASE /\ at.kind = "test"
           /\ at' = Function("teardown", at.test)
           /\ status' = [status EXCEPT ![at.test] = IF rc = 0 THEN "PASSED"
                                                    ELSE IF skipped THEN "SKIPPED" ELSE "FAILED"]
           /\ skip' = IF rc = 0 THEN skipped ELSE SkipAfter(skipped)
           /\ total' = total
  <2>0. unfit' = unfit
    BY <1>5
  <2>1. at' \in GroupPlaces \union TestPlaces /\ at'.kind = "teardown" /\ at'.test = at.test
    BY <1>0, <1>5 DEF Function, TestPlaces
  <2> DEFINE s == IF rc = 0 THEN "PASSED" ELSE IF skipped THEN "SKIPPED" ELSE "FAILED"
             h == IF rc = 0 THEN "ok" ELSE how
  <2>2. /\ at.test \in DOMAIN Tests
        /\ status' = [status EXCEPT ![at.test] = s] /\ truth' = [truth EXCEPT ![at.test] = h]
        /\ s \in {"PASSED", "SKIPPED", "FAILED"} /\ h \in {"ok", "bad", "skip"}
    BY <1>0, <1>5
  <2>3. /\ s = "PASSED" => h = "ok"
        /\ s = "FAILED" => h = "bad"
        /\ s = "SKIPPED" => h = "skip" \/ (h = "bad" /\ astray')
    OBVIOUS
  <2> HIDE DEF s, h
  <2>4. status' \in [DOMAIN Tests -> Statuses] /\ truth' \in [DOMAIN Tests -> {"none", "ok", "bad", "skip"}]
    BY <1>0, <2>2 DEF ReportShape, Statuses
  <2>5. ReportShape'
    BY <1>0, <1>5, <2>1, <2>4 DEF ReportShape
  <2>6. ASSUME NEW t \in DOMAIN Tests PROVE StatusOf(t)'
    <3>1. t \in Nat /\ at.test \in Nat /\ Failures' = Failures
      BY <1>0, <1>5, TestsDomain DEF Failures
    <3>2. CASE t = at.test
      <4>1. status'[t] = s /\ truth'[t] = h
        BY <1>0, <2>2, <3>2 DEF ReportShape
      <4>2. ~Ahead(t)' /\ ~Over(t)'
        BY <2>1, <3>1, <3>2 DEF Ahead, Over
      <4>3. t \notin unfit'
        BY <1>0, <1>5, <2>0, <3>1, <3>2 DEF StatusOf, Ahead
      <4> QED  BY <2>1, <2>2, <2>3, <4>1, <4>2, <4>3 DEF StatusOf
    <3>3. CASE t # at.test
      <4>1. status'[t] = status[t] /\ truth'[t] = truth[t]
        BY <1>0, <2>2, <3>3 DEF ReportShape
      <4>2. (Ahead(t)' => Ahead(t)) /\ (Over(t)' => Over(t))
        BY <1>5, <2>1, <3>1 DEF Ahead, Over
      <4> QED  BY <1>0, <2>0, <2>1, <3>1, <3>3, <4>1, <4>2 DEF StatusOf
    <3> QED  BY <3>2, <3>3
  <2>7. skip' \in BOOLEAN /\ (skip' => astray')
    BY <1>5 DEF SkipAfter
  <2> QED  BY <2>5, <2>6, <2>7 DEF ReportInv
<1>6. CASE at.kind = "teardown" /\ skip' = skipped
           /\ Conclude(at.test, StatusAfterTeardown(at.test, rc))
  <2>1. status[at.test] \in {"PASSED", "FAILED", "SKIPPED"}
    BY <1>0, <1>6 DEF StatusOf
  <2> DEFINE s == IF rc = 0 THEN status[at.test] ELSE "ERROR"
  <2>2. s \in {"PASSED", "FAILED", "SKIPPED", "ERROR"} /\ (s = "ERROR" \/ s = status[at.test])
        /\ Conclude(at.test, s)
    BY <1>6, <2>1 DEF StatusAfterTeardown
  <2>4. unfit' = IF s = "ERROR" THEN unfit \union {at.test} ELSE unfit
    BY <1>6, <2>1
  <2> HIDE DEF s
  <2>3. truth' = truth /\ (skip' => astray') /\ skip' \in BOOLEAN
    BY <1>6
  <2> QED  BY <1>6, <2>2, <2>3, <2>4, ConcludeReport
<1>7. CASE /\ at.kind = "group_teardown" /\ at' = Function("finish", 0)
           /\ skip' = skipped /\ status' = status /\ total' = total
  <2>0. unfit' = unfit
    BY <1>7
  <2>1. at' \in GroupPlaces \union TestPlaces /\ at'.kind = "finish"
    BY <1>7 DEF Function, GroupPlaces
  <2>2. truth' = truth
    BY <1>7
  <2>3. ReportShape'
    BY <1>0, <1>7, <2>1, <2>2 DEF ReportShape
  <2>4. ASSUME NEW t \in DOMAIN Tests PROVE StatusOf(t)'
    <3>1. ~Ahead(t)' /\ Over(t) /\ Failures' = Failures
      BY <1>7, <2>1 DEF Ahead, Over, Failures
    <3> QED  BY <1>0, <1>7, <2>0, <2>1, <2>2, <3>1 DEF StatusOf
  <2> QED  BY <1>7, <2>3, <2>4 DEF ReportInv
<1> QED  BY <1>1, <1>2, <1>3, <1>4, <1>5, <1>6, <1>7 DEF Continue

(* A step that leaves the place and the report alone.                      *)
LEMMA ReportUnchanged ==
  ASSUME ReportInv, UNCHANGED <<at, status, total, truth, unfit, skip, astray>>,
         exit' = "returned" => at.kind = "finish"
  PROVE  ReportInv'
<1>1. ReportShape'
  BY DEF ReportInv, ReportShape
<1>2. \A t \in DOMAIN Tests : StatusOf(t)'
  BY DEF ReportInv, StatusOf, Ahead, Over, Failures
<1> QED  BY <1>1, <1>2 DEF ReportInv

(* A function ends with result rc.                                         *)
LEMMA EndReport ==
  ASSUME ReportInv, InFunction, NEW rc, NEW left, NEW how \in {"bad", "skip"},
         how = "skip" => rc # 0, EndFunction(rc, left, how)
  PROVE  ReportInv'
<1> DEFINE skipped == skip \/ how = "skip"
<1>1. /\ exit = "none" /\ exit' = exit
      /\ Continue(rc, skipped)
      /\ truth' = IF at.kind = "test" THEN [truth EXCEPT ![at.test] = IF rc = 0 THEN "ok" ELSE how]
                  ELSE truth
      /\ unfit' = IF at.kind \in {"setup", "teardown"} /\ rc # 0 THEN unfit \union {at.test}
                  ELSE unfit
      /\ astray' = (astray \/ (how = "skip" /\ at.kind # "test"))
  BY DEF EndFunction, InFunction, Remember
<1>2. skip \in BOOLEAN /\ astray \in BOOLEAN /\ (skip => astray)
  BY DEF ReportInv
<1>3. /\ skipped \in BOOLEAN /\ astray' \in BOOLEAN /\ (astray => astray')
      /\ skipped => astray' \/ (at.kind = "test" /\ rc # 0 /\ how = "skip")
      /\ how = "skip" => skipped
  BY <1>1, <1>2
<1> HIDE DEF skipped
<1>4. /\ at.kind = "test" => truth' = [truth EXCEPT ![at.test] = IF rc = 0 THEN "ok" ELSE how]
      /\ at.kind # "test" => truth' = truth
  BY <1>1
<1> QED  BY <1>1, <1>3, <1>4, ContinueReport

LEMMA ReportStep ==
  ASSUME ReportInv, [RunnerNext]_runnerVars
  PROVE  ReportInv'
<1>0. skip \in BOOLEAN /\ astray \in BOOLEAN /\ (skip => astray) /\ (exit = "returned" => at.kind = "finish")
  BY DEF ReportInv, ReportShape
<1>1. CASE UNCHANGED runnerVars
  BY <1>0, <1>1, ReportUnchanged DEF runnerVars, report
<1>2. CASE BeginFunction
  BY <1>0, <1>2, ReportUnchanged DEF BeginFunction, report
<1>3. CASE UseHeap \/ expect_assert_failure
  BY <1>0, <1>3, ReportUnchanged DEF UseHeap, expect_assert_failure, report
<1>4. CASE mock_assert
  BY <1>0, <1>4, ReportUnchanged DEF mock_assert, InFunction, report
<1>5. CASE Finish
  BY <1>0, <1>5, ReportUnchanged DEF Finish, report
<1>6. CASE NoFunction
  <2>1. at.kind # "test"
    BY <1>6 DEF NoFunction, HasFunction
  <2>2. /\ exit = "none" /\ exit' = exit /\ Continue(0, skip)
        /\ truth' = truth /\ unfit' = unfit /\ astray' = astray
    BY <1>6 DEF NoFunction
  <2>3. "bad" \in {"bad", "skip"} /\ "bad" # "skip"
    OBVIOUS
  <2> QED  BY <1>0, <2>1, <2>2, <2>3, ContinueReport
<1>7. CASE ExpectedAssertMissing
  <2>1. InFunction /\ EndFunction(-1, blocks, "bad")
    BY <1>7 DEF ExpectedAssertMissing
  <2> QED  BY <2>1, EndReport
<1>10. CASE ReturnAstray
  <2>1. CASE InFunction /\ EndFunction(-1, blocks, "bad")
    BY <2>1, EndReport
  <2>2. CASE exit' = "crashed" /\ UNCHANGED <<at, skip, report>>
    BY <1>0, <2>2, ReportUnchanged DEF report
  <2> QED  BY <1>10, <2>1, <2>2 DEF ReturnAstray
<1>8. CASE \E userRc \in 0..1, leftover \in BOOLEAN : Return(userRc, leftover)
  <2>1. InFunction /\ \E rc, left : EndFunction(rc, left, "bad")
    BY <1>8 DEF Return
  <2> QED  BY <2>1, EndReport
<1>9. CASE \E how \in {"bad", "skip"} : Abandon(how)
  <2>1. PICK how \in {"bad", "skip"} : InFunction /\ EndFunction(-1, blocks, how)
    BY <1>9 DEF Abandon
  <2>2. -1 # 0
    OBVIOUS
  <2> QED  BY <2>1, <2>2, EndReport
<1> QED
  BY <1>1, <1>2, <1>3, <1>4, <1>5, <1>6, <1>7, <1>8, <1>9, <1>10 DEF RunnerNext

LEMMA ReportInit ==
  ASSUME RunnerInit
  PROVE  ReportInv
<1>1. at \in GroupPlaces \union TestPlaces /\ at.kind = "group_setup" /\ at.test = 0
  BY DEF RunnerInit, Function, GroupPlaces
<1>2. ReportShape
  BY <1>1 DEF RunnerInit, ReportShape, Statuses
<1>3. \A t \in DOMAIN Tests : StatusOf(t)
  BY <1>1, TestsDomain DEF RunnerInit, StatusOf, Over
<1> QED  BY <1>2, <1>3 DEF RunnerInit, ReportInv

(* ReportIsTrue: for any group of tests, whatever its functions do, a test *)
(* is an error exactly when one of its fixtures failed, otherwise its      *)
(* status is how its function ended, up to the skip() of a fixture, and a  *)
(* group that returns 0 has run every test (cmocka.c).                     *)
THEOREM ReportSafe == RunnerSpec => []ReportIsTrue
<1>1. RunnerInit => ReportInv
  BY ReportInit
<1>2. ReportInv /\ [RunnerNext]_runnerVars => ReportInv'
  BY ReportStep
<1>3. ReportInv => ReportIsTrue
  <2> SUFFICES ASSUME ReportInv PROVE ReportIsTrue
    OBVIOUS
  <2>1. \A t \in DOMAIN Tests : StatusOf(t)
    BY DEF ReportInv
  <2>2. ASSUME exit = "returned", total.FAILED + total.ERROR = 0, NEW t \in DOMAIN Tests
        PROVE  status[t] \in {"PASSED", "SKIPPED"}
    <3>1. Over(t) /\ ~(Failures > 0)
      BY <2>2 DEF ReportInv, ReportShape, Over, Failures
    <3> QED  BY <2>1, <3>1 DEF StatusOf
  <2> QED  BY <2>1, <2>2 DEF ReportIsTrue, StatusOf
<1> QED  BY <1>1, <1>2, <1>3, PTL DEF RunnerSpec
-----------------------------------------------------------------------------
(***************************************************************************)
(* The runner: the blocks.  The list is in order of allocation, so the     *)
(* blocks after a check point are those with a greater number.             *)
(***************************************************************************)
Blocks == [id : Nat \ {0}, by : GroupPlaces \union TestPlaces, guard : BOOLEAN]

IsHeap(B, m) ==
  /\ B \in Seq(Blocks)
  /\ \A i \in DOMAIN B : B[i].id <= m
  /\ \A i, j \in DOMAIN B : i < j => B[i].id < B[j].id

InList(B, cp) == cp = 0 \/ \E i \in DOMAIN B : B[i].id = cp

(* Every block of C is one of B, its guard bytes aside.                    *)
Within(C, B) == \A i \in DOMAIN C : \E j \in DOMAIN B : C[i].id = B[j].id /\ C[i].by = B[j].by

InTest == at.kind \in {"setup", "test", "teardown"}

(* The check points, wherever they are.                                    *)
Points ==
  /\ check.test <= made /\ check.func <= made
  /\ check.test # NULL_CHECK => check.test >= 0
  /\ running => at.kind # "finish"
  /\ at.kind \in {"test", "teardown"} \/ (at.kind = "setup" /\ running) =>
       (Tests[at.test].setup <=> check.test # NULL_CHECK)
  /\ running /\ at.kind = "setup" => Tests[at.test].setup /\ check.func = check.test
  /\ running /\ at.kind = "teardown" /\ Tests[at.test].setup => check.func = check.test

(* Where a block of the present test may lie.                              *)
OriginOf(b) ==
  /\ b.by.test <= at.test \/ at.kind \in {"group_teardown", "finish"}
  /\ InTest /\ b.by.test = at.test /\ at.test \notin reused =>
       /\ b.by.kind = "setup" =>
            Tests[at.test].setup /\ b.id > check.test /\ (at.kind = "setup" => running)
       /\ b.by.kind = "test" =>
            \/ at.kind = "test" /\ running /\ b.id > check.func
            \/ at.kind = "teardown" /\ status[at.test] # "PASSED"
       /\ b.by.kind = "teardown" => at.kind = "teardown" /\ running /\ b.id > check.func

CleanOf(b, t) ==
  Over(t) /\ status[t] = "PASSED" /\ t \notin reused /\ b.by.test = t =>
    b.by.kind = "setup" /\ ~Tests[t].teardown

(* The inductive invariant of the blocks.                                  *)
LeakInv ==
  /\ made \in Nat /\ running \in BOOLEAN /\ check \in [test : Int, func : Nat]
  /\ IsHeap(blocks, made)
  /\ Points
  /\ \A i \in DOMAIN blocks :
       OriginOf(blocks[i]) /\ \A t \in DOMAIN Tests : CleanOf(blocks[i], t)

(* A set of natural numbers has a least one.                               *)
LEMMA LeastNat ==
  ASSUME NEW T, T \subseteq Nat, T # {}
  PROVE  \E x \in T : \A y \in T : x <= y
<1> DEFINE R == {ss \in Nat \X Nat : ss[1] < ss[2]}
<1>1. IsWellFoundedOn(R, Nat)
  BY NatLessThanWellFounded DEF OpToRel
<1>2. PICK x \in T : \A y \in T : ~(<<y, x>> \in R)
  <2> HIDE DEF R
  <2> QED  BY <1>1, WFMin
<1>3. ASSUME NEW y \in T PROVE x <= y
  <2>1. x \in Nat /\ y \in Nat /\ ~(<<y, x>> \in R)
    BY <1>2
  <2> QED  BY <2>1
<1> QED  BY <1>2, <1>3

LEMMA HeapType ==
  ASSUME NEW B, NEW m, IsHeap(B, m)
  PROVE  /\ B \in Seq(Blocks) /\ Len(B) \in Nat /\ DOMAIN B = 1..Len(B)
         /\ \A k \in DOMAIN B : /\ B[k] \in Blocks /\ B[k].id \in Nat /\ B[k].id > 0
                               /\ B[k].by \in GroupPlaces \union TestPlaces
<1>1. B \in Seq(Blocks) /\ Len(B) \in Nat /\ DOMAIN B = 1..Len(B)
  BY DEF IsHeap
<1>2. ASSUME NEW k \in DOMAIN B
      PROVE  /\ B[k] \in Blocks /\ B[k].id \in Nat /\ B[k].id > 0
             /\ B[k].by \in GroupPlaces \union TestPlaces
  <2>1. B[k] \in Blocks
    BY <1>1
  <2> QED  BY <2>1 DEF Blocks
<1> QED  BY <1>1, <1>2

(* A block leaves the list, or joins it at the end.                        *)
LEMMA HeapRemove ==
  ASSUME NEW B, NEW m \in Nat, IsHeap(B, m), NEW i \in DOMAIN B
  PROVE  IsHeap(RemoveAt(B, i), m) /\ Within(RemoveAt(B, i), B)
<1> DEFINE C == RemoveAt(B, i)
<1>0. /\ B \in Seq(Blocks) /\ Len(B) \in Nat /\ DOMAIN B = 1..Len(B) /\ i \in 1..Len(B)
      /\ \A k \in DOMAIN B : B[k].id <= m
      /\ \A k, l \in DOMAIN B : k < l => B[k].id < B[l].id
  BY DEF IsHeap
<1>1. /\ C \in Seq(Blocks) /\ Len(C) = Len(B) - 1
      /\ \A k \in 1..Len(B)-1 : C[k] = IF k < i THEN B[k] ELSE B[k+1]
  BY <1>0, RemoveAtProperties
<1> HIDE DEF C
<1>2. DOMAIN C = 1..Len(B)-1
  BY <1>1
<1>3. ASSUME NEW k \in DOMAIN C
      PROVE  C[k].id <= m /\ \E j \in DOMAIN B : C[k].id = B[j].id /\ C[k].by = B[j].by
  <2>1. k \in DOMAIN B /\ k + 1 \in DOMAIN B /\ (C[k] = B[k] \/ C[k] = B[k+1])
    BY <1>0, <1>1, <1>2
  <2> QED  BY <1>0, <2>1
<1>4. ASSUME NEW k \in DOMAIN C, NEW l \in DOMAIN C, k < l
      PROVE  C[k].id < C[l].id
  <2>1. /\ k \in Nat /\ l \in Nat
        /\ k \in DOMAIN B /\ k + 1 \in DOMAIN B /\ l \in DOMAIN B /\ l + 1 \in DOMAIN B
        /\ C[k] = (IF k < i THEN B[k] ELSE B[k+1]) /\ C[l] = (IF l < i THEN B[l] ELSE B[l+1])
    BY <1>0, <1>1, <1>2
  <2>2. CASE k < i /\ l < i
    BY <1>0, <1>4, <2>1, <2>2
  <2>3. CASE k < i /\ ~(l < i)
    <3>1. k < l + 1
      BY <1>4, <2>1
    <3>2. C[k] = B[k] /\ C[l] = B[l+1]
      BY <2>1, <2>3
    <3> QED  BY <1>0, <2>1, <3>1, <3>2
  <2>4. CASE ~(k < i)
    <3>1. ~(l < i) /\ k + 1 < l + 1
      BY <1>0, <1>4, <2>1, <2>4
    <3>2. C[k] = B[k+1] /\ C[l] = B[l+1]
      BY <2>1, <2>4, <3>1
    <3> QED  BY <1>0, <2>1, <3>1, <3>2
  <2> QED  BY <2>2, <2>3, <2>4
<1>6. IsHeap(C, m) /\ Within(C, B)
  BY <1>1, <1>3, <1>4 DEF IsHeap, Within
<1> QED  BY <1>6 DEF C

LEMMA HeapAppend ==
  ASSUME NEW B, NEW m \in Nat, IsHeap(B, m), NEW b \in Blocks, b.id = m + 1
  PROVE  /\ IsHeap(Append(B, b), m + 1)
         /\ DOMAIN Append(B, b) = DOMAIN B \union {Len(B) + 1}
         /\ \A i \in DOMAIN B : Append(B, b)[i] = B[i]
         /\ Append(B, b)[Len(B) + 1] = b
<1> DEFINE C == Append(B, b)
<1>0. /\ B \in Seq(Blocks) /\ Len(B) \in Nat /\ DOMAIN B = 1..Len(B)
      /\ \A k \in DOMAIN B : B[k] \in Blocks /\ B[k].id \in Nat /\ B[k].id <= m
      /\ \A k, l \in DOMAIN B : k < l => B[k].id < B[l].id
  BY HeapType DEF IsHeap
<1>1. /\ C \in Seq(Blocks) /\ Len(C) = Len(B) + 1 /\ DOMAIN C = 1..Len(B)+1
      /\ \A i \in 1..Len(B) : C[i] = B[i]
      /\ C[Len(B) + 1] = b
  BY <1>0, AppendProperties
<1> HIDE DEF C
<1>2. \A i \in DOMAIN C : C[i].id <= m + 1
  <2> SUFFICES ASSUME NEW i \in DOMAIN C PROVE C[i].id <= m + 1
    OBVIOUS
  <2>1. CASE i \in DOMAIN B
    BY <1>0, <1>1, <2>1
  <2>2. CASE i = Len(B) + 1
    BY <1>1, <2>2
  <2> QED  BY <1>0, <1>1, <2>1, <2>2
<1>3. ASSUME NEW i \in DOMAIN C, NEW j \in DOMAIN C, i < j
      PROVE  C[i].id < C[j].id
  <2>1. i \in DOMAIN B /\ C[i] = B[i]
    BY <1>0, <1>1, <1>3
  <2>2. CASE j \in DOMAIN B
    BY <1>0, <1>1, <1>3, <2>1, <2>2
  <2>3. CASE j = Len(B) + 1
    BY <1>0, <1>1, <2>1, <2>3
  <2> QED  BY <1>0, <1>1, <2>2, <2>3
<1>5. IsHeap(C, m + 1)
  BY <1>1, <1>2, <1>3 DEF IsHeap
<1>6. DOMAIN C = DOMAIN B \union {Len(B) + 1}
  BY <1>0, <1>1
<1> QED  BY <1>0, <1>1, <1>5, <1>6 DEF C

LEMMA HeapOverrun ==
  ASSUME NEW B, NEW m \in Nat, IsHeap(B, m), NEW i \in DOMAIN B
  PROVE  /\ IsHeap([B EXCEPT ![i].guard = FALSE], m)
         /\ Within([B EXCEPT ![i].guard = FALSE], B)
<1> DEFINE C == [B EXCEPT ![i].guard = FALSE]
<1>0. /\ B \in Seq(Blocks) /\ Len(B) \in Nat /\ DOMAIN B = 1..Len(B)
      /\ \A k \in DOMAIN B : B[k] \in Blocks /\ B[k].id <= m
      /\ \A k, l \in DOMAIN B : k < l => B[k].id < B[l].id
  BY DEF IsHeap
<1>1. C = [B EXCEPT ![i] = [B[i] EXCEPT !.guard = FALSE]]
  OBVIOUS
<1>2. [B[i] EXCEPT !.guard = FALSE] \in Blocks
  BY <1>0 DEF Blocks
<1>3. C \in Seq(Blocks) /\ DOMAIN C = DOMAIN B
  BY <1>0, <1>1, <1>2, ExceptSeq
<1>4. \A k \in DOMAIN B : C[k].id = B[k].id /\ C[k].by = B[k].by
  <2> SUFFICES ASSUME NEW k \in DOMAIN B PROVE C[k].id = B[k].id /\ C[k].by = B[k].by
    OBVIOUS
  <2>1. CASE k = i
    BY <1>0, <1>1, <2>1 DEF Blocks
  <2>2. CASE k # i
    BY <1>0, <1>1, <2>2
  <2> QED  BY <2>1, <2>2
<1> HIDE DEF C
<1>5. IsHeap(C, m)
  BY <1>0, <1>3, <1>4 DEF IsHeap
<1>6. Within(C, B)
  BY <1>3, <1>4 DEF Within
<1> QED  BY <1>5, <1>6 DEF C

(* The check point is the last block, and the blocks after a check point   *)
(* are those with a greater number.                                        *)
LEMMA CheckPointIs ==
  ASSUME NEW m \in Nat, IsHeap(blocks, m)
  PROVE  /\ check_point_allocated_blocks \in Nat /\ check_point_allocated_blocks <= m
         /\ \A i \in DOMAIN blocks : blocks[i].id <= check_point_allocated_blocks
<1>0. /\ blocks \in Seq(Blocks) /\ Len(blocks) \in Nat /\ DOMAIN blocks = 1..Len(blocks)
      /\ \A k \in DOMAIN blocks : blocks[k].id \in Nat
      /\ \A k, l \in DOMAIN blocks : k < l => blocks[k].id < blocks[l].id
  BY HeapType DEF IsHeap
<1>1. CASE blocks = <<>>
  <2>1. DOMAIN blocks = {}
    BY <1>1
  <2> QED  BY <1>1, <2>1 DEF check_point_allocated_blocks
<1>2. CASE blocks # <<>>
  <2>1. Len(blocks) \in DOMAIN blocks
    BY <1>0, <1>2
  <2>2. check_point_allocated_blocks = blocks[Len(blocks)].id
    BY <1>2 DEF check_point_allocated_blocks
  <2>3. ASSUME NEW i \in DOMAIN blocks PROVE blocks[i].id <= blocks[Len(blocks)].id
    <3>1. CASE i = Len(blocks)
      BY <1>0, <3>1
    <3>2. CASE i < Len(blocks)
      BY <1>0, <2>1, <3>2
    <3> QED  BY <1>0, <3>1, <3>2
  <2> QED  BY <1>0, <2>1, <2>2, <2>3 DEF IsHeap
<1> QED  BY <1>1, <1>2

LEMMA PositionIs ==
  ASSUME NEW m \in Nat, IsHeap(blocks, m), NEW cp \in Nat, InList(blocks, cp)
  PROVE  /\ Position(cp) \in 0..Len(blocks)
         /\ \A i \in DOMAIN blocks : i <= Position(cp) <=> blocks[i].id <= cp
<1>0. /\ blocks \in Seq(Blocks) /\ Len(blocks) \in Nat /\ DOMAIN blocks = 1..Len(blocks)
      /\ \A k \in DOMAIN blocks : blocks[k].id \in Nat /\ blocks[k].id > 0
      /\ \A k, l \in DOMAIN blocks : k < l => blocks[k].id < blocks[l].id
  BY HeapType DEF IsHeap
<1>1. CASE cp = 0
  <2>1. Position(cp) = 0
    BY <1>1 DEF Position
  <2>2. ASSUME NEW i \in DOMAIN blocks PROVE ~(i <= 0) /\ ~(blocks[i].id <= 0)
    BY <1>0
  <2> QED  BY <1>0, <1>1, <2>1, <2>2
<1>2. CASE cp # 0
  <2>1. Position(cp) \in DOMAIN blocks /\ blocks[Position(cp)].id = cp
    BY <1>2 DEF Position, InList
  <2> DEFINE p == Position(cp)
  <2> HIDE DEF p
  <2>2. p \in DOMAIN blocks /\ blocks[p].id = cp
    BY <2>1 DEF p
  <2>3. ASSUME NEW i \in DOMAIN blocks PROVE i <= p <=> blocks[i].id <= cp
    <3>1. CASE i < p
      BY <1>0, <2>2, <3>1
    <3>2. CASE i = p
      BY <1>0, <2>2, <3>2
    <3>3. CASE i > p
      <4>1. blocks[p].id < blocks[i].id
        BY <1>0, <2>2, <3>3
      <4> QED  BY <1>0, <2>2, <3>3, <4>1
    <3> QED  BY <1>0, <2>2, <3>1, <3>2, <3>3
  <2>4. p \in 0..Len(blocks)
    BY <1>0, <2>2
  <2> QED  BY <2>3, <2>4 DEF p
<1> QED  BY <1>1, <1>2

LEMMA DisplayIs ==
  ASSUME NEW m \in Nat, IsHeap(blocks, m), NEW cp \in Nat, InList(blocks, cp),
         ~(display_allocated_blocks(cp) > 0)
  PROVE  \A i \in DOMAIN blocks : blocks[i].id <= cp
<1>1. Position(cp) = Len(blocks)
  BY PositionIs, HeapType DEF display_allocated_blocks
<1> QED  BY <1>1, PositionIs, HeapType

(* A first part of the list and an end of it make a list.                  *)
LEMMA HeapCut ==
  ASSUME NEW B, NEW m \in Nat, IsHeap(B, m), NEW p \in 0..Len(B), NEW k \in p+1..Len(B)+1
  PROVE  LET C == SubSeq(B, 1, p) \o SubSeq(B, k, Len(B)) IN
         IsHeap(C, m) /\ Within(C, B)
<1> DEFINE a == SubSeq(B, 1, p)
           b == SubSeq(B, k, Len(B))
           C == a \o b
           n == Len(B) - k + 1
           src(i) == IF i <= p THEN i ELSE i - p + k - 1
<1>0. /\ B \in Seq(Blocks) /\ Len(B) \in Nat /\ DOMAIN B = 1..Len(B)
      /\ \A i \in DOMAIN B : B[i] \in Blocks /\ B[i].id <= m
      /\ \A i, j \in DOMAIN B : i < j => B[i].id < B[j].id
  BY HeapType DEF IsHeap
<1>1. p \in Nat /\ k \in Nat /\ n \in Nat /\ p <= Len(B) /\ p < k
  BY <1>0
<1>2. a \in Seq(Blocks) /\ Len(a) = p /\ \A i \in 1..p : a[i] = B[i]
  BY <1>0, <1>1, SubSeqProperties
<1>3. b \in Seq(Blocks) /\ Len(b) = n /\ \A i \in 1..n : b[i] = B[k + i - 1]
  <2>1. \A i \in k..Len(B) : B[i] \in Blocks
    BY <1>0, <1>1
  <2> QED  BY <1>0, <1>1, <2>1, SubSeqProperties
<1> HIDE DEF a, b
<1>4. /\ C \in Seq(Blocks) /\ Len(C) = p + n
      /\ \A i \in 1 .. p + n : C[i] = IF i <= p THEN a[i] ELSE b[i - p]
  <2>1. /\ C \in Seq(Blocks) /\ Len(C) = Len(a) + Len(b)
        /\ \A i \in 1 .. Len(a) + Len(b) : C[i] = IF i <= Len(a) THEN a[i] ELSE b[i - Len(a)]
    BY <1>2, <1>3, ConcatProperties
  <2> HIDE DEF C, n
  <2> QED  BY <1>2, <1>3, <2>1
<1> HIDE DEF C
<1>5. DOMAIN C = 1..p+n
  BY <1>4
<1>6. ASSUME NEW i \in DOMAIN C
      PROVE  src(i) \in DOMAIN B /\ C[i] = B[src(i)]
  <2>1. CASE i <= p
    BY <1>0, <1>1, <1>2, <1>4, <1>5, <2>1
  <2>2. CASE ~(i <= p)
    <3>1. i - p \in 1..n /\ k + (i - p) - 1 = src(i) /\ src(i) \in 1..Len(B)
      BY <1>0, <1>1, <1>5, <2>2
    <3>2. C[i] = b[i - p]
      BY <1>4, <1>5, <2>2
    <3> QED  BY <1>0, <1>3, <3>1, <3>2
  <2> QED  BY <2>1, <2>2
<1>7. ASSUME NEW i \in DOMAIN C, NEW j \in DOMAIN C, i < j
      PROVE  src(i) < src(j)
  BY <1>1, <1>5, <1>7
<1> HIDE DEF src
<1>10. IsHeap(C, m)
  BY <1>0, <1>4, <1>6, <1>7 DEF IsHeap
<1>11. Within(C, B)
  BY <1>6 DEF Within
<1> QED  BY <1>10, <1>11 DEF C, a, b

(* What is left after the blocks of a function are freed.                  *)
LEMMA FreedIs ==
  ASSUME NEW m \in Nat, IsHeap(blocks, m), NEW cp \in Nat, InList(blocks, cp)
  PROVE  IsHeap(free_allocated_blocks(cp), m) /\ Within(free_allocated_blocks(cp), blocks)
<1> DEFINE p == Position(cp)
           broken == {i \in p+1 .. Len(blocks) : ~blocks[i].guard}
           first == CHOOSE i \in broken : \A j \in broken : i <= j
           rest == IF broken = {} THEN <<>> ELSE SubSeq(blocks, first, Len(blocks))
           C == free_allocated_blocks(cp)
<1>0. /\ blocks \in Seq(Blocks) /\ Len(blocks) \in Nat /\ DOMAIN blocks = 1..Len(blocks)
      /\ p \in 0..Len(blocks)
      /\ \A i \in DOMAIN blocks : i <= p <=> blocks[i].id <= cp
  BY HeapType, PositionIs
<1>1. C = SubSeq(blocks, 1, p) \o rest
  BY DEF free_allocated_blocks
<1> HIDE DEF p, C
<1>2. \E k \in p+1..Len(blocks)+1 : rest = SubSeq(blocks, k, Len(blocks))
  <2>1. CASE broken = {}
    <3>1. rest = SubSeq(blocks, Len(blocks) + 1, Len(blocks))
      BY <1>0, <2>1, SubSeqEmpty
    <3>2. Len(blocks) + 1 \in p+1..Len(blocks)+1
      BY <1>0
    <3> HIDE DEF rest
    <3> QED  BY <3>1, <3>2
  <2>2. CASE broken # {}
    <3>1. broken \subseteq Nat
      BY <1>0
    <3>2. \E i \in broken : \A j \in broken : i <= j
      <4> HIDE DEF broken
      <4> QED  BY <2>2, <3>1, LeastNat
    <3>3. first \in broken
      <4> HIDE DEF broken
      <4> QED  BY <3>2
    <3>4. first \in p+1..Len(blocks)+1
      BY <1>0, <3>3
    <3>5. rest = SubSeq(blocks, first, Len(blocks))
      BY <2>2
    <3> HIDE DEF first, rest
    <3> QED  BY <3>4, <3>5
  <2> QED  BY <2>1, <2>2
<1> HIDE DEF rest
<1>3. PICK k \in p+1..Len(blocks)+1 : C = SubSeq(blocks, 1, p) \o SubSeq(blocks, k, Len(blocks))
  BY <1>1, <1>2
<1>4. IsHeap(C, m) /\ Within(C, blocks)
  BY <1>0, <1>3, HeapCut
<1> QED  BY <1>4 DEF C

(* What a running function does to the check points: nothing, or it is     *)
(* given the memory of one it has freed.                                   *)
Kept == check' = check /\ reused' = reused
Moved ==
  /\ reused' = reused \union {at.test}
  /\ check' \in [test : Int, func : Nat]
  /\ check'.test <= made' /\ check'.func <= made'
  /\ check'.test = NULL_CHECK <=> check.test = NULL_CHECK
  /\ check'.test # NULL_CHECK => check'.test >= 0
  /\ check.func = check.test => check'.func = check'.test

LEMMA AllocateIs ==
  ASSUME LeakInv, Allocate
  PROVE  made' = made + 1 /\ (Kept \/ Moved)
<1>0. /\ made' = made + 1 /\ made \in Nat
      /\ check.test \in Int /\ check.func \in Nat /\ check.test <= made /\ check.func <= made
      /\ check.test # -1 => check.test >= 0
  BY DEF Allocate, LeakInv, Points, NULL_CHECK
<1>1. CASE UNCHANGED <<check, reused>>
  BY <1>0, <1>1 DEF Kept
<1>2. CASE \E cp \in {check.test, check.func} :
             /\ Dead(cp)
             /\ check' = [test |-> IF check.test = cp THEN made + 1 ELSE check.test,
                          func |-> IF check.func = cp THEN made + 1 ELSE check.func]
             /\ reused' = reused \union {at.test}
  <2>1. PICK cp \in {check.test, check.func} :
             /\ Dead(cp)
             /\ check' = [test |-> IF check.test = cp THEN made + 1 ELSE check.test,
                          func |-> IF check.func = cp THEN made + 1 ELSE check.func]
             /\ reused' = reused \union {at.test}
    BY <1>2
  <2>2. cp > 0 /\ cp \in Int
    BY <1>0, <2>1 DEF Dead
  <2> DEFINE a == IF check.test = cp THEN made + 1 ELSE check.test
             b == IF check.func = cp THEN made + 1 ELSE check.func
  <2>3. /\ a \in Int /\ b \in Nat /\ a <= made + 1 /\ b <= made + 1
        /\ a = -1 <=> check.test = -1
        /\ a # -1 => a >= 0
        /\ check.func = check.test => b = a
    BY <1>0, <2>2
  <2>4. check' = [test |-> a, func |-> b]
    BY <2>1
  <2> HIDE DEF a, b
  <2>5. check'.test = a /\ check'.func = b /\ check' \in [test : Int, func : Nat]
    BY <2>3, <2>4
  <2> QED  BY <1>0, <2>1, <2>3, <2>5 DEF Moved, NULL_CHECK
<1> QED  BY <1>0, <1>1, <1>2 DEF Allocate

(* What a running function does to the list.                               *)
LEMMA HeapUsed ==
  ASSUME ReportInv, LeakInv, UseHeap
  PROVE  /\ made' \in Nat /\ made' >= made /\ IsHeap(blocks, made)'
         /\ \A i \in DOMAIN blocks' :
              \/ \E j \in DOMAIN blocks : blocks'[i].id = blocks[j].id /\ blocks'[i].by = blocks[j].by
              \/ blocks'[i].id > made /\ blocks'[i].by = at
         /\ Kept \/ Moved
<1>0. made \in Nat /\ IsHeap(blocks, made)
  BY DEF LeakInv
<1>1. NewBlock \in Blocks /\ NewBlock.id = made + 1 /\ NewBlock.by = at
  BY <1>0 DEF NewBlock, Blocks, ReportInv, ReportShape
<1> DEFINE A == Append(blocks, NewBlock)
<1>2. /\ IsHeap(A, made + 1)
      /\ \A i \in DOMAIN A : \/ \E j \in DOMAIN blocks : A[i].id = blocks[j].id /\ A[i].by = blocks[j].by
                             \/ A[i].id > made /\ A[i].by = at
      /\ DOMAIN blocks \subseteq DOMAIN A
  <2>1. /\ IsHeap(A, made + 1) /\ DOMAIN A = DOMAIN blocks \union {Len(blocks) + 1}
        /\ \A i \in DOMAIN blocks : A[i] = blocks[i]
        /\ A[Len(blocks) + 1] = NewBlock
    BY <1>0, <1>1, HeapAppend
  <2> HIDE DEF A
  <2> QED  BY <1>0, <1>1, <2>1
<1> HIDE DEF A
<1>3. CASE _test_malloc
  <2>1. blocks' = A /\ made' = made + 1 /\ (Kept \/ Moved)
    BY <1>3, AllocateIs DEF _test_malloc, A
  <2>2. made' \in Nat /\ made' >= made
    BY <1>0, <2>1
  <2> QED  BY <1>2, <2>1, <2>2
<1>4. CASE _test_free
  <2>1. PICK i \in DOMAIN blocks : blocks' = RemoveAt(blocks, i) /\ UNCHANGED <<made, check, reused>>
    BY <1>4 DEF _test_free
  <2>2. IsHeap(blocks', made) /\ Within(blocks', blocks)
    BY <1>0, <2>1, HeapRemove
  <2> QED  BY <1>0, <2>1, <2>2 DEF Within, Kept
<1>5. CASE _test_realloc
  <2>1. PICK i \in DOMAIN blocks : Allocate /\ blocks' = RemoveAt(A, i)
    BY <1>5 DEF _test_realloc, A
  <2>0. made' = made + 1 /\ (Kept \/ Moved)
    BY <2>1, AllocateIs
  <2>2. IsHeap(blocks', made + 1) /\ Within(blocks', A)
    BY <1>0, <1>2, <2>1, HeapRemove
  <2>4. ASSUME NEW k \in DOMAIN blocks'
        PROVE  \/ \E j \in DOMAIN blocks : blocks'[k].id = blocks[j].id /\ blocks'[k].by = blocks[j].by
               \/ blocks'[k].id > made /\ blocks'[k].by = at
    <3>1. PICK l \in DOMAIN A : blocks'[k].id = A[l].id /\ blocks'[k].by = A[l].by
      BY <2>2 DEF Within
    <3> QED  BY <1>2, <3>1
  <2>5. made' \in Nat /\ made' >= made
    BY <1>0, <2>0
  <2> QED  BY <2>0, <2>2, <2>4, <2>5
<1>6. CASE Overrun
  <2>1. PICK i \in DOMAIN blocks : blocks' = [blocks EXCEPT ![i].guard = FALSE]
                                   /\ UNCHANGED <<made, check, reused>>
    BY <1>6 DEF Overrun
  <2>2. IsHeap(blocks', made) /\ Within(blocks', blocks)
    BY <1>0, <2>1, HeapOverrun
  <2>3. made' = made /\ Kept
    BY <2>1 DEF Kept
  <2> QED  BY <1>0, <2>2, <2>3 DEF Within
<1> QED  BY <1>3, <1>4, <1>5, <1>6 DEF UseHeap

LEMMA UseHeapLeak ==
  ASSUME ReportInv, LeakInv, UseHeap
  PROVE  LeakInv'
<1>0. /\ running /\ exit = "none"
      /\ UNCHANGED <<at, running, status, exit>>
  BY DEF UseHeap, InFunction, report
<1>1. /\ at.kind \in {"group_setup", "setup", "test", "teardown", "group_teardown", "finish"}
      /\ at.kind \in {"setup", "test", "teardown"} => at.test \in DOMAIN Tests
      /\ at.kind \in {"group_setup", "group_teardown", "finish"} => at.test = 0
      /\ at.test \in Nat
  BY AtCases, TestsDomain DEF ReportInv, ReportShape
<1>2. /\ made' \in Nat /\ made' >= made /\ IsHeap(blocks, made)'
      /\ \A i \in DOMAIN blocks' :
           \/ \E j \in DOMAIN blocks : blocks'[i].id = blocks[j].id /\ blocks'[i].by = blocks[j].by
           \/ blocks'[i].id > made /\ blocks'[i].by = at
      /\ Kept \/ Moved
  BY HeapUsed
<1>3. /\ check \in [test : Int, func : Nat] /\ made \in Nat /\ Points
      /\ check.test \in Int /\ check.func \in Nat
      /\ \A j \in DOMAIN blocks : blocks[j].id <= made
  BY DEF LeakInv, IsHeap
<1>4. Points' /\ check' \in [test : Int, func : Nat]
  <2>1. CASE Kept
    BY <1>0, <1>2, <1>3, <2>1 DEF Points, Kept
  <2>2. CASE Moved
    BY <1>0, <1>3, <2>2 DEF Points, Moved
  <2> QED  BY <1>2, <2>1, <2>2
<1>5. /\ reused \subseteq reused'
      /\ at.test \notin reused' => check' = check
      /\ \A t : t # at.test => (t \in reused' <=> t \in reused)
  BY <1>2 DEF Kept, Moved
<1>6. ASSUME NEW i \in DOMAIN blocks'
      PROVE  OriginOf(blocks[i])' /\ \A t \in DOMAIN Tests : CleanOf(blocks[i], t)'
  <2>1. CASE \E j \in DOMAIN blocks : blocks'[i].id = blocks[j].id /\ blocks'[i].by = blocks[j].by
    <3>1. PICK j \in DOMAIN blocks : blocks'[i].id = blocks[j].id /\ blocks'[i].by = blocks[j].by
      BY <2>1
    <3>2. OriginOf(blocks[j]) /\ \A t \in DOMAIN Tests : CleanOf(blocks[j], t)
      BY DEF LeakInv
    <3> QED  BY <1>0, <1>5, <3>1, <3>2 DEF OriginOf, CleanOf, InTest, Over
  <2>2. CASE blocks'[i].id > made /\ blocks'[i].by = at
    <3>1. blocks'[i].id \in Nat
      BY <1>2, HeapType
    <3>2. blocks'[i].id > check.func /\ blocks'[i].id > check.test
      BY <1>3, <2>2, <3>1 DEF Points
    <3>3. at.kind = "setup" => Tests[at.test].setup
      BY <1>0 DEF LeakInv, Points
    <3>4. OriginOf(blocks[i])'
      BY <1>0, <1>1, <1>5, <2>2, <3>2, <3>3 DEF OriginOf, InTest
    <3>5. ASSUME NEW t \in DOMAIN Tests PROVE CleanOf(blocks[i], t)'
      <4>1. t \in Nat /\ t > 0
        BY TestsDomain
      <4>2. ~(at'.test = t /\ Over(t)')
        BY <1>0, <1>1, <4>1 DEF Over
      <4> QED  BY <1>0, <2>2, <4>2 DEF CleanOf
    <3> QED  BY <3>4, <3>5
  <2> QED  BY <1>2, <2>1, <2>2
<1>7. made' \in Nat /\ running' \in BOOLEAN
  BY <1>0, <1>2 DEF LeakInv
<1> QED  BY <1>2, <1>4, <1>6, <1>7 DEF LeakInv

(* A block that is left when the runner goes on after a function.          *)
LEMMA ContinueBlock ==
  ASSUME ReportInv, NEW rc, NEW skipped \in BOOLEAN, Continue(rc, skipped), running' = FALSE,
         NEW b \in Blocks, OriginOf(b), \A t \in DOMAIN Tests : CleanOf(b, t),
         InTest /\ Tests[at.test].setup => check'.test = check.test, reused' = reused,
         at.test \notin reused =>
           /\ at.kind = "test" /\ rc = 0 /\ b.by.test = at.test => b.by.kind # "test"
           /\ at.kind = "teardown" /\ rc = 0 /\ status[at.test] = "PASSED" /\ b.by.test = at.test =>
                b.by.kind = "setup" /\ ~Tests[at.test].teardown
  PROVE  OriginOf(b)' /\ \A t \in DOMAIN Tests : CleanOf(b, t)'
<1>0. /\ at.kind \in {"group_setup", "setup", "test", "teardown", "group_teardown", "finish"}
      /\ at.kind \in {"setup", "test", "teardown"} => at.test \in DOMAIN Tests
      /\ at.kind \in {"group_setup", "group_teardown", "finish"} => at.test = 0
      /\ at.test \in Nat /\ at.test + 1 \in Nat /\ at.test + 1 > 0
      /\ status \in [DOMAIN Tests -> Statuses]
  BY AtCases, TestsDomain DEF ReportInv, ReportShape
<1>1. /\ b.by.test \in Nat
      /\ b.by.test > 0 => b.by.kind \in {"setup", "test", "teardown"}
  BY TestsDomain DEF Blocks, GroupPlaces, TestPlaces
<1>2. \A t \in DOMAIN Tests : t \in Nat /\ t > 0
  BY TestsDomain
<1>3. CASE at.kind = "group_setup" /\ status' = status
           /\ (at' = FromTest(1) \/ at' = Function("group_teardown", 0))
  <2>1. b.by.test = 0
    BY <1>0, <1>1, <1>3 DEF OriginOf
  <2>2. at'.test \in Nat /\ (at'.test > 0 \/ at'.kind = "group_teardown")
    BY <1>3, FromTestIs, TestsDomain DEF Function
  <2>3. at'.kind \in {"setup", "test", "teardown"} => at'.test > 0
    BY <1>3, FromTestIs, TestsDomain DEF Function
  <2> QED  BY <1>2, <2>1, <2>2, <2>3 DEF OriginOf, CleanOf, InTest
<1>4. CASE at.kind = "setup" /\ at' = Function("test", at.test) /\ status' = status
  <2>1. at'.kind = "test" /\ at'.test = at.test
    BY <1>4 DEF Function
  <2>2. OriginOf(b)'
    BY <1>4, <2>1 DEF OriginOf, InTest
  <2> QED  BY <1>4, <2>1, <2>2 DEF CleanOf, Over
<1>5. CASE /\ at.kind \in {"setup", "teardown"}
           /\ Conclude(at.test, IF at.kind = "teardown" /\ rc = 0 THEN status[at.test] ELSE "ERROR")
  <2> DEFINE s == IF at.kind = "teardown" /\ rc = 0 THEN status[at.test] ELSE "ERROR"
  <2>1. status' = [status EXCEPT ![at.test] = s] /\ at' = FromTest(at.test + 1)
    BY <1>5 DEF Conclude
  <2>2. s = "PASSED" /\ at.test \notin reused /\ b.by.test = at.test =>
          b.by.kind = "setup" /\ ~Tests[at.test].teardown
    BY <1>5
  <2> HIDE DEF s
  <2>3. \/ at'.kind = "setup" /\ at'.test = at.test + 1
        \/ at'.kind = "group_teardown" /\ at'.test = 0
    BY <1>0, <2>1, FromTestIs, TestsDomain
  <2>4. b.by.test <= at.test
    BY <1>5 DEF OriginOf
  <2>5. OriginOf(b)'
    BY <1>0, <1>1, <2>3, <2>4 DEF OriginOf, InTest
  <2>6. ASSUME NEW t \in DOMAIN Tests PROVE CleanOf(b, t)'
    <3>1. CASE t = at.test
      <4>1. status'[t] = s
        BY <1>0, <2>1, <3>1
      <4> QED  BY <2>2, <3>1, <4>1 DEF CleanOf
    <3>2. CASE t # at.test
      <4>1. status'[t] = status[t]
        BY <1>0, <2>1, <3>2
      <4>2. b.by.test = t => Over(t)
        BY <1>0, <1>1, <1>2, <2>4, <3>2 DEF Over
      <4> QED  BY <4>1, <4>2 DEF CleanOf
    <3> QED  BY <3>1, <3>2
  <2> QED  BY <2>5, <2>6
<1>6. CASE /\ at.kind = "test" /\ at' = Function("teardown", at.test)
           /\ status' = [status EXCEPT ![at.test] = IF rc = 0 THEN "PASSED"
                                                    ELSE IF skipped THEN "SKIPPED" ELSE "FAILED"]
  <2>1. at'.kind = "teardown" /\ at'.test = at.test /\ at.test \in DOMAIN Tests
    BY <1>0, <1>6 DEF Function
  <2>2. rc # 0 => status'[at.test] # "PASSED"
    BY <1>0, <1>6, <2>1
  <2>3. OriginOf(b)'
    BY <1>6, <2>1, <2>2 DEF OriginOf, InTest
  <2>4. ASSUME NEW t \in DOMAIN Tests PROVE CleanOf(b, t)'
    <3>1. CASE t = at.test
      <4>1. ~Over(t)'
        BY <1>0, <2>1, <3>1 DEF Over
      <4> QED  BY <4>1 DEF CleanOf
    <3>2. CASE t # at.test
      <4>1. status'[t] = status[t]
        BY <1>0, <1>6, <3>2
      <4>2. Over(t)' => Over(t)
        BY <1>6, <2>1 DEF Over
      <4> QED  BY <4>1, <4>2 DEF CleanOf
    <3> QED  BY <3>1, <3>2
  <2> QED  BY <2>3, <2>4
<1>7. CASE at.kind = "group_teardown" /\ at' = Function("finish", 0) /\ status' = status
  <2>1. at'.kind = "finish"
    BY <1>7 DEF Function
  <2> QED  BY <1>7, <2>1 DEF OriginOf, CleanOf, InTest, Over
<1>8. CASE at.kind = "setup" /\ Conclude(at.test, "ERROR")
  BY <1>5, <1>8
<1>9. CASE at.kind = "teardown" /\ Conclude(at.test, StatusAfterTeardown(at.test, rc))
  BY <1>5, <1>9 DEF StatusAfterTeardown
<1> QED  BY <1>3, <1>4, <1>6, <1>7, <1>8, <1>9 DEF Continue

(* The runner goes on after a function with result rc, or without one.     *)
LEMMA ContinueLeak ==
  ASSUME ReportInv, LeakInv, exit = "none", exit' = exit,
         NEW rc, NEW skipped \in BOOLEAN, Continue(rc, skipped), running' = FALSE, made' = made,
         IsHeap(blocks', made), Within(blocks', blocks), check' \in [test : Int, func : Nat],
         check'.test <= made, check'.func <= made, check'.test # NULL_CHECK => check'.test >= 0,
         reused' = reused,
         at.kind = "test" \/ (at.kind = "setup" /\ rc = 0) =>
           (Tests[at.test].setup <=> check'.test # NULL_CHECK),
         InTest /\ Tests[at.test].setup => check'.test = check.test,
         \A i \in DOMAIN blocks' : at.test \notin reused =>
           /\ at.kind = "test" /\ rc = 0 /\ blocks'[i].by.test = at.test => blocks'[i].by.kind # "test"
           /\ at.kind = "teardown" /\ rc = 0 /\ status[at.test] = "PASSED"
              /\ blocks'[i].by.test = at.test =>
                blocks'[i].by.kind = "setup" /\ ~Tests[at.test].teardown
  PROVE  LeakInv'
<1>0. at.kind \in {"setup", "teardown"} => at.test \in DOMAIN Tests /\ at.test \in Nat
  BY AtCases, TestsDomain DEF ReportInv, ReportShape
<1>1. Points'
  <2>1. CASE at'.kind \in {"test", "teardown"}
    <3>1. /\ at.kind = "test" \/ (at.kind = "setup" /\ rc = 0)
          /\ at'.test = at.test
      <4>1. \A t \in Nat : t > 0 => FromTest(t).kind \in {"setup", "group_teardown"}
        BY FromTestIs, TestsDomain
      <4>2. at.kind \in {"setup", "teardown"} =>
              FromTest(at.test + 1).kind \in {"setup", "group_teardown"}
        BY <1>0, <4>1
      <4>3. FromTest(1).kind \in {"setup", "group_teardown"}
        BY <4>1
      <4> QED  BY <2>1, <4>2, <4>3 DEF Continue, Conclude, Function
    <3> QED  BY <3>1 DEF Points
  <2>2. CASE ~(at'.kind \in {"test", "teardown"})
    BY <2>2 DEF Points
  <2> QED  BY <2>1, <2>2
<1>2. ASSUME NEW i \in DOMAIN blocks'
      PROVE  OriginOf(blocks[i])' /\ \A t \in DOMAIN Tests : CleanOf(blocks[i], t)'
  <2>1. PICK j \in DOMAIN blocks : blocks'[i].id = blocks[j].id /\ blocks'[i].by = blocks[j].by
    BY DEF Within
  <2>2. PICK b : b = blocks[j]
    OBVIOUS
  <2>3. b \in Blocks /\ OriginOf(b) /\ \A t \in DOMAIN Tests : CleanOf(b, t)
    BY <2>2, HeapType DEF LeakInv
  <2>4. at.test \notin reused =>
          /\ at.kind = "test" /\ rc = 0 /\ b.by.test = at.test => b.by.kind # "test"
          /\ at.kind = "teardown" /\ rc = 0 /\ status[at.test] = "PASSED" /\ b.by.test = at.test =>
               b.by.kind = "setup" /\ ~Tests[at.test].teardown
    BY <2>1, <2>2
  <2>5. OriginOf(b)' /\ \A t \in DOMAIN Tests : CleanOf(b, t)'
    BY <2>3, <2>4, ContinueBlock
  <2>6. blocks'[i].id = b.id /\ blocks'[i].by = b.by
    BY <2>1, <2>2
  <2> QED  BY <2>5, <2>6 DEF OriginOf, CleanOf
<1>3. IsHeap(blocks, made)' /\ made' \in Nat
  BY DEF LeakInv
<1> QED  BY <1>1, <1>2, <1>3 DEF LeakInv

(* A function ends with result rc.  When it is good, no block lies after   *)
(* the check point.                                                        *)
LEMMA EndLeak ==
  ASSUME ReportInv, LeakInv, InFunction, exit' = exit,
         NEW rc, NEW skipped \in BOOLEAN, Continue(rc, skipped),
         running' = FALSE, made' = made, check' = check, reused' = reused,
         IsHeap(blocks', made), Within(blocks', blocks),
         rc = 0 /\ at.kind \in {"test", "teardown"} =>
           \A i \in DOMAIN blocks : blocks[i].id <= check.func
  PROVE  LeakInv'
<1>0. /\ running /\ exit = "none" /\ Points
      /\ check.test \in Int /\ check.func \in Nat /\ check' \in [test : Int, func : Nat]
      /\ IsHeap(blocks, made) /\ \A i \in DOMAIN blocks : OriginOf(blocks[i])
  BY DEF InFunction, LeakInv
<1>1. \A i \in DOMAIN blocks : blocks[i].id \in Nat /\ blocks[i].by \in GroupPlaces \union TestPlaces
  BY <1>0, HeapType
<1>2. /\ at.kind = "test" \/ (at.kind = "setup" /\ rc = 0) =>
           (Tests[at.test].setup <=> check'.test # NULL_CHECK)
      /\ check'.test <= made /\ check'.func <= made
      /\ check'.test # NULL_CHECK => check'.test >= 0
  BY <1>0 DEF Points
<1>3. ASSUME NEW i \in DOMAIN blocks', at.test \notin reused,
             at.kind = "test", rc = 0, blocks'[i].by.test = at.test
      PROVE  blocks'[i].by.kind # "test"
  <2>1. PICK j \in DOMAIN blocks : blocks'[i].id = blocks[j].id /\ blocks'[i].by = blocks[j].by
    BY DEF Within
  <2>2. blocks[j].id <= check.func /\ blocks[j].id \in Nat
    BY <1>1, <1>3
  <2>3. OriginOf(blocks[j]) /\ blocks[j].by.test = at.test
    BY <1>0, <1>3, <2>1
  <2>4. blocks[j].by.kind = "test" => blocks[j].id > check.func
    BY <1>3, <2>3 DEF OriginOf, InTest
  <2> QED  BY <1>0, <2>1, <2>2, <2>4
<1>4. ASSUME NEW i \in DOMAIN blocks', at.test \notin reused,
             at.kind = "teardown", rc = 0, status[at.test] = "PASSED",
             blocks'[i].by.test = at.test
      PROVE  FALSE
  <2>1. PICK j \in DOMAIN blocks : blocks'[i].id = blocks[j].id /\ blocks'[i].by = blocks[j].by
    BY DEF Within
  <2>2. blocks[j].id <= check.func /\ blocks[j].id \in Nat
    BY <1>1, <1>4
  <2>3. OriginOf(blocks[j]) /\ blocks[j].by.test = at.test
    BY <1>0, <1>4, <2>1
  <2>4. Tests[at.test].setup => check.func = check.test
    BY <1>0, <1>4 DEF Points
  <2>5. at.test \in DOMAIN Tests /\ at.test > 0
    BY <1>4, AtCases, TestsDomain DEF ReportInv, ReportShape
  <2>6. blocks[j].by.kind \in {"setup", "test", "teardown"}
    BY <1>1, <2>3, <2>5 DEF GroupPlaces, TestPlaces
  <2>7. blocks[j].by.kind \in {"setup", "teardown"} => blocks[j].id > check.func
    BY <1>4, <2>3, <2>4 DEF OriginOf, InTest
  <2>8. blocks[j].by.kind # "test"
    BY <1>4, <2>3 DEF OriginOf, InTest
  <2> QED  BY <1>0, <2>2, <2>6, <2>7, <2>8
<1> QED  BY <1>0, <1>2, <1>3, <1>4, ContinueLeak

(* No function: there is nothing to look at.                               *)
LEMMA NoFunctionLeak ==
  ASSUME ReportInv, LeakInv, NoFunction
  PROVE  LeakInv'
<1>0. /\ running = FALSE /\ exit = "none" /\ exit' = exit /\ running' = FALSE /\ made' = made
      /\ blocks' = blocks /\ Continue(0, skip) /\ skip \in BOOLEAN /\ ~HasFunction(at)
      /\ reused' = reused /\ made \in Nat
      /\ check' = [check EXCEPT !.test = IF at.kind = "setup" THEN NULL_CHECK ELSE @]
      /\ check \in [test : Int, func : Nat] /\ IsHeap(blocks, made) /\ Points
      /\ \A i \in DOMAIN blocks : OriginOf(blocks[i])
  BY DEF NoFunction, LeakInv, ReportInv
<1>1. /\ at.kind # "test"
      /\ at.kind = "setup" => ~Tests[at.test].setup
      /\ at.kind = "teardown" => ~Tests[at.test].teardown
  BY <1>0 DEF HasFunction
<1>2. /\ check' \in [test : Int, func : Nat]
      /\ check'.test = (IF at.kind = "setup" THEN NULL_CHECK ELSE check.test)
      /\ check'.test <= made /\ check'.func <= made
      /\ check'.test # NULL_CHECK => check'.test >= 0
  BY <1>0 DEF NULL_CHECK, Points
<1>3. Within(blocks', blocks) /\ IsHeap(blocks', made)
  BY <1>0 DEF Within
<1>4. ASSUME NEW i \in DOMAIN blocks', at.test \notin reused,
             at.kind = "teardown", status[at.test] = "PASSED",
             blocks'[i].by.test = at.test
      PROVE  blocks'[i].by.kind = "setup" /\ ~Tests[at.test].teardown
  <2>1. i \in DOMAIN blocks /\ blocks'[i] = blocks[i] /\ OriginOf(blocks[i])
    BY <1>0
  <2>2. at.test \in DOMAIN Tests /\ at.test > 0
    BY <1>4, AtCases, TestsDomain DEF ReportInv, ReportShape
  <2>3. blocks[i].by.kind \in {"setup", "test", "teardown"}
    BY <1>0, <1>4, <2>1, <2>2, HeapType DEF GroupPlaces, TestPlaces
  <2>4. blocks[i].by.kind \notin {"test", "teardown"}
    BY <1>0, <1>4, <2>1 DEF OriginOf, InTest
  <2> QED  BY <1>1, <1>4, <2>1, <2>3, <2>4
<1>5. /\ InTest /\ Tests[at.test].setup => check'.test = check.test
      /\ at.kind = "test" \/ at.kind = "setup" => (Tests[at.test].setup <=> check'.test # NULL_CHECK)
  BY <1>0, <1>1, <1>2 DEF InTest
<1>6. PICK rc : rc = 0
  OBVIOUS
<1>7. \A i \in DOMAIN blocks' : at.test \notin reused =>
        /\ at.kind = "test" /\ rc = 0 /\ blocks'[i].by.test = at.test => blocks'[i].by.kind # "test"
        /\ at.kind = "teardown" /\ rc = 0 /\ status[at.test] = "PASSED"
           /\ blocks'[i].by.test = at.test =>
             blocks'[i].by.kind = "setup" /\ ~Tests[at.test].teardown
  BY ONLY <1>1, <1>4
<1>8. at.kind = "test" \/ (at.kind = "setup" /\ rc = 0) =>
        (Tests[at.test].setup <=> check'.test # NULL_CHECK)
  BY ONLY <1>5
<1>9. /\ exit = "none" /\ exit' = exit /\ skip \in BOOLEAN /\ Continue(rc, skip)
      /\ running' = FALSE /\ made' = made /\ reused' = reused
  BY ONLY <1>0, <1>6
<1> QED  BY ONLY ReportInv, LeakInv, <1>2, <1>3, <1>5, <1>7, <1>8, <1>9, ContinueLeak

(* A function starts.                                                      *)
LEMMA BeginLeak ==
  ASSUME ReportInv, LeakInv, BeginFunction
  PROVE  LeakInv'
<1> DEFINE last == check_point_allocated_blocks
<1>0. /\ running = FALSE /\ running' = TRUE /\ exit = "none" /\ HasFunction(at)
      /\ UNCHANGED <<at, blocks, made, status, exit, reused>>
      /\ check' = [func |-> CheckPointOf(at), test |-> IF at.kind = "setup" THEN last ELSE check.test]
      /\ check \in [test : Int, func : Nat] /\ made \in Nat /\ IsHeap(blocks, made) /\ Points
      /\ \A i \in DOMAIN blocks : OriginOf(blocks[i]) /\ \A t \in DOMAIN Tests : CleanOf(blocks[i], t)
  BY DEF BeginFunction, LeakInv, report
<1>1. last \in Nat /\ last <= made /\ \A i \in DOMAIN blocks : blocks[i].id <= last
  BY <1>0, CheckPointIs
<1> HIDE DEF last
<1>2. /\ check'.func = CheckPointOf(at)
      /\ at.kind = "setup" => check'.test = last
      /\ at.kind # "setup" => check'.test = check.test
  BY <1>0
<1>3. CheckPointOf(at) = CASE at.kind \in {"group_setup", "group_teardown"} -> 0
                           [] at.kind = "teardown" /\ check.test # NULL_CHECK -> check.test
                           [] OTHER -> last
  BY DEF CheckPointOf, last
<1>4. /\ at.kind \in {"group_setup", "setup", "test", "teardown", "group_teardown", "finish"}
      /\ at.kind \in {"setup", "test", "teardown"} => at.test \in DOMAIN Tests
  BY AtCases DEF ReportInv, ReportShape
<1>5. last # NULL_CHECK
  BY <1>1 DEF NULL_CHECK
<1>6. CASE at.kind \in {"group_setup", "group_teardown"}
  <2>1. check'.func = 0 /\ check'.test = check.test
    BY <1>2, <1>3, <1>6
  <2>2. Points' /\ check' \in [test : Int, func : Nat]
    BY <1>0, <1>6, <2>1 DEF Points
  <2>3. \A i \in DOMAIN blocks : OriginOf(blocks[i])' /\ \A t \in DOMAIN Tests : CleanOf(blocks[i], t)'
    BY <1>0, <1>6 DEF OriginOf, InTest, CleanOf, Over
  <2> QED  BY <1>0, <2>2, <2>3 DEF LeakInv
<1>7. CASE at.kind = "setup"
  <2>1. check'.func = last /\ check'.test = last
    BY <1>2, <1>3, <1>7
  <2>2. Tests[at.test].setup
    BY <1>0, <1>7 DEF HasFunction
  <2>3. Points' /\ check' \in [test : Int, func : Nat]
    BY <1>0, <1>1, <1>5, <1>7, <2>1, <2>2 DEF Points
  <2>4. \A i \in DOMAIN blocks : OriginOf(blocks[i])' /\ \A t \in DOMAIN Tests : CleanOf(blocks[i], t)'
    BY <1>0, <1>7 DEF OriginOf, InTest, CleanOf, Over
  <2> QED  BY <1>0, <2>3, <2>4 DEF LeakInv
<1>8. CASE at.kind = "test"
  <2>1. check'.func = last /\ check'.test = check.test
    BY <1>2, <1>3, <1>8
  <2>2. Tests[at.test].setup <=> check.test # NULL_CHECK
    BY <1>0, <1>8 DEF Points
  <2>3. Points' /\ check' \in [test : Int, func : Nat]
    BY <1>0, <1>1, <1>5, <1>8, <2>1, <2>2 DEF Points
  <2>4. \A i \in DOMAIN blocks : OriginOf(blocks[i])' /\ \A t \in DOMAIN Tests : CleanOf(blocks[i], t)'
    BY <1>0, <1>8, <2>1 DEF OriginOf, InTest, CleanOf, Over
  <2> QED  BY <1>0, <2>3, <2>4 DEF LeakInv
<1>9. CASE at.kind = "teardown"
  <2>1. Tests[at.test].setup <=> check.test # NULL_CHECK
    BY <1>0, <1>9 DEF Points
  <2>2. /\ check'.test = check.test
        /\ IF Tests[at.test].setup THEN check'.func = check.test ELSE check'.func = last
    BY <1>2, <1>3, <1>5, <1>9, <2>1
  <2>3. check'.func \in Nat /\ check'.func <= made
    BY <1>0, <1>1, <2>1, <2>2 DEF Points
  <2>4. Points' /\ check' \in [test : Int, func : Nat]
    BY <1>0, <1>9, <2>1, <2>2, <2>3 DEF Points
  <2>5. \A i \in DOMAIN blocks : OriginOf(blocks[i])' /\ \A t \in DOMAIN Tests : CleanOf(blocks[i], t)'
    BY <1>0, <1>9, <2>2 DEF OriginOf, InTest, CleanOf, Over
  <2> QED  BY <1>0, <2>4, <2>5 DEF LeakInv
<1> QED  BY <1>4, <1>6, <1>7, <1>8, <1>9 DEF BeginFunction

(* The end of the group.                                                   *)
LEMMA FinishLeak ==
  ASSUME ReportInv, LeakInv, Finish
  PROVE  LeakInv'
<1>0. /\ at.kind = "finish" /\ blocks' = free_allocated_blocks(0)
      /\ UNCHANGED <<at, running, made, check, status, reused>>
      /\ made \in Nat /\ IsHeap(blocks, made) /\ InList(blocks, 0)
      /\ check \in [test : Int, func : Nat] /\ running \in BOOLEAN /\ Points
      /\ \A i \in DOMAIN blocks : OriginOf(blocks[i]) /\ \A t \in DOMAIN Tests : CleanOf(blocks[i], t)
  BY DEF Finish, LeakInv, InList, report
<1>1. IsHeap(blocks', made) /\ Within(blocks', blocks)
  BY <1>0, FreedIs
<1>3. running = FALSE
  BY <1>0 DEF Points
<1>4. Points'
  BY <1>0, <1>3 DEF Points
<1>5. ASSUME NEW i \in DOMAIN blocks'
      PROVE  OriginOf(blocks[i])' /\ \A t \in DOMAIN Tests : CleanOf(blocks[i], t)'
  <2>1. PICK j \in DOMAIN blocks : blocks'[i].id = blocks[j].id /\ blocks'[i].by = blocks[j].by
    BY <1>1 DEF Within
  <2> QED  BY <1>0, <2>1 DEF OriginOf, InTest, CleanOf, Over
<1> QED  BY <1>0, <1>1, <1>4, <1>5 DEF LeakInv

LEMMA LeakStep ==
  ASSUME ReportInv, LeakInv, [RunnerNext]_runnerVars
  PROVE  LeakInv'
<1>0. /\ made \in Nat /\ IsHeap(blocks, made) /\ Within(blocks, blocks) /\ skip \in BOOLEAN
      /\ check.func \in Nat
  BY DEF LeakInv, ReportInv, Within
<1>1. CASE UNCHANGED <<at, running, blocks, made, check, status, reused>>
  BY <1>1 DEF LeakInv, IsHeap, Points, OriginOf, CleanOf, InTest, Over
<1>2. CASE UNCHANGED runnerVars
  BY <1>1, <1>2 DEF runnerVars, report
<1>3. CASE expect_assert_failure \/ mock_assert
  BY <1>1, <1>3 DEF expect_assert_failure, mock_assert, report
<1>4. CASE BeginFunction
  BY <1>4, BeginLeak
<1>5. CASE NoFunction
  BY <1>5, NoFunctionLeak
<1>6. CASE Finish
  BY <1>6, FinishLeak
<1>7. CASE UseHeap
  BY <1>7, UseHeapLeak
<1>8. ASSUME NEW how \in {"bad", "skip"}, InFunction, EndFunction(-1, blocks, how)
      PROVE  LeakInv'
  <2> DEFINE skipped == skip \/ how = "skip"
  <2>1. /\ exit' = exit /\ running' = FALSE /\ Continue(-1, skipped) /\ skipped \in BOOLEAN
        /\ blocks' = blocks /\ made' = made /\ check' = check /\ reused' = reused
    BY <1>0, <1>8 DEF EndFunction
  <2>2. -1 # 0
    OBVIOUS
  <2> HIDE DEF skipped
  <2> QED  BY <1>0, <1>8, <2>1, <2>2, EndLeak
<1>9. CASE ExpectedAssertMissing
  BY <1>8, <1>9 DEF ExpectedAssertMissing
<1>10. CASE \E how \in {"bad", "skip"} : Abandon(how)
  BY <1>8, <1>10 DEF Abandon
<1>11. CASE ReturnAstray
  <2>1. CASE InFunction /\ EndFunction(-1, blocks, "bad")
    BY <1>8, <2>1
  <2>2. CASE UNCHANGED <<at, running, blocks, made, check, skip, expecting, report, reused>>
    BY <1>1, <2>2 DEF report
  <2> QED  BY <1>11, <2>1, <2>2 DEF ReturnAstray
<1>12. CASE \E userRc \in 0..1, leftover \in BOOLEAN : Return(userRc, leftover)
  <2> DEFINE asked == at.kind \notin {"setup", "group_setup"}
             leaked == asked /\ display_allocated_blocks(check.func) > 0
             skipped == skip \/ "bad" = "skip"
  <2>1. PICK userRc \in 0..1, leftover \in BOOLEAN :
          /\ InFunction /\ ~(asked /\ Dead(check.func))
          /\ IF leaked THEN EndFunction(-1, free_allocated_blocks(check.func), "bad")
             ELSE EndFunction(IF leftover THEN -1 ELSE userRc, blocks, "bad")
    BY <1>12 DEF Return
  <2>2. asked => InList(blocks, check.func)
    BY <1>0, <2>1 DEF Dead, InList
  <2>3. skipped \in BOOLEAN
    BY <1>0
  <2>4. CASE leaked
    <3>1. EndFunction(-1, free_allocated_blocks(check.func), "bad")
      BY <2>1, <2>4
    <3>2. /\ exit' = exit /\ running' = FALSE /\ Continue(-1, skipped)
          /\ blocks' = free_allocated_blocks(check.func) /\ made' = made /\ check' = check
          /\ reused' = reused
      BY <3>1 DEF EndFunction
    <3>3. IsHeap(blocks', made) /\ Within(blocks', blocks)
      BY <1>0, <2>2, <2>4, <3>2, FreedIs
    <3>4. -1 # 0
      OBVIOUS
    <3> HIDE DEF skipped, leaked, asked
    <3> QED  BY <2>1, <2>3, <3>2, <3>3, <3>4, EndLeak
  <2>5. CASE ~leaked
    <3> DEFINE rc == IF leftover THEN -1 ELSE userRc
    <3>1. EndFunction(rc, blocks, "bad")
      BY <2>1, <2>5
    <3>2. /\ exit' = exit /\ running' = FALSE /\ Continue(rc, skipped)
          /\ blocks' = blocks /\ made' = made /\ check' = check /\ reused' = reused
      BY <3>1 DEF EndFunction
    <3>3. at.kind \in {"test", "teardown"} => \A i \in DOMAIN blocks : blocks[i].id <= check.func
      BY <1>0, <2>2, <2>5, DisplayIs
    <3>4. IsHeap(blocks', made) /\ Within(blocks', blocks)
      BY <1>0, <3>2
    <3> HIDE DEF skipped, rc, leaked, asked
    <3> QED  BY <2>1, <2>3, <3>2, <3>3, <3>4, EndLeak
  <2> QED  BY <2>4, <2>5
<1> QED
  BY <1>2, <1>3, <1>4, <1>5, <1>6, <1>7, <1>9, <1>10, <1>11, <1>12 DEF RunnerNext

(* LeaksAreNoticed: for any group of tests, a test reported as passed has  *)
(* left no block of its function, nor of its fixtures when a teardown was  *)
(* there to look for it, unless it was given the memory of a check point   *)
(* it had freed (cmocka.c, cmocka_run_one_test_or_fixture).                *)
THEOREM LeaksSafe == RunnerSpec => []LeaksAreNoticed
<1>1. RunnerInit => ReportInv /\ LeakInv
  <2> SUFFICES ASSUME RunnerInit PROVE LeakInv
    BY ReportInit
  <2>1. blocks = <<>> /\ DOMAIN blocks = {} /\ Len(blocks) = 0
    BY DEF RunnerInit
  <2>2. IsHeap(blocks, made)
    BY <2>1 DEF IsHeap
  <2>3. Points
    BY DEF RunnerInit, Function, Points, NULL_CHECK
  <2>4. made \in Nat /\ running \in BOOLEAN /\ check \in [test : Int, func : Nat]
    <3>1. made = 0 /\ running = FALSE /\ check = [test |-> -1, func |-> 0]
      BY DEF RunnerInit, NULL_CHECK
    <3>2. made \in Nat /\ check \in [test : Int, func : Nat]
      BY <3>1
    <3>3. running \in BOOLEAN
      BY <3>1
    <3> QED  BY <3>2, <3>3
  <2> QED  BY <2>1, <2>2, <2>3, <2>4 DEF LeakInv
<1>2. ReportInv /\ LeakInv /\ [RunnerNext]_runnerVars => (ReportInv /\ LeakInv)'
  BY ReportStep, LeakStep
<1>3. ReportInv /\ LeakInv => LeaksAreNoticed
  BY DEF LeakInv, CleanOf, LeaksAreNoticed
<1> QED  BY <1>1, <1>2, <1>3, PTL DEF RunnerSpec
=============================================================================
