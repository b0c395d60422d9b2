----------------------------- MODULE ListProofs -----------------------------
(***************************************************************************)
(* The links of linux_list.h, of its lists and then of its hash chains,    *)
(* are the sequences the callers made, for every set of entries and heads. *)
(***************************************************************************)
EXTENDS LinuxList, LinuxHlist, SequenceTheorems, FiniteSetTheorems, WellFoundedInduction, TLAPS

(* The cells of a list's ring: its head at 0 and again behind the last     *)
(* entry.                                                                  *)
CellAt(h, s, i) == IF i \in 1 .. Len(s) THEN s[i] ELSE h

Mem == Cells \union {LIST_POISON1, LIST_POISON2}
Links == [Cells -> [next : Mem, prev : Mem]]

(* Each cell of the ring points at its neighbours.                         *)
Linked(m, h, s) ==
  \A i \in 0 .. Len(s) :
    /\ m[CellAt(h, s, i)].next = CellAt(h, s, i+1)
    /\ m[CellAt(h, s, i+1)].prev = CellAt(h, s, i)

(* An entry is on one list, once.                                          *)
Apart(l) ==
  \A h, g \in Heads : \A i \in 1 .. Len(l[h]) : \A j \in 1 .. Len(l[g]) :
    l[h][i] = l[g][j] => h = g /\ i = j

Once(s) == \A i, j \in 1 .. Len(s) : s[i] = s[j] => i = j

ListsOk(m, l, st) ==
  /\ m \in Links
  /\ l \in [Heads -> Seq(Entries)]
  /\ st \subseteq Heads
  /\ Apart(l)
  /\ \A h \in st : l[h] = <<>>
  /\ \A h \in Heads \ st : Linked(m, h, l[h])

Off(l, e) == \A h \in Heads : \A i \in 1 .. Len(l[h]) : l[h][i] # e

Directed(s, dir) == IF dir = "next" THEN s ELSE Reverse(s)

(* What a loop has still to visit is the rest of its list.                 *)
LoopInv ==
  iter # NoLoop =>
    LET d == Directed(lists[iter.head], iter.dir) IN
    /\ iter \in [head : Fresh, dir : {"next", "prev"}, pos : Mem, n : Mem, todo : Seq(Entries)]
    /\ Len(iter.todo) <= Len(d)
    /\ \A j \in 1 .. Len(iter.todo) : iter.todo[j] = d[Len(d) - Len(iter.todo) + j]
    /\ iter.pos = CellAt(iter.head, iter.todo, 1)
    /\ iter.todo # <<>> => iter.n = CellAt(iter.head, iter.todo, 2)

ListInv == ListsOk(links, lists, stale) /\ LoopInv
-----------------------------------------------------------------------------
(* Sequences: what concatenation, PutAt and RemoveAt return.               *)
LEMMA CatIs ==
  ASSUME NEW X, NEW s \in Seq(X), NEW t \in Seq(X)
  PROVE  /\ s \o t \in Seq(X)
         /\ Len(s \o t) = Len(s) + Len(t)
         /\ \A k \in 1 .. Len(s) : (s \o t)[k] = s[k]
         /\ \A k \in 1 .. Len(t) : (s \o t)[Len(s) + k] = t[k]
<1>1. /\ s \o t \in Seq(X) /\ Len(s \o t) = Len(s) + Len(t)
      /\ \A k \in 1 .. Len(s) + Len(t) :
           (s \o t)[k] = IF k <= Len(s) THEN s[k] ELSE t[k - Len(s)]
  BY ConcatProperties
<1>2. Len(s) \in Nat /\ Len(t) \in Nat
  OBVIOUS
<1>3. ASSUME NEW k \in 1 .. Len(t)
      PROVE  /\ Len(s) + k \in 1 .. Len(s) + Len(t)
             /\ ~(Len(s) + k <= Len(s)) /\ (Len(s) + k) - Len(s) = k
  BY <1>2
<1>4. \A k \in 1 .. Len(s) : k \in 1 .. Len(s) + Len(t) /\ k <= Len(s)
  BY <1>2
<1> QED  BY <1>1, <1>3, <1>4

LEMMA PutAtIs ==
  ASSUME NEW X, NEW s \in Seq(X), NEW t \in Seq(X), NEW i \in 0 .. Len(s)
  PROVE  LET r == PutAt(s, i, t) IN
         /\ r \in Seq(X)
         /\ Len(r) = Len(s) + Len(t)
         /\ \A k \in 1 .. i : r[k] = s[k]
         /\ \A k \in 1 .. Len(t) : r[i + k] = t[k]
         /\ \A k \in i+1 .. Len(s) : r[k + Len(t)] = s[k]
<1> DEFINE a == SubSeq(s, 1, i)  b == SubSeq(s, i+1, Len(s))  ab == a \o t
<1>1. a \in Seq(X) /\ Len(a) = i /\ \A k \in 1..i : a[k] = s[k]
  OBVIOUS
<1>2. b \in Seq(X) /\ Len(b) = Len(s) - i /\ \A k \in 1..Len(s) - i : b[k] = s[i + k]
  OBVIOUS
<1>a. a \in Seq(X)
  BY <1>1
<1>b. b \in Seq(X)
  BY <1>2
<1> HIDE DEF a, b
<1> DEFINE r == ab \o b
<1>3. /\ ab \in Seq(X) /\ Len(ab) = Len(a) + Len(t)
      /\ \A k \in 1..Len(a) : ab[k] = a[k]
      /\ \A k \in 1..Len(t) : ab[Len(a) + k] = t[k]
  BY <1>a, CatIs
<1>c. ab \in Seq(X)
  BY <1>3
<1> HIDE DEF ab
<1>4. /\ r \in Seq(X) /\ Len(r) = Len(ab) + Len(b)
      /\ \A k \in 1..Len(ab) : r[k] = ab[k]
      /\ \A k \in 1..Len(b) : r[Len(ab) + k] = b[k]
  BY ONLY <1>b, <1>c, CatIs
<1>5. PutAt(s, i, t) = r
  BY DEF PutAt, ab, a, b
<1> HIDE DEF r
<1>6. ASSUME NEW k \in i+1 .. Len(s) PROVE r[k + Len(t)] = s[k]
  <2> DEFINE j == k - i
  <2>1. j \in 1..Len(b) /\ Len(ab) + j = k + Len(t) /\ i + j = k
    BY <1>1, <1>2, <1>3
  <2>2. r[Len(ab) + j] = b[j]
    BY <2>1, <1>4
  <2>3. b[j] = s[i + j]
    BY <2>1, <1>2
  <2> QED  BY <2>1, <2>2, <2>3
<1>7. Len(r) = Len(s) + Len(t) /\ \A k \in 1..i : r[k] = s[k]
  BY <1>1, <1>2, <1>3, <1>4
<1>8. \A k \in 1..Len(t) : r[i + k] = t[k]
  BY <1>1, <1>3, <1>4
<1> QED  BY <1>4, <1>5, <1>6, <1>7, <1>8

PutOne(s, i, e) == PutAt(s, i, <<e>>)

LEMMA PutOneIs ==
  ASSUME NEW X, NEW s \in Seq(X), NEW e \in X, NEW i \in 0 .. Len(s)
  PROVE  LET r == PutOne(s, i, e) IN
         /\ r \in Seq(X)
         /\ Len(r) = Len(s) + 1
         /\ \A k \in 1 .. i : r[k] = s[k]
         /\ r[i + 1] = e
         /\ \A k \in i+1 .. Len(s) : r[k + 1] = s[k]
<1> DEFINE t == <<e>>  r == PutAt(s, i, t)
<1>1. t \in Seq(X) /\ Len(t) = 1 /\ t[1] = e
  OBVIOUS
<1>2. t \in Seq(X)
  BY <1>1
<1> HIDE DEF t
<1>3. /\ r \in Seq(X)
      /\ Len(r) = Len(s) + Len(t)
      /\ \A k \in 1 .. i : r[k] = s[k]
      /\ \A k \in 1 .. Len(t) : r[i + k] = t[k]
      /\ \A k \in i+1 .. Len(s) : r[k + Len(t)] = s[k]
  BY <1>2, PutAtIs
<1>4. r = PutOne(s, i, e)
  BY DEF t, PutOne
<1> HIDE DEF r
<1>5. r[i + 1] = e
  BY <1>1, <1>3
<1>6. Len(r) = Len(s) + 1 /\ \A k \in i+1 .. Len(s) : r[k + 1] = s[k]
  BY <1>1, <1>3
<1>7. r \in Seq(X) /\ \A k \in 1 .. i : r[k] = s[k]
  BY <1>3
<1> QED  BY ONLY <1>4, <1>5, <1>6, <1>7

LEMMA RemoveAtIs ==
  ASSUME NEW X, NEW s \in Seq(X), NEW i \in 1 .. Len(s)
  PROVE  LET r == RemoveAt(s, i) IN
         /\ r \in Seq(X)
         /\ Len(r) = Len(s) - 1
         /\ \A k \in 1 .. i-1 : r[k] = s[k]
         /\ \A k \in i .. Len(s)-1 : r[k] = s[k+1]
<1> DEFINE a == SubSeq(s, 1, i-1)  b == SubSeq(s, i+1, Len(s))
<1>1. a \in Seq(X) /\ Len(a) = i-1 /\ \A k \in 1..i-1 : a[k] = s[k]
  OBVIOUS
<1>2. b \in Seq(X) /\ Len(b) = Len(s) - i /\ \A k \in 1..Len(s) - i : b[k] = s[i + k]
  OBVIOUS
<1>a. a \in Seq(X)
  BY <1>1
<1>b. b \in Seq(X)
  BY <1>2
<1> HIDE DEF a, b
<1> DEFINE r == a \o b
<1>3. /\ r \in Seq(X) /\ Len(r) = Len(a) + Len(b)
      /\ \A k \in 1..Len(a) : r[k] = a[k]
      /\ \A k \in 1..Len(b) : r[Len(a) + k] = b[k]
  BY ONLY <1>a, <1>b, CatIs
<1>5. RemoveAt(s, i) = r
  BY DEF RemoveAt, a, b
<1> HIDE DEF r
<1>4. ASSUME NEW k \in i .. Len(s)-1 PROVE r[k] = s[k+1]
  <2> DEFINE j == k - i + 1
  <2>1. j \in 1..Len(b) /\ Len(a) + j = k /\ i + j = k + 1
    BY <1>1, <1>2
  <2>2. r[Len(a) + j] = b[j]
    BY <2>1, <1>3
  <2>3. b[j] = s[i + j]
    BY <2>1, <1>2
  <2> QED  BY <2>1, <2>2, <2>3
<1>6. Len(r) = Len(s) - 1 /\ \A k \in 1 .. i-1 : r[k] = s[k]
  BY <1>1, <1>2, <1>3
<1> QED  BY <1>3, <1>4, <1>5, <1>6

(* The cells of one ring are different, but for the head at both ends.     *)
LEMMA CellsDiffer ==
  ASSUME NEW h \in Heads, NEW s \in Seq(Entries), Once(s)
  PROVE  /\ \A i \in 0 .. Len(s) + 1 : CellAt(h, s, i) \in Cells
         /\ CellAt(h, s, 0) = h /\ CellAt(h, s, Len(s) + 1) = h
         /\ \A i \in 1 .. Len(s) : CellAt(h, s, i) = s[i] /\ s[i] \in Entries /\ s[i] # h
         /\ \A i, j \in 0 .. Len(s) : CellAt(h, s, i) = CellAt(h, s, j) => i = j
         /\ \A i, j \in 1 .. Len(s) + 1 : CellAt(h, s, i) = CellAt(h, s, j) => i = j
<1>1. \A i \in 1 .. Len(s) : s[i] \in Entries /\ s[i] # h
  BY ListAssumption
<1> QED  BY <1>1 DEF CellAt, Once, Cells

(* Memory that is the same on the cells of a ring has the same ring.       *)
LEMMA RingUntouched ==
  ASSUME NEW m, NEW m2, NEW h \in Heads, NEW s \in Seq(Entries),
         Linked(m, h, s),
         m2[h] = m[h], \A i \in 1 .. Len(s) : m2[s[i]] = m[s[i]]
  PROVE  Linked(m2, h, s)
<1>1. \A i \in 0 .. Len(s) + 1 : m2[CellAt(h, s, i)] = m[CellAt(h, s, i)]
  BY DEF CellAt
<1>2. ASSUME NEW i \in 0 .. Len(s)
      PROVE  i \in 0 .. Len(s) + 1 /\ i+1 \in 0 .. Len(s) + 1
  OBVIOUS
<1> QED  BY <1>1, <1>2 DEF Linked

LEMMA ApartOnce ==
  ASSUME NEW l, Apart(l), NEW h \in Heads
  PROVE  Once(l[h])
BY DEF Apart, Once
-----------------------------------------------------------------------------
(* One assignment to a pointer, and what those of list_add leave.          *)
SetNext(m, c, x) == [m EXCEPT ![c].next = x]
SetPrev(m, c, x) == [m EXCEPT ![c].prev = x]

LEMMA OneWrite ==
  ASSUME NEW m \in Links, NEW c \in Cells, NEW x \in Mem
  PROVE  /\ SetNext(m, c, x) \in Links /\ SetPrev(m, c, x) \in Links
         /\ \A d \in Cells :
              /\ SetNext(m, c, x)[d].next = IF d = c THEN x ELSE m[d].next
              /\ SetNext(m, c, x)[d].prev = m[d].prev
              /\ SetPrev(m, c, x)[d].prev = IF d = c THEN x ELSE m[d].prev
              /\ SetPrev(m, c, x)[d].next = m[d].next
              /\ d # c => SetNext(m, c, x)[d] = m[d] /\ SetPrev(m, c, x)[d] = m[d]
BY DEF SetNext, SetPrev, Links

LEMMA InsertWrites ==
  ASSUME NEW m \in Links, NEW e \in Cells, NEW a \in Cells, NEW b \in Cells,
         e # a, e # b
  PROVE  LET r == list_insert(m, e, a, b) IN
         /\ r \in Links
         /\ \A c \in Cells :
              /\ r[c].next = IF c = a THEN e ELSE IF c = e THEN b ELSE m[c].next
              /\ r[c].prev = IF c = b THEN e ELSE IF c = e THEN a ELSE m[c].prev
              /\ c \notin {a, b, e} => r[c] = m[c]
<1> DEFINE m1 == SetPrev(m, b, e)  m2 == SetNext(m1, e, b)
           m3 == SetPrev(m2, e, a)  m4 == SetNext(m3, a, e)
<1>1. list_insert(m, e, a, b) = m4
  BY DEF list_insert, SetNext, SetPrev
<1>2. a \in Mem /\ b \in Mem /\ e \in Mem
  BY DEF Mem
<1>3. m1 \in Links /\ m2 \in Links /\ m3 \in Links /\ m4 \in Links
  BY <1>2, OneWrite
<1> HIDE DEF m1, m2, m3, m4
<1>4. \A c \in Cells :
        /\ m1[c].next = m[c].next /\ m1[c].prev = IF c = b THEN e ELSE m[c].prev
        /\ c # b => m1[c] = m[c]
  BY <1>2, <1>3, OneWrite DEF m1
<1>5. \A c \in Cells :
        /\ m2[c].next = IF c = e THEN b ELSE m1[c].next
        /\ m2[c].prev = m1[c].prev
        /\ c # e => m2[c] = m1[c]
  BY <1>2, <1>3, OneWrite DEF m2
<1>6. \A c \in Cells :
        /\ m3[c].next = m2[c].next
        /\ m3[c].prev = IF c = e THEN a ELSE m2[c].prev
        /\ c # e => m3[c] = m2[c]
  BY <1>2, <1>3, OneWrite DEF m3
<1>7. \A c \in Cells :
        /\ m4[c].next = IF c = a THEN e ELSE m3[c].next
        /\ m4[c].prev = m3[c].prev
        /\ c # a => m4[c] = m3[c]
  BY <1>2, <1>3, OneWrite DEF m4
<1> QED  BY <1>1, <1>3, <1>4, <1>5, <1>6, <1>7

LEMMA InsertLinks ==
  ASSUME NEW m \in Links, NEW h \in Heads, NEW s \in Seq(Entries), Once(s),
         Linked(m, h, s),
         NEW e \in Entries, \A k \in 1 .. Len(s) : s[k] # e,
         NEW i \in 0 .. Len(s)
  PROVE  Linked(list_insert(m, e, CellAt(h, s, i), CellAt(h, s, i+1)), h, PutOne(s, i, e))
<1> DEFINE a == CellAt(h, s, i)  b == CellAt(h, s, i+1)
           r == list_insert(m, e, a, b)
           q == PutOne(s, i, e)
<1>1. a \in Cells /\ b \in Cells /\ e \in Cells /\ e # a /\ e # b
  BY CellsDiffer, ListAssumption DEF CellAt, Cells
<1>2. \A c \in Cells :
        /\ r[c].next = IF c = a THEN e ELSE IF c = e THEN b ELSE m[c].next
        /\ r[c].prev = IF c = b THEN e ELSE IF c = e THEN a ELSE m[c].prev
  BY <1>1, InsertWrites
<1>3. /\ q \in Seq(Entries) /\ Len(q) = Len(s) + 1
      /\ \A k \in 1 .. i : q[k] = s[k]
      /\ q[i + 1] = e
      /\ \A k \in i+1 .. Len(s) : q[k + 1] = s[k]
  <2>1. q \in Seq(Entries) /\ Len(q) = Len(s) + 1
    BY PutOneIs
  <2>2. \A k \in 1 .. i : q[k] = s[k]
    BY PutOneIs
  <2>3. q[i + 1] = e
    BY PutOneIs
  <2>4. \A k \in i+1 .. Len(s) : q[k + 1] = s[k]
    BY PutOneIs
  <2> HIDE DEF q
  <2> QED  BY <2>1, <2>2, <2>3, <2>4
<1> HIDE DEF r, q
<1>4. /\ \A k \in 0 .. i : CellAt(h, q, k) = CellAt(h, s, k)
      /\ CellAt(h, q, i+1) = e
      /\ \A k \in i+2 .. Len(s) + 2 : CellAt(h, q, k) = CellAt(h, s, k-1)
  <2>1. \A k \in i+2 .. Len(s) + 1 : q[k] = s[k-1]
    <3> TAKE k \in i+2 .. Len(s) + 1
    <3>1. k-1 \in i+1 .. Len(s) /\ (k-1) + 1 = k
      OBVIOUS
    <3> QED  BY <3>1, <1>3
  <2> QED  BY <1>3, <2>1 DEF CellAt
<1>6. /\ \A j \in 0 .. Len(s) + 1 : CellAt(h, s, j) \in Cells /\ CellAt(h, s, j) # e
      /\ \A j, k \in 0 .. Len(s) : CellAt(h, s, j) = CellAt(h, s, k) => j = k
      /\ \A j, k \in 1 .. Len(s) + 1 : CellAt(h, s, j) = CellAt(h, s, k) => j = k
  BY CellsDiffer, ListAssumption DEF CellAt
<1> HIDE DEF a, b
<1>7. ASSUME NEW k \in 0 .. Len(s)
      PROVE  /\ m[CellAt(h, s, k)].next = CellAt(h, s, k+1)
             /\ m[CellAt(h, s, k+1)].prev = CellAt(h, s, k)
             /\ k # i => /\ CellAt(h, s, k) \notin {a, e} /\ CellAt(h, s, k+1) \notin {b, e}
                         /\ r[CellAt(h, s, k)].next = CellAt(h, s, k+1)
                         /\ r[CellAt(h, s, k+1)].prev = CellAt(h, s, k)
  <2>1. /\ m[CellAt(h, s, k)].next = CellAt(h, s, k+1)
        /\ m[CellAt(h, s, k+1)].prev = CellAt(h, s, k)
    BY DEF Linked
  <2>2. k # i => CellAt(h, s, k) \notin {a, e} /\ CellAt(h, s, k+1) \notin {b, e}
    BY <1>6 DEF a, b
  <2>3. CellAt(h, s, k) \in Cells /\ CellAt(h, s, k+1) \in Cells
    BY <1>6
  <2> QED  BY <2>1, <2>2, <2>3, <1>2
<1>5. ASSUME NEW k \in 0 .. Len(q)
      PROVE  /\ r[CellAt(h, q, k)].next = CellAt(h, q, k+1)
             /\ r[CellAt(h, q, k+1)].prev = CellAt(h, q, k)
  <2>1. CASE k < i
    BY <2>1, <1>4, <1>7
  <2>2. CASE k = i
    BY <2>2, <1>2, <1>3, <1>4, <1>1 DEF a
  <2>3. CASE k = i + 1
    <3>1. CellAt(h, q, k+1) = b
      BY <2>3, <1>4 DEF b
    <3> QED  BY <2>3, <3>1, <1>2, <1>4, <1>1
  <2>4. CASE k > i + 1
    <3>1. /\ CellAt(h, q, k) = CellAt(h, s, k-1) /\ CellAt(h, q, k+1) = CellAt(h, s, (k-1)+1)
          /\ k-1 \in 0 .. Len(s) /\ k-1 # i
      BY <2>4, <1>3, <1>4
    <3> QED  BY <3>1, <1>7
  <2> QED  BY <2>1, <2>2, <2>3, <2>4, <1>3
<1> QED  BY <1>5 DEF Linked, r, q, a, b

(* The memory m with the lists l and the list g, and r that leaves g as is.*)
Untouched(m, l, r, g) ==
  r[g] = m[g] /\ \A k \in 1 .. Len(l[g]) : r[l[g][k]] = m[l[g][k]]

(* A list has been linked anew, or neither it nor its memory has changed.  *)
LEMMA ChangeOk ==
  ASSUME NEW m, NEW l, NEW st, ListsOk(m, l, st),
         NEW r \in Links, NEW l2 \in [Heads -> Seq(Entries)], NEW st2 \in SUBSET Heads,
         Apart(l2), \A g \in st2 : l2[g] = <<>>,
         \A g \in Heads \ st2 :
           \/ Linked(r, g, l2[g])
           \/ g \notin st /\ l2[g] = l[g] /\ Untouched(m, l, r, g)
  PROVE  ListsOk(r, l2, st2)
<1>1. ASSUME NEW g \in Heads \ st2, g \notin st /\ l2[g] = l[g] /\ Untouched(m, l, r, g)
      PROVE  Linked(r, g, l2[g])
  <2>1. Linked(m, g, l[g]) /\ l[g] \in Seq(Entries) /\ l2[g] = l[g]
    BY <1>1 DEF ListsOk
  <2>2. r[g] = m[g] /\ \A k \in 1 .. Len(l[g]) : r[l[g][k]] = m[l[g][k]]
    BY <1>1 DEF Untouched
  <2>3. Linked(r, g, l[g])
    BY <2>1, <2>2, RingUntouched
  <2> QED  BY <2>1, <2>3
<1> QED  BY <1>1 DEF ListsOk

(* One list gets entries it had, or that no list had.                      *)
LEMMA ApartOne ==
  ASSUME NEW l \in [Heads -> Seq(Entries)], Apart(l), NEW h \in Heads,
         NEW q \in Seq(Entries), Once(q),
         \A k \in 1 .. Len(q) : Off(l, q[k]) \/ \E j \in 1 .. Len(l[h]) : q[k] = l[h][j]
  PROVE  Apart([l EXCEPT ![h] = q])
<1> DEFINE l2 == [l EXCEPT ![h] = q]
<1>1. l2[h] = q /\ \A g \in Heads \ {h} : l2[g] = l[g]
  OBVIOUS
<1> HIDE DEF l2
<1>2. ASSUME NEW g \in Heads \ {h}, NEW k \in 1 .. Len(q), NEW j \in 1 .. Len(l[g])
      PROVE  q[k] # l[g][j]
  <2>1. CASE Off(l, q[k])
    BY <2>1 DEF Off
  <2>2. CASE \E i \in 1 .. Len(l[h]) : q[k] = l[h][i]
    <3>1. PICK i \in 1 .. Len(l[h]) : q[k] = l[h][i]
      BY <2>2
    <3>2. l[h][i] # l[g][j]
      BY DEF Apart
    <3> QED  BY <3>1, <3>2
  <2> QED  BY <2>1, <2>2
<1>3. ASSUME NEW f \in Heads, NEW g \in Heads,
             NEW k \in 1 .. Len(l2[f]), NEW j \in 1 .. Len(l2[g]), l2[f][k] = l2[g][j]
      PROVE  f = g /\ k = j
  <2>1. CASE f = h /\ g = h
    BY <2>1, <1>1, <1>3 DEF Once
  <2>2. CASE f = h /\ g # h
    BY <2>2, <1>1, <1>2, <1>3
  <2>3. CASE f # h /\ g = h
    BY <2>3, <1>1, <1>2, <1>3
  <2>4. CASE f # h /\ g # h
    <3>1. k \in 1 .. Len(l[f]) /\ j \in 1 .. Len(l[g]) /\ l[f][k] = l[g][j]
      BY <2>4, <1>1, <1>3
    <3> QED  BY <3>1 DEF Apart
  <2> QED  BY <2>1, <2>2, <2>3, <2>4
<1> QED  BY <1>3 DEF Apart, l2

(* A cell of one ring is in no other.                                      *)
LEMMA RingsApart ==
  ASSUME NEW m, NEW l, NEW st, ListsOk(m, l, st),
         NEW h \in Heads, NEW g \in Heads, g # h, NEW i \in Int
  PROVE  /\ CellAt(h, l[h], i) # g
         /\ \A k \in 1 .. Len(l[g]) : CellAt(h, l[h], i) # l[g][k]
<1>1. l[h] \in Seq(Entries) /\ l[g] \in Seq(Entries)
  BY DEF ListsOk
<1>2. /\ \A j \in 1 .. Len(l[h]) : l[h][j] \in Entries
      /\ \A j \in 1 .. Len(l[g]) : l[g][j] \in Entries
  BY <1>1
<1>3. \A j \in 1 .. Len(l[h]), k \in 1 .. Len(l[g]) : l[h][j] # l[g][k]
  BY DEF ListsOk, Apart
<1> QED  BY <1>2, <1>3, ListAssumption DEF CellAt

LEMMA InsertOk ==
  ASSUME NEW m, NEW l, NEW st, ListsOk(m, l, st),
         NEW h \in Heads \ st, NEW e \in Entries, Off(l, e), NEW i \in 0 .. Len(l[h])
  PROVE  ListsOk(list_insert(m, e, CellAt(h, l[h], i), CellAt(h, l[h], i+1)),
                 [l EXCEPT ![h] = PutOne(l[h], i, e)], st)
<1> DEFINE s == l[h]  a == CellAt(h, s, i)  b == CellAt(h, s, i+1)
           r == list_insert(m, e, a, b)  q == PutOne(s, i, e)
           l2 == [l EXCEPT ![h] = q]
<1>1. /\ m \in Links /\ l \in [Heads -> Seq(Entries)] /\ st \subseteq Heads /\ Apart(l)
      /\ s \in Seq(Entries) /\ Once(s) /\ Linked(m, h, s)
      /\ \A k \in 1 .. Len(s) : s[k] # e
  BY ApartOnce DEF ListsOk, Off
<1>2. Linked(r, h, q)
  BY <1>1, InsertLinks
<1>3. a \in Cells /\ b \in Cells /\ e \in Cells /\ e # a /\ e # b
  BY <1>1, CellsDiffer, ListAssumption DEF CellAt, Cells
<1>4. r \in Links /\ \A c \in Cells : c \notin {a, b, e} => r[c] = m[c]
  BY <1>1, <1>3, InsertWrites
<1>5. /\ q \in Seq(Entries) /\ Len(q) = Len(s) + 1
      /\ \A k \in 1 .. i : q[k] = s[k]
      /\ q[i + 1] = e
      /\ \A k \in i+1 .. Len(s) : q[k + 1] = s[k]
  <2>1. q \in Seq(Entries) /\ Len(q) = Len(s) + 1
    BY <1>1, PutOneIs
  <2>2. \A k \in 1 .. i : q[k] = s[k]
    BY <1>1, PutOneIs
  <2>3. q[i + 1] = e
    BY <1>1, PutOneIs
  <2>4. \A k \in i+1 .. Len(s) : q[k + 1] = s[k]
    BY <1>1, PutOneIs
  <2> HIDE DEF q
  <2> QED  BY <2>1, <2>2, <2>3, <2>4
<1> HIDE DEF q, r, a, b
<1>6. \A k \in i+2 .. Len(s) + 1 : k - 1 \in i+1 .. Len(s) /\ q[k] = s[k-1]
  BY <1>5
<1>7. Once(q)
  <2> DEFINE o(k) == IF k <= i THEN k ELSE k-1
  <2>1. ASSUME NEW k \in 1 .. Len(q), k # i+1
        PROVE  o(k) \in 1 .. Len(s) /\ q[k] = s[o(k)] /\ q[k] # e
    BY <2>1, <1>1, <1>5, <1>6
  <2>2. ASSUME NEW k \in 1 .. Len(q), NEW j \in 1 .. Len(q), q[k] = q[j] PROVE k = j
    <3>1. CASE k # i+1 /\ j # i+1
      <4>1. o(k) = o(j)
        BY <3>1, <2>1, <2>2, <1>1 DEF Once
      <4> QED  BY <3>1, <4>1, <1>5
    <3>2. CASE k = i+1 \/ j = i+1
      BY <3>2, <2>1, <2>2, <1>5
    <3> QED  BY <3>1, <3>2
  <2> QED  BY <2>2 DEF Once
<1>8. Apart(l2)
  <2>1. \A k \in 1 .. Len(q) : Off(l, q[k]) \/ \E j \in 1 .. Len(l[h]) : q[k] = l[h][j]
    <3> TAKE k \in 1 .. Len(q)
    <3>1. CASE k = i + 1
      BY <3>1, <1>5
    <3>2. CASE k <= i
      BY <3>2, <1>5
    <3>3. CASE k > i + 1
      BY <3>3, <1>5, <1>6
    <3> QED  BY <3>1, <3>2, <3>3, <1>5
  <2> QED  BY <1>1, <1>5, <1>7, <2>1, ApartOne
<1>9. ASSUME NEW g \in Heads \ {h}
      PROVE  Untouched(m, l, r, g)
  <2>1. /\ a # g /\ b # g
        /\ \A k \in 1 .. Len(l[g]) : a # l[g][k] /\ b # l[g][k]
    BY RingsApart DEF a, b
  <2>2. e # g /\ \A k \in 1 .. Len(l[g]) : e # l[g][k]
    BY ListAssumption DEF Off
  <2>3. g \in Cells /\ \A k \in 1 .. Len(l[g]) : l[g][k] \in Cells
    BY <1>1 DEF Cells
  <2> QED  BY <2>1, <2>2, <2>3, <1>4 DEF Untouched
<1>10. l2 \in [Heads -> Seq(Entries)] /\ l2[h] = q /\ \A g \in Heads \ {h} : l2[g] = l[g]
  BY <1>1, <1>5
<1>11. \A g \in st : l2[g] = <<>>
  BY <1>10 DEF ListsOk
<1> HIDE DEF l2
<1>12. ListsOk(r, l2, st)
  <2>1. \A g \in Heads \ st :
          \/ Linked(r, g, l2[g])
          \/ g \notin st /\ l2[g] = l[g] /\ Untouched(m, l, r, g)
    BY <1>2, <1>9, <1>10
  <2> QED  BY <1>1, <1>4, <1>8, <1>10, <1>11, <2>1, ChangeOk
<1> QED  BY <1>12 DEF r, l2, q, a, b
-----------------------------------------------------------------------------
(* What list_del and list_move take out of the ring.                       *)
LEMMA UnlinkWrites ==
  ASSUME NEW m \in Links, NEW e, NEW a \in Cells, NEW b \in Cells,
         m[e].prev = a, m[e].next = b
  PROVE  LET r == list_del_entry(m, e) IN
         /\ r \in Links
         /\ \A c \in Cells :
              /\ r[c].next = IF c = a THEN b ELSE m[c].next
              /\ r[c].prev = IF c = b THEN a ELSE m[c].prev
              /\ c \notin {a, b} => r[c] = m[c]
<1> DEFINE m1 == SetPrev(m, b, a)  m2 == SetNext(m1, a, b)
<1>1. list_del_entry(m, e) = m2
  BY DEF list_del_entry, SetNext, SetPrev
<1>2. a \in Mem /\ b \in Mem
  BY DEF Mem
<1>3. m1 \in Links /\ m2 \in Links
  BY <1>2, OneWrite
<1> HIDE DEF m1, m2
<1>4. \A c \in Cells :
        /\ m1[c].next = m[c].next /\ m1[c].prev = IF c = b THEN a ELSE m[c].prev
        /\ c # b => m1[c] = m[c]
  BY <1>2, <1>3, OneWrite DEF m1
<1>5. \A c \in Cells :
        /\ m2[c].next = IF c = a THEN b ELSE m1[c].next
        /\ m2[c].prev = m1[c].prev
        /\ c # a => m2[c] = m1[c]
  BY <1>2, <1>3, OneWrite DEF m2
<1> QED  BY <1>1, <1>3, <1>4, <1>5

(* The cells of a ring without its i-th entry.                             *)
LEMMA RemoveCells ==
  ASSUME NEW h \in Heads, NEW s \in Seq(Entries), NEW i \in 1 .. Len(s),
         NEW q, q = RemoveAt(s, i)
  PROVE  /\ q \in Seq(Entries) /\ Len(q) = Len(s) - 1
         /\ \A k \in 0 .. i-1 : CellAt(h, q, k) = CellAt(h, s, k)
         /\ \A k \in i .. Len(s) : CellAt(h, q, k) = CellAt(h, s, k+1)
<1>1. q \in Seq(Entries) /\ Len(q) = Len(s) - 1
  BY RemoveAtIs
<1>2. \A k \in 1 .. i-1 : q[k] = s[k]
  BY RemoveAtIs
<1>3. \A k \in i .. Len(s)-1 : q[k] = s[k+1]
  BY RemoveAtIs
<1>4. \A k \in 0 .. i-1 : CellAt(h, q, k) = CellAt(h, s, k)
  BY <1>1, <1>2 DEF CellAt
<1>5. \A k \in i .. Len(s) : CellAt(h, q, k) = CellAt(h, s, k+1)
  BY <1>1, <1>3 DEF CellAt
<1> QED  BY <1>1, <1>4, <1>5

LEMMA RemoveOk ==
  ASSUME NEW m, NEW l, NEW st, ListsOk(m, l, st),
         NEW h \in Heads \ st, NEW i \in 1 .. Len(l[h])
  PROVE  ListsOk(list_del_entry(m, l[h][i]), [l EXCEPT ![h] = RemoveAt(l[h], i)], st)
<1> DEFINE s == l[h]  e == s[i]  a == CellAt(h, s, i-1)  b == CellAt(h, s, i+1)
           r == list_del_entry(m, e)  q == RemoveAt(s, i)
           l2 == [l EXCEPT ![h] = q]
<1>1. /\ m \in Links /\ l \in [Heads -> Seq(Entries)] /\ st \subseteq Heads /\ Apart(l)
      /\ s \in Seq(Entries) /\ Once(s) /\ Linked(m, h, s)
  BY ApartOnce DEF ListsOk
<1>2. /\ \A j \in 0 .. Len(s) + 1 : CellAt(h, s, j) \in Cells
      /\ \A j, k \in 0 .. Len(s) : CellAt(h, s, j) = CellAt(h, s, k) => j = k
      /\ \A j, k \in 1 .. Len(s) + 1 : CellAt(h, s, j) = CellAt(h, s, k) => j = k
      /\ CellAt(h, s, i) = e
  BY <1>1, CellsDiffer
<1>3. a \in Cells /\ b \in Cells /\ m[e].prev = a /\ m[e].next = b
  <2>1. i-1 \in 0 .. Len(s) /\ (i-1)+1 = i /\ i-1 \in 0 .. Len(s)+1 /\ i+1 \in 0 .. Len(s)+1
    BY <1>1
  <2> QED  BY <1>1, <1>2, <2>1 DEF Linked
<1>4. /\ r \in Links
      /\ \A c \in Cells :
           /\ r[c].next = IF c = a THEN b ELSE m[c].next
           /\ r[c].prev = IF c = b THEN a ELSE m[c].prev
           /\ c \notin {a, b} => r[c] = m[c]
  BY <1>1, <1>3, UnlinkWrites
<1>5. /\ q \in Seq(Entries) /\ Len(q) = Len(s) - 1
      /\ \A k \in 0 .. i-1 : CellAt(h, q, k) = CellAt(h, s, k)
      /\ \A k \in i .. Len(s) : CellAt(h, q, k) = CellAt(h, s, k+1)
  <2>1. q \in Seq(Entries) /\ Len(q) = Len(s) - 1
    BY <1>1, RemoveCells
  <2>2. \A k \in 0 .. i-1 : CellAt(h, q, k) = CellAt(h, s, k)
    BY <1>1, RemoveCells
  <2>3. \A k \in i .. Len(s) : CellAt(h, q, k) = CellAt(h, s, k+1)
    BY <1>1, RemoveCells
  <2> QED  BY <2>1, <2>2, <2>3
<1> HIDE DEF r, q, e
<1>6. ASSUME NEW k \in 0 .. Len(s), k # i-1, k # i
      PROVE  /\ r[CellAt(h, s, k)].next = CellAt(h, s, k+1)
             /\ r[CellAt(h, s, k+1)].prev = CellAt(h, s, k)
  <2>1. /\ m[CellAt(h, s, k)].next = CellAt(h, s, k+1)
        /\ m[CellAt(h, s, k+1)].prev = CellAt(h, s, k)
    BY <1>1 DEF Linked
  <2>2. CellAt(h, s, k) # a /\ CellAt(h, s, k+1) # b
    BY <1>2, <1>6, <1>1
  <2>3. CellAt(h, s, k) \in Cells /\ CellAt(h, s, k+1) \in Cells
    BY <1>2, <1>1
  <2> QED  BY <2>1, <2>2, <2>3, <1>4
<1>7. Linked(r, h, q)
  <2>1. ASSUME NEW k \in 0 .. Len(q)
        PROVE  /\ r[CellAt(h, q, k)].next = CellAt(h, q, k+1)
               /\ r[CellAt(h, q, k+1)].prev = CellAt(h, q, k)
    <3>1. CASE k < i-1
      BY <3>1, <1>5, <1>6, <1>1
    <3>2. CASE k = i-1
      <4>1. CellAt(h, q, k) = a /\ CellAt(h, q, k+1) = b
        BY <3>2, <1>5, <1>1
      <4> QED  BY <4>1, <1>3, <1>4
    <3>3. CASE k >= i
      <4>1. /\ CellAt(h, q, k) = CellAt(h, s, k+1) /\ CellAt(h, q, k+1) = CellAt(h, s, (k+1)+1)
            /\ k+1 \in 0 .. Len(s) /\ k+1 # i-1 /\ k+1 # i
        BY <3>3, <1>5, <1>1
      <4> QED  BY <4>1, <1>6
    <3> QED  BY <3>1, <3>2, <3>3, <1>1
  <2> QED  BY <2>1 DEF Linked
<1> DEFINE o(k) == IF k < i THEN k ELSE k+1
<1>8. ASSUME NEW k \in 1 .. Len(q)
      PROVE  o(k) \in 1 .. Len(s) /\ q[k] = s[o(k)]
  <2>1. q[k] = CellAt(h, q, k)
    BY DEF CellAt
  <2>2. CellAt(h, q, k) = CellAt(h, s, o(k)) /\ o(k) \in 1 .. Len(s)
    BY <1>1, <1>5
  <2> QED  BY <2>1, <2>2 DEF CellAt
<1>9. Once(q)
  <2>1. ASSUME NEW k \in 1 .. Len(q), NEW j \in 1 .. Len(q), q[k] = q[j] PROVE k = j
    <3>1. o(k) = o(j)
      BY <2>1, <1>8, <1>1 DEF Once
    <3> QED  BY <3>1, <1>5
  <2> QED  BY <2>1 DEF Once
<1>10. Apart(l2)
  <2>1. \A k \in 1 .. Len(q) : Off(l, q[k]) \/ \E j \in 1 .. Len(l[h]) : q[k] = l[h][j]
    BY <1>8
  <2> QED  BY <1>1, <1>5, <1>9, <2>1, ApartOne
<1>11. ASSUME NEW g \in Heads \ {h}
       PROVE  Untouched(m, l, r, g)
  <2>1. /\ a # g /\ b # g
        /\ \A k \in 1 .. Len(l[g]) : a # l[g][k] /\ b # l[g][k]
    BY RingsApart
  <2>2. g \in Cells /\ \A k \in 1 .. Len(l[g]) : l[g][k] \in Cells
    BY <1>1 DEF Cells
  <2> QED  BY <2>1, <2>2, <1>4 DEF Untouched
<1>12. l2 \in [Heads -> Seq(Entries)] /\ l2[h] = q /\ \A g \in Heads \ {h} : l2[g] = l[g]
  BY <1>1, <1>5
<1>13. \A g \in st : l2[g] = <<>>
  BY <1>12 DEF ListsOk
<1> HIDE DEF l2
<1>14. ListsOk(r, l2, st)
  <2>1. \A g \in Heads \ st :
          \/ Linked(r, g, l2[g])
          \/ g \notin st /\ l2[g] = l[g] /\ Untouched(m, l, r, g)
    BY <1>7, <1>11, <1>12
  <2> QED  BY <1>1, <1>4, <1>10, <1>12, <1>13, <2>1, ChangeOk
<1> QED  BY <1>14 DEF r, l2, q, e

(* An entry off the lists may hold anything, as may a stale head.          *)
LEMMA OffOk ==
  ASSUME NEW m, NEW l, NEW st, ListsOk(m, l, st),
         NEW e \in Entries, Off(l, e), NEW v \in [next : Mem, prev : Mem]
  PROVE  ListsOk([m EXCEPT ![e] = v], l, st)
<1> DEFINE r == [m EXCEPT ![e] = v]
<1>1. /\ m \in Links /\ l \in [Heads -> Seq(Entries)] /\ st \subseteq Heads /\ Apart(l)
      /\ \A g \in st : l[g] = <<>>
  BY DEF ListsOk
<1>2. r \in Links /\ \A c \in Cells : c # e => r[c] = m[c]
  BY <1>1 DEF Links, Cells
<1> HIDE DEF r
<1>3. ASSUME NEW g \in Heads PROVE Untouched(m, l, r, g)
  <2>1. e # g /\ \A k \in 1 .. Len(l[g]) : e # l[g][k]
    BY ListAssumption DEF Off
  <2>2. g \in Cells /\ \A k \in 1 .. Len(l[g]) : l[g][k] \in Cells
    BY <1>1 DEF Cells
  <2> QED  BY <2>1, <2>2, <1>2 DEF Untouched
<1>4. \A g \in Heads \ st :
        \/ Linked(r, g, l[g])
        \/ g \notin st /\ l[g] = l[g] /\ Untouched(m, l, r, g)
  BY <1>3
<1>5. ListsOk(r, l, st)
  BY <1>1, <1>2, <1>4, ChangeOk
<1> QED  BY <1>5 DEF r

LEMMA InitHeadOk ==
  ASSUME NEW m, NEW l, NEW st, ListsOk(m, l, st), NEW h \in Heads, l[h] = <<>>
  PROVE  ListsOk(INIT_LIST_HEAD(m, h), l, st \ {h})
<1> DEFINE r == INIT_LIST_HEAD(m, h)  st2 == st \ {h}
<1>1. /\ m \in Links /\ l \in [Heads -> Seq(Entries)] /\ st \subseteq Heads /\ Apart(l)
      /\ \A g \in st : l[g] = <<>>
  BY DEF ListsOk
<1>2. /\ r \in Links /\ \A c \in Cells : c # h => r[c] = m[c]
      /\ r[h].next = h /\ r[h].prev = h
  BY <1>1 DEF Links, Cells, Mem, INIT_LIST_HEAD
<1> HIDE DEF r
<1>3. ASSUME NEW g \in Heads \ {h} PROVE Untouched(m, l, r, g)
  <2>1. g \in Cells /\ \A k \in 1 .. Len(l[g]) : l[g][k] \in Entries
    BY <1>1 DEF Cells
  <2> QED  BY <2>1, <1>2, ListAssumption DEF Untouched, Cells
<1>4. Linked(r, h, l[h])
  <2>1. Len(l[h]) = 0
    OBVIOUS
  <2>2. ASSUME NEW k \in 0 .. Len(l[h])
        PROVE  /\ r[CellAt(h, l[h], k)].next = CellAt(h, l[h], k+1)
               /\ r[CellAt(h, l[h], k+1)].prev = CellAt(h, l[h], k)
    <3>1. CellAt(h, l[h], k) = h /\ CellAt(h, l[h], k+1) = h
      BY <2>1 DEF CellAt
    <3> QED  BY <3>1, <1>2
  <2> QED  BY <2>2 DEF Linked
<1>5. \A g \in Heads \ st2 :
        \/ Linked(r, g, l[g])
        \/ g \notin st /\ l[g] = l[g] /\ Untouched(m, l, r, g)
  BY <1>3, <1>4
<1>6. st2 \in SUBSET Heads /\ \A g \in st2 : l[g] = <<>>
  BY <1>1
<1> HIDE DEF st2
<1>7. ListsOk(r, l, st2)
  BY <1>1, <1>2, <1>5, <1>6, ChangeOk
<1> QED  BY <1>7 DEF r, st2
-----------------------------------------------------------------------------
(* list_replace puts a cell in the place of one between a and b.           *)
LEMMA ReplaceWrites ==
  ASSUME NEW m \in Links, NEW old \in Cells, NEW e \in Cells, NEW a \in Cells, NEW b \in Cells,
         m[old].prev = a, m[old].next = b, old # b, e # a, e # b, e # old
  PROVE  LET r == list_replace(m, old, e) IN
         /\ r \in Links
         /\ \A c \in Cells :
              /\ r[c].next = IF c = a THEN e ELSE IF c = e THEN b ELSE m[c].next
              /\ r[c].prev = IF c = b THEN e ELSE IF c = e THEN a ELSE m[c].prev
              /\ c \notin {a, b, e} => r[c] = m[c]
<1> DEFINE m1 == SetNext(m, e, b)  m2 == SetPrev(m1, b, e)
           m3 == SetPrev(m2, e, a)  m4 == SetNext(m3, a, e)
<1>2. a \in Mem /\ b \in Mem /\ e \in Mem
  BY DEF Mem
<1>3. m1 \in Links /\ m2 \in Links /\ m3 \in Links /\ m4 \in Links
  BY <1>2, OneWrite
<1>4. \A c \in Cells :
        /\ m1[c].next = (IF c = e THEN b ELSE m[c].next) /\ m1[c].prev = m[c].prev
        /\ c # e => m1[c] = m[c]
  BY <1>2, <1>3, OneWrite
<1>5. \A c \in Cells :
        /\ m2[c].next = m1[c].next
        /\ m2[c].prev = IF c = b THEN e ELSE m1[c].prev
        /\ c # b => m2[c] = m1[c]
  <2> HIDE DEF m1
  <2> QED  BY <1>2, <1>3, OneWrite
<1>1. list_replace(m, old, e) = m4
  <2> DEFINE w == [m EXCEPT ![e].next = m[old].next, ![m[old].next].prev = e]
  <2>1. w = m2
    BY DEF SetNext, SetPrev
  <2>2. m2[old].prev = a
    BY <1>4, <1>5
  <2>3. list_replace(m, old, e) = [w EXCEPT ![e].prev = w[old].prev, ![w[old].prev].next = e]
    BY DEF list_replace
  <2> HIDE DEF w, m2
  <2>4. list_replace(m, old, e) = [m2 EXCEPT ![e].prev = a, ![a].next = e]
    BY <2>1, <2>2, <2>3
  <2> QED  BY <2>4 DEF SetNext, SetPrev
<1> HIDE DEF m1, m2, m3, m4
<1>6. \A c \in Cells :
        /\ m3[c].next = m2[c].next
        /\ m3[c].prev = IF c = e THEN a ELSE m2[c].prev
        /\ c # e => m3[c] = m2[c]
  BY <1>2, <1>3, OneWrite DEF m3
<1>7. \A c \in Cells :
        /\ m4[c].next = IF c = a THEN e ELSE m3[c].next
        /\ m4[c].prev = m3[c].prev
        /\ c # a => m4[c] = m3[c]
  BY <1>2, <1>3, OneWrite DEF m4
<1> QED  BY <1>1, <1>3, <1>4, <1>5, <1>6, <1>7

Replaced(s, old, e) == [k \in DOMAIN s |-> IF s[k] = old THEN e ELSE s[k]]

LEMMA ReplaceOk ==
  ASSUME NEW m, NEW l, NEW st, ListsOk(m, l, st),
         NEW h \in Heads \ st, NEW i \in 1 .. Len(l[h]), NEW e \in Entries, Off(l, e)
  PROVE  ListsOk(list_replace(m, l[h][i], e), [l EXCEPT ![h] = Replaced(l[h], l[h][i], e)], st)
<1> DEFINE s == l[h]  old == s[i]  a == CellAt(h, s, i-1)  b == CellAt(h, s, i+1)
           r == list_replace(m, old, e)  q == Replaced(s, old, e)
           l2 == [l EXCEPT ![h] = q]
<1>1. /\ m \in Links /\ l \in [Heads -> Seq(Entries)] /\ st \subseteq Heads /\ Apart(l)
      /\ s \in Seq(Entries) /\ Once(s) /\ Linked(m, h, s)
      /\ \A k \in 1 .. Len(s) : s[k] # e
  BY ApartOnce DEF ListsOk, Off
<1>2. /\ \A j \in 0 .. Len(s) + 1 : CellAt(h, s, j) \in Cells
      /\ \A j, k \in 0 .. Len(s) : CellAt(h, s, j) = CellAt(h, s, k) => j = k
      /\ \A j, k \in 1 .. Len(s) + 1 : CellAt(h, s, j) = CellAt(h, s, k) => j = k
      /\ CellAt(h, s, i) = old
  BY <1>1, CellsDiffer
<1>a. \A j \in 0 .. Len(s) + 1 : CellAt(h, s, j) # e
  BY <1>1, ListAssumption DEF CellAt
<1>3. a \in Cells /\ b \in Cells /\ m[old].prev = a /\ m[old].next = b /\ e # a /\ e # b
      /\ old \in Cells /\ old # b /\ e # old /\ e \in Cells
  <2>1. i-1 \in 0 .. Len(s) /\ (i-1)+1 = i /\ i-1 \in 0 .. Len(s)+1 /\ i+1 \in 0 .. Len(s)+1
    BY <1>1
  <2>2. old # b
    BY <1>1, <1>2
  <2> QED  BY <1>1, <1>2, <1>a, <2>1, <2>2 DEF Linked, Cells
<1>4. /\ r \in Links
      /\ \A c \in Cells :
           /\ r[c].next = IF c = a THEN e ELSE IF c = e THEN b ELSE m[c].next
           /\ r[c].prev = IF c = b THEN e ELSE IF c = e THEN a ELSE m[c].prev
           /\ c \notin {a, b, e} => r[c] = m[c]
  <2> HIDE DEF a, b, old
  <2> QED  BY <1>1, <1>3, ReplaceWrites
<1>5. /\ q \in Seq(Entries) /\ Len(q) = Len(s)
      /\ \A k \in 1 .. Len(s) : q[k] = IF k = i THEN e ELSE s[k]
  BY <1>1 DEF Replaced, Once
<1>6. \A k \in 0 .. Len(s) + 1 : CellAt(h, q, k) = IF k = i THEN e ELSE CellAt(h, s, k)
  BY <1>1, <1>5 DEF CellAt
<1> HIDE DEF r, q, old
<1>7. Linked(r, h, q)
  <2>1. ASSUME NEW k \in 0 .. Len(q)
        PROVE  /\ r[CellAt(h, q, k)].next = CellAt(h, q, k+1)
               /\ r[CellAt(h, q, k+1)].prev = CellAt(h, q, k)
    <3>0. k \in 0 .. Len(s) /\ k \in 0 .. Len(s) + 1 /\ k+1 \in 0 .. Len(s) + 1
      BY <1>5
    <3>1. CASE k = i-1
      <4>1. CellAt(h, q, k) = a /\ CellAt(h, q, k+1) = e
        BY <3>0, <3>1, <1>6
      <4> QED  BY <4>1, <1>3, <1>4
    <3>2. CASE k = i
      <4>1. CellAt(h, q, k) = e /\ CellAt(h, q, k+1) = b
        BY <3>0, <3>2, <1>6
      <4> QED  BY <4>1, <1>3, <1>4
    <3>3. CASE k # i-1 /\ k # i
      <4>1. CellAt(h, q, k) = CellAt(h, s, k) /\ CellAt(h, q, k+1) = CellAt(h, s, k+1)
        BY <3>0, <3>3, <1>6
      <4>2. /\ m[CellAt(h, s, k)].next = CellAt(h, s, k+1)
            /\ m[CellAt(h, s, k+1)].prev = CellAt(h, s, k)
        BY <3>0, <1>1 DEF Linked
      <4>3. CellAt(h, s, k) # a /\ CellAt(h, s, k+1) # b
        BY <3>0, <3>3, <1>2, <1>1
      <4>4. CellAt(h, s, k) # e /\ CellAt(h, s, k+1) # e
        BY <3>0, <1>a
      <4>5. CellAt(h, s, k) \in Cells /\ CellAt(h, s, k+1) \in Cells
        BY <3>0, <1>2
      <4> QED  BY <4>1, <4>2, <4>3, <4>4, <4>5, <1>4
    <3> QED  BY <3>1, <3>2, <3>3
  <2> QED  BY <2>1 DEF Linked
<1>9. Once(q)
  BY <1>1, <1>5 DEF Once
<1>10. Apart(l2)
  <2>1. \A k \in 1 .. Len(q) : Off(l, q[k]) \/ \E j \in 1 .. Len(l[h]) : q[k] = l[h][j]
    BY <1>5
  <2> QED  BY <1>1, <1>5, <1>9, <2>1, ApartOne
<1>11. ASSUME NEW g \in Heads \ {h}
       PROVE  Untouched(m, l, r, g)
  <2>1. /\ a # g /\ b # g
        /\ \A k \in 1 .. Len(l[g]) : a # l[g][k] /\ b # l[g][k]
    BY RingsApart
  <2>2. g \in Cells /\ \A k \in 1 .. Len(l[g]) : l[g][k] \in Cells
    BY <1>1 DEF Cells
  <2>3. e # g /\ \A k \in 1 .. Len(l[g]) : e # l[g][k]
    BY ListAssumption DEF Off
  <2> QED  BY <2>1, <2>2, <2>3, <1>4 DEF Untouched
<1>12. l2 \in [Heads -> Seq(Entries)] /\ l2[h] = q /\ \A g \in Heads \ {h} : l2[g] = l[g]
  BY <1>1, <1>5
<1>13. \A g \in st : l2[g] = <<>>
  BY <1>12 DEF ListsOk
<1> HIDE DEF l2
<1>14. ListsOk(r, l2, st)
  <2>1. \A g \in Heads \ st :
          \/ Linked(r, g, l2[g])
          \/ g \notin st /\ l2[g] = l[g] /\ Untouched(m, l, r, g)
    BY <1>7, <1>11, <1>12
  <2> QED  BY <1>1, <1>4, <1>10, <1>12, <1>13, <2>1, ChangeOk
<1> QED  BY <1>14 DEF r, l2, q, old

(* A head that takes over the ring of another.                             *)
LEMMA SwapOk ==
  ASSUME NEW m, NEW l, NEW st, ListsOk(m, l, st),
         NEW old \in Heads \ st, NEW e \in Heads \ st, old # e, l[e] = <<>>
  PROVE  ListsOk(list_replace_init(m, old, e), [l EXCEPT ![e] = l[old], ![old] = <<>>], st)
<1> DEFINE s == l[old]  r == list_replace(m, old, e)
           l2 == [l EXCEPT ![e] = s, ![old] = <<>>]
           a == CellAt(old, s, Len(s))  b == CellAt(old, s, 1)
<1>1. /\ m \in Links /\ l \in [Heads -> Seq(Entries)] /\ st \subseteq Heads /\ Apart(l)
      /\ s \in Seq(Entries) /\ Once(s) /\ Linked(m, old, s)
      /\ \A g \in st : l[g] = <<>>
  BY ApartOnce DEF ListsOk
<1>2. /\ \A j \in 0 .. Len(s) + 1 : CellAt(old, s, j) \in Cells
      /\ \A j, k \in 0 .. Len(s) : CellAt(old, s, j) = CellAt(old, s, k) => j = k
      /\ \A j, k \in 1 .. Len(s) + 1 : CellAt(old, s, j) = CellAt(old, s, k) => j = k
      /\ CellAt(old, s, 0) = old /\ CellAt(old, s, Len(s)+1) = old
  BY <1>1, CellsDiffer
<1>3. l2 \in [Heads -> Seq(Entries)] /\ l2[e] = s /\ l2[old] = <<>>
      /\ \A g \in Heads \ {old, e} : l2[g] = l[g]
  BY <1>1
<1>4. /\ m[old].next = b /\ m[old].prev = a
      /\ old \in Cells /\ e \in Cells /\ a \in Cells /\ b \in Cells
  <2>1. 0 \in 0 .. Len(s) /\ Len(s) \in 0 .. Len(s) /\ 0+1 = 1
        /\ 1 \in 0 .. Len(s)+1 /\ Len(s) \in 0 .. Len(s)+1
    BY <1>1
  <2> QED  BY <2>1, <1>1, <1>2 DEF Linked, Cells
<1>5. e # a /\ e # b /\ \A j \in 0 .. Len(s) + 1 : CellAt(old, s, j) # e
  BY <1>1, RingsApart
<1>6. /\ r \in Links
      /\ Linked(r, e, s)
      /\ \A g \in Heads \ {old, e} : Untouched(m, l, r, g)
  <2>1. CASE s = <<>>
    <3>1. a = old /\ b = old
      BY <2>1 DEF CellAt
    <3> DEFINE m1 == [m EXCEPT ![e].next = m[old].next, ![m[old].next].prev = e]
    <3>a. m1 = [m EXCEPT ![e].next = old, ![old].prev = e]
      BY <1>4, <3>1
    <3>b. m1[old].prev = e
      BY <3>a, <1>1, <1>4 DEF Links
    <3>c. r = [m1 EXCEPT ![e].prev = m1[old].prev, ![m1[old].prev].next = e]
      BY DEF list_replace
    <3>d. m1 \in Links /\ \A c \in Cells \ {old, e} : m1[c] = m[c]
      <4> DEFINE m0 == SetNext(m, e, old)
      <4>1. old \in Mem /\ e \in Mem
        BY <1>4 DEF Mem
      <4>2. m0 \in Links /\ \A c \in Cells \ {e} : m0[c] = m[c]
        BY <4>1, <1>1, <1>4, OneWrite
      <4>3. m1 = SetPrev(m0, old, e)
        BY <3>a DEF SetNext, SetPrev
      <4> HIDE DEF m0, m1
      <4>4. m0 \in Links
        BY <4>2
      <4>5. SetPrev(m0, old, e) \in Links
            /\ \A c \in Cells : c # old => SetPrev(m0, old, e)[c] = m0[c]
        BY <4>1, <4>4, <1>4, OneWrite
      <4> QED  BY <4>2, <4>3, <4>5
    <3> HIDE DEF m1, r
    <3>2. r \in Links /\ r[e].next = e /\ r[e].prev = e
      BY <3>b, <3>c, <3>d, <1>4 DEF Links, Mem
    <3>3. \A c \in Cells \ {old, e} : r[c] = m[c]
      BY <3>b, <3>c, <3>d, <1>4 DEF Links, Mem
    <3>4. Linked(r, e, s)
      BY <2>1, <3>2 DEF Linked, CellAt
    <3>5. ASSUME NEW g \in Heads \ {old, e} PROVE Untouched(m, l, r, g)
      <4>1. g \in Cells /\ \A k \in 1 .. Len(l[g]) : l[g][k] \in Cells \ {old, e}
        BY <1>1, ListAssumption DEF Cells
      <4> QED  BY <4>1, <3>3 DEF Untouched
    <3> QED  BY <3>2, <3>4, <3>5
  <2>2. CASE s # <<>>
    <3>0. Len(s) >= 1
      BY <2>2, <1>1
    <3>1. b # old
      BY <3>0, <1>2, <1>1
    <3>2. /\ r \in Links
          /\ \A c \in Cells :
               /\ r[c].next = IF c = a THEN e ELSE IF c = e THEN b ELSE m[c].next
               /\ r[c].prev = IF c = b THEN e ELSE IF c = e THEN a ELSE m[c].prev
               /\ c \notin {a, b, e} => r[c] = m[c]
      <4> HIDE DEF a, b
      <4> QED  BY <1>1, <1>4, <1>5, <3>1, ReplaceWrites
    <3> HIDE DEF r
    <3>3. \A k \in 1 .. Len(s) : CellAt(e, s, k) = CellAt(old, s, k)
      BY <1>1 DEF CellAt
    <3>4. CellAt(e, s, 0) = e /\ CellAt(e, s, Len(s)+1) = e
      BY <1>1 DEF CellAt
    <3>5. ASSUME NEW k \in 0 .. Len(s)
          PROVE  /\ r[CellAt(e, s, k)].next = CellAt(e, s, k+1)
                 /\ r[CellAt(e, s, k+1)].prev = CellAt(e, s, k)
      <4>1. CASE k = 0
        <5>1. CellAt(e, s, k) = e /\ CellAt(e, s, k+1) = b /\ e # a
          BY <4>1, <3>0, <3>3, <3>4, <1>5
        <5> QED  BY <5>1, <3>2, <1>4
      <4>2. CASE k = Len(s)
        <5>1. CellAt(e, s, k) = a /\ CellAt(e, s, k+1) = e /\ e # b
          BY <4>2, <3>0, <3>3, <3>4, <1>5
        <5> QED  BY <5>1, <3>2, <1>4
      <4>3. CASE k # 0 /\ k # Len(s)
        <5>1. CellAt(e, s, k) = CellAt(old, s, k) /\ CellAt(e, s, k+1) = CellAt(old, s, k+1)
          BY <4>3, <3>3, <1>1
        <5>2. /\ m[CellAt(old, s, k)].next = CellAt(old, s, k+1)
              /\ m[CellAt(old, s, k+1)].prev = CellAt(old, s, k)
          BY <1>1 DEF Linked
        <5>3. CellAt(old, s, k) # a /\ CellAt(old, s, k+1) # b
          BY <4>3, <1>1, <1>2
        <5>4. CellAt(old, s, k) # e /\ CellAt(old, s, k+1) # e
              /\ CellAt(old, s, k) \in Cells /\ CellAt(old, s, k+1) \in Cells
          BY <1>2, <1>5, <1>1
        <5> QED  BY <5>1, <5>2, <5>3, <5>4, <3>2
      <4> QED  BY <4>1, <4>2, <4>3
    <3>6. ASSUME NEW g \in Heads \ {old, e} PROVE Untouched(m, l, r, g)
      <4>1. g \in Cells /\ \A k \in 1 .. Len(l[g]) : l[g][k] \in Cells /\ l[g][k] # e
        BY <1>1, ListAssumption DEF Cells
      <4>2. a # g /\ b # g /\ \A k \in 1 .. Len(l[g]) : a # l[g][k] /\ b # l[g][k]
        BY <1>1, RingsApart
      <4> QED  BY <4>1, <4>2, <3>2 DEF Untouched
    <3>7. Linked(r, e, s)
      BY <3>5 DEF Linked
    <3> QED  BY <3>2, <3>6, <3>7
  <2> QED  BY <2>1, <2>2
<1>7. Apart(l2)
  <2>1. ASSUME NEW f \in Heads, NEW g \in Heads,
               NEW k \in 1 .. Len(l2[f]), NEW j \in 1 .. Len(l2[g]), l2[f][k] = l2[g][j]
        PROVE  f = g /\ k = j
    <3> DEFINE o(x) == IF x = e THEN old ELSE x
    <3>1. f # old /\ g # old
      BY <1>3
    <3>2. l2[f] = l[o(f)] /\ l2[g] = l[o(g)]
      BY <3>1, <1>3
    <3> DEFINE f1 == o(f)  g1 == o(g)
    <3>3. f1 \in Heads /\ g1 \in Heads /\ l2[f] = l[f1] /\ l2[g] = l[g1]
      BY <3>2
    <3> HIDE DEF l2, f1, g1
    <3>5. k \in 1 .. Len(l[f1]) /\ j \in 1 .. Len(l[g1]) /\ l[f1][k] = l[g1][j]
      BY <2>1, <3>3
    <3>6. f1 = g1 /\ k = j
      BY <3>3, <3>5, <1>1 DEF Apart
    <3>4. o(f) = o(g) /\ k = j
      BY <3>6 DEF f1, g1
    <3> QED  BY <3>1, <3>4
  <2> QED  BY <2>1 DEF Apart
<1> HIDE DEF r, l2
<1>8. ListsOk(r, l2, st \union {old})
  <2> DEFINE st2 == st \union {old}
  <2>1. \A g \in Heads \ st2 :
          \/ Linked(r, g, l2[g])
          \/ g \notin st /\ l2[g] = l[g] /\ Untouched(m, l, r, g)
    BY <1>3, <1>6
  <2>2. st2 \in SUBSET Heads /\ \A g \in st2 : l2[g] = <<>>
    BY <1>1, <1>3
  <2> HIDE DEF st2
  <2>3. ListsOk(r, l2, st2)
    BY <1>1, <1>3, <1>6, <1>7, <2>1, <2>2, ChangeOk
  <2> QED  BY <2>3 DEF st2
<1>9. ListsOk(INIT_LIST_HEAD(r, old), l2, (st \union {old}) \ {old})
  BY <1>3, <1>8, InitHeadOk
<1>10. (st \union {old}) \ {old} = st
  OBVIOUS
<1> QED  BY <1>9, <1>10 DEF list_replace_init, r, l2
-----------------------------------------------------------------------------
(* list_cut_position moves the first n entries to a list that was empty.   *)
LEMMA CutWrites ==
  ASSUME NEW m \in Links, NEW list \in Cells, NEW head \in Cells, NEW entry \in Cells,
         NEW f \in Cells, NEW g \in Cells,
         m[head].next = f, m[entry].next = g,
         list # head, list # entry, head # entry, list # f, list # g, f # g
  PROVE  LET r == list_cut(m, list, head, entry) IN
         /\ r \in Links
         /\ \A c \in Cells :
              /\ r[c].next = IF c = list THEN f ELSE IF c = entry THEN list
                             ELSE IF c = head THEN g ELSE m[c].next
              /\ r[c].prev = IF c = f THEN list ELSE IF c = list THEN entry
                             ELSE IF c = g THEN head ELSE m[c].prev
              /\ c \notin {list, head, entry, f, g} => r[c] = m[c]
<1> DEFINE m1 == SetNext(m, list, f)  m2 == SetPrev(m1, f, list)
           m3 == SetPrev(m2, list, entry)  m4 == SetNext(m3, entry, list)
           m5 == SetNext(m4, head, g)  m6 == SetPrev(m5, g, head)
<1>1. list_cut(m, list, head, entry) = m6
  BY DEF list_cut, SetNext, SetPrev
<1>2. list \in Mem /\ head \in Mem /\ entry \in Mem /\ f \in Mem /\ g \in Mem
  BY DEF Mem
<1> HIDE DEF m1, m2, m3, m4, m5, m6
<1>3. /\ m1 \in Links
      /\ \A c \in Cells :
           /\ m1[c].next = (IF c = list THEN f ELSE m[c].next) /\ m1[c].prev = m[c].prev
           /\ c # list => m1[c] = m[c]
  BY <1>2, OneWrite DEF m1
<1>4. /\ m2 \in Links
      /\ \A c \in Cells :
           /\ m2[c].next = m1[c].next /\ m2[c].prev = IF c = f THEN list ELSE m1[c].prev
           /\ c # f => m2[c] = m1[c]
  BY <1>2, <1>3, OneWrite DEF m2
<1>5. /\ m3 \in Links
      /\ \A c \in Cells :
           /\ m3[c].next = m2[c].next /\ m3[c].prev = IF c = list THEN entry ELSE m2[c].prev
           /\ c # list => m3[c] = m2[c]
  BY <1>2, <1>4, OneWrite DEF m3
<1>6. /\ m4 \in Links
      /\ \A c \in Cells :
           /\ m4[c].next = (IF c = entry THEN list ELSE m3[c].next) /\ m4[c].prev = m3[c].prev
           /\ c # entry => m4[c] = m3[c]
  BY <1>2, <1>5, OneWrite DEF m4
<1>7. /\ m5 \in Links
      /\ \A c \in Cells :
           /\ m5[c].next = (IF c = head THEN g ELSE m4[c].next) /\ m5[c].prev = m4[c].prev
           /\ c # head => m5[c] = m4[c]
  BY <1>2, <1>6, OneWrite DEF m5
<1>8. /\ m6 \in Links
      /\ \A c \in Cells :
           /\ m6[c].next = m5[c].next /\ m6[c].prev = IF c = g THEN head ELSE m5[c].prev
           /\ c # g => m6[c] = m5[c]
  BY <1>2, <1>7, OneWrite DEF m6
<1> QED  BY <1>1, <1>3, <1>4, <1>5, <1>6, <1>7, <1>8

LEMMA CutOk ==
  ASSUME NEW m, NEW l, NEW st, ListsOk(m, l, st),
         NEW h \in Heads \ st, NEW d \in Heads \ st, d # h, l[d] = <<>>,
         NEW n \in 1 .. Len(l[h])
  PROVE  ListsOk(list_cut(m, d, h, l[h][n]),
                 [l EXCEPT ![d] = SubSeq(l[h], 1, n), ![h] = SubSeq(l[h], n+1, Len(l[h]))], st)
<1> DEFINE s == l[h]  entry == s[n]  f == CellAt(h, s, 1)  g == CellAt(h, s, n+1)
           t == SubSeq(s, 1, n)  u == SubSeq(s, n+1, Len(s))
           r == list_cut(m, d, h, entry)
           l2 == [l EXCEPT ![d] = t, ![h] = u]
<1>1. /\ m \in Links /\ l \in [Heads -> Seq(Entries)] /\ st \subseteq Heads /\ Apart(l)
      /\ s \in Seq(Entries) /\ Once(s) /\ Linked(m, h, s)
      /\ \A x \in st : l[x] = <<>>
  BY ApartOnce DEF ListsOk
<1>2. /\ \A j \in 0 .. Len(s) + 1 : CellAt(h, s, j) \in Cells
      /\ \A j, k \in 0 .. Len(s) : CellAt(h, s, j) = CellAt(h, s, k) => j = k
      /\ \A j, k \in 1 .. Len(s) + 1 : CellAt(h, s, j) = CellAt(h, s, k) => j = k
      /\ CellAt(h, s, 0) = h /\ CellAt(h, s, Len(s) + 1) = h
      /\ CellAt(h, s, n) = entry
  BY <1>1, CellsDiffer
<1>a. \A j \in Int : CellAt(h, s, j) # d
  BY RingsApart
<1>3. t \in Seq(Entries) /\ Len(t) = n /\ \A k \in 1 .. n : t[k] = s[k]
  BY <1>1
<1>4. u \in Seq(Entries) /\ Len(u) = Len(s) - n /\ \A k \in 1 .. Len(s) - n : u[k] = s[n + k]
  BY <1>1
<1>5. l2 \in [Heads -> Seq(Entries)] /\ l2[d] = t /\ l2[h] = u
      /\ \A x \in Heads \ {d, h} : l2[x] = l[x]
  BY <1>1, <1>3, <1>4
<1> HIDE DEF t, u, l2
<1>6. /\ d \in Cells /\ h \in Cells /\ entry \in Cells /\ f \in Cells /\ g \in Cells
      /\ m[h].next = f /\ m[entry].next = g
      /\ d # h /\ d # entry /\ h # entry /\ d # f /\ d # g /\ f # g
  <2>1. /\ 0 \in 0 .. Len(s) /\ n \in 0 .. Len(s) /\ 0 + 1 = 1 /\ 1 \in 0 .. Len(s)+1
        /\ n+1 \in 0 .. Len(s)+1 /\ n \in 0 .. Len(s)+1 /\ 1 # n+1 /\ 0 # n
        /\ 1 \in 1 .. Len(s)+1 /\ n+1 \in 1 .. Len(s)+1
    BY <1>1
  <2>2. m[h].next = f /\ m[entry].next = g
    BY <2>1, <1>1, <1>2 DEF Linked
  <2>3. f # g /\ h # entry
    BY <2>1, <1>2
  <2>4. d # entry /\ d # f /\ d # g
    BY <2>1, <1>2, <1>a
  <2>5. d \in Cells /\ h \in Cells /\ entry \in Cells /\ f \in Cells /\ g \in Cells
    BY <2>1, <1>2 DEF Cells
  <2> QED  BY <2>2, <2>3, <2>4, <2>5
<1> HIDE DEF f, g, entry
<1>7. /\ r \in Links
      /\ \A c \in Cells :
           /\ r[c].next = IF c = d THEN f ELSE IF c = entry THEN d
                          ELSE IF c = h THEN g ELSE m[c].next
           /\ r[c].prev = IF c = f THEN d ELSE IF c = d THEN entry
                          ELSE IF c = g THEN h ELSE m[c].prev
           /\ c \notin {d, h, entry, f, g} => r[c] = m[c]
  BY <1>1, <1>6, CutWrites
<1> HIDE DEF r
<1>8. ASSUME NEW k \in 1 .. Len(s), k # n
      PROVE  /\ r[CellAt(h, s, k)].next = CellAt(h, s, k+1)
             /\ r[CellAt(h, s, k+1)].prev = CellAt(h, s, k)
  <2>0. k \in 0 .. Len(s) /\ k \in 0 .. Len(s)+1 /\ k+1 \in 0 .. Len(s)+1
    BY <1>1
  <2>1. /\ m[CellAt(h, s, k)].next = CellAt(h, s, k+1)
        /\ m[CellAt(h, s, k+1)].prev = CellAt(h, s, k)
    BY <1>1, <2>0 DEF Linked
  <2>2. CellAt(h, s, k) # entry /\ CellAt(h, s, k+1) # f /\ CellAt(h, s, k+1) # g
        /\ CellAt(h, s, k) # h
    BY <1>8, <1>1, <1>2 DEF f, g
  <2>3. CellAt(h, s, k) \in Cells /\ CellAt(h, s, k+1) \in Cells
        /\ CellAt(h, s, k) # d /\ CellAt(h, s, k+1) # d
    BY <2>0, <1>2, <1>a
  <2> QED  BY <2>1, <2>2, <2>3, <1>7
<1>9. Linked(r, d, t)
  <2>1. \A k \in 1 .. n : CellAt(d, t, k) = CellAt(h, s, k)
    BY <1>1, <1>3 DEF CellAt
  <2>2. CellAt(d, t, 0) = d /\ CellAt(d, t, n+1) = d
    BY <1>3 DEF CellAt
  <2>3. ASSUME NEW k \in 0 .. n
        PROVE  /\ r[CellAt(d, t, k)].next = CellAt(d, t, k+1)
               /\ r[CellAt(d, t, k+1)].prev = CellAt(d, t, k)
    <3>1. CASE k = 0
      <4>1. CellAt(d, t, k) = d /\ CellAt(d, t, k+1) = f
        BY <3>1, <2>1, <2>2 DEF f
      <4> QED  BY <4>1, <1>6, <1>7
    <3>2. CASE k = n
      <4>1. CellAt(d, t, k) = entry /\ CellAt(d, t, k+1) = d
        BY <3>2, <2>1, <2>2, <1>2
      <4> QED  BY <4>1, <1>6, <1>7
    <3>3. CASE k # 0 /\ k # n
      <4>1. /\ CellAt(d, t, k) = CellAt(h, s, k) /\ CellAt(d, t, k+1) = CellAt(h, s, k+1)
            /\ k \in 1 .. Len(s)
        BY <3>3, <2>1, <1>1
      <4> QED  BY <3>3, <4>1, <1>8
    <3> QED  BY <3>1, <3>2, <3>3
  <2> QED  BY <2>3, <1>3 DEF Linked
<1>10. Linked(r, h, u)
  <2>1. \A k \in 1 .. Len(u) + 1 : CellAt(h, u, k) = CellAt(h, s, n + k)
    BY <1>1, <1>4 DEF CellAt
  <2>2. CellAt(h, u, 0) = h
    BY DEF CellAt
  <2>3. ASSUME NEW k \in 0 .. Len(u)
        PROVE  /\ r[CellAt(h, u, k)].next = CellAt(h, u, k+1)
               /\ r[CellAt(h, u, k+1)].prev = CellAt(h, u, k)
    <3>1. CASE k = 0
      <4>1. CellAt(h, u, k) = h /\ CellAt(h, u, k+1) = g
        BY <3>1, <2>1, <2>2, <1>4 DEF g
      <4> QED  BY <4>1, <1>6, <1>7
    <3>2. CASE k # 0
      <4>1. /\ CellAt(h, u, k) = CellAt(h, s, n + k) /\ CellAt(h, u, k+1) = CellAt(h, s, (n + k) + 1)
            /\ n + k \in 1 .. Len(s) /\ n + k # n
        BY <3>2, <2>1, <1>4, <1>1
      <4> QED  BY <4>1, <1>8
    <3> QED  BY <3>1, <3>2
  <2> QED  BY <2>3 DEF Linked
<1>11. Apart(l2)
  <2> DEFINE oh(x) == IF x = d THEN h ELSE x
             ok(x, k) == IF x = h THEN n + k ELSE k
  <2>1. ASSUME NEW x \in Heads, NEW k \in 1 .. Len(l2[x])
        PROVE  /\ oh(x) \in Heads /\ ok(x, k) \in 1 .. Len(l[oh(x)])
               /\ l2[x][k] = l[oh(x)][ok(x, k)]
    <3>1. CASE x = d
      BY <3>1, <1>1, <1>3, <1>5
    <3>2. CASE x = h
      BY <3>2, <1>1, <1>4, <1>5
    <3>3. CASE x # d /\ x # h
      BY <3>3, <1>5
    <3> QED  BY <3>1, <3>2, <3>3
  <2>2. ASSUME NEW x \in Heads, NEW y \in Heads,
               NEW k \in 1 .. Len(l2[x]), NEW j \in 1 .. Len(l2[y]), l2[x][k] = l2[y][j]
        PROVE  x = y /\ k = j
    <3> DEFINE x1 == oh(x)  y1 == oh(y)  k1 == ok(x, k)  j1 == ok(y, j)
    <3>1. /\ x1 \in Heads /\ k1 \in 1 .. Len(l[x1]) /\ y1 \in Heads /\ j1 \in 1 .. Len(l[y1])
          /\ l[x1][k1] = l[y1][j1]
      BY <2>1, <2>2
    <3> HIDE DEF x1, y1, k1, j1
    <3>2. x1 = y1 /\ k1 = j1
      BY <3>1, <1>1 DEF Apart
    <3>3. (x = d => k <= n) /\ (y = d => j <= n)
      BY <1>3, <1>5
    <3> QED  BY <3>2, <3>3 DEF x1, y1, k1, j1
  <2> QED  BY <2>2 DEF Apart
<1>12. ASSUME NEW x \in Heads \ {d, h} PROVE Untouched(m, l, r, x)
  <2>1. x \in Cells /\ \A k \in 1 .. Len(l[x]) : l[x][k] \in Cells /\ l[x][k] # d /\ l[x][k] # h
    BY <1>1, ListAssumption DEF Cells
  <2>2. /\ f # x /\ g # x /\ entry # x
        /\ \A k \in 1 .. Len(l[x]) : f # l[x][k] /\ g # l[x][k] /\ entry # l[x][k]
    <3>1. entry = CellAt(h, s, n)
      BY <1>2
    <3> QED  BY <3>1, RingsApart DEF f, g
  <2> QED  BY <2>1, <2>2, <1>7 DEF Untouched
<1>13. \A x \in st : l2[x] = <<>>
  BY <1>1, <1>5
<1>14. \A x \in Heads \ st :
         \/ Linked(r, x, l2[x])
         \/ x \notin st /\ l2[x] = l[x] /\ Untouched(m, l, r, x)
  BY <1>5, <1>9, <1>10, <1>12
<1>15. ListsOk(r, l2, st)
  BY <1>1, <1>5, <1>7, <1>11, <1>13, <1>14, ChangeOk
<1> QED  BY <1>15 DEF r, l2, t, u, entry
-----------------------------------------------------------------------------
(* The splices put the entries of a list between two neighbours.           *)
LEMMA JoinWrites ==
  ASSUME NEW m \in Links, NEW list \in Cells, NEW a \in Cells, NEW b \in Cells,
         NEW f \in Cells, NEW z \in Cells,
         m[list].next = f, m[list].prev = z, f # b, z # a
  PROVE  LET r == list_join(m, list, a, b) IN
         /\ r \in Links
         /\ \A c \in Cells :
              /\ r[c].next = IF c = a THEN f ELSE IF c = z THEN b ELSE m[c].next
              /\ r[c].prev = IF c = f THEN a ELSE IF c = b THEN z ELSE m[c].prev
              /\ c \notin {a, b, f, z} => r[c] = m[c]
<1> DEFINE m1 == SetPrev(m, f, a)  m2 == SetNext(m1, a, f)
           m3 == SetNext(m2, z, b)  m4 == SetPrev(m3, b, z)
<1>1. list_join(m, list, a, b) = m4
  BY DEF list_join, SetNext, SetPrev
<1>2. a \in Mem /\ b \in Mem /\ f \in Mem /\ z \in Mem
  BY DEF Mem
<1> HIDE DEF m1, m2, m3, m4
<1>3. /\ m1 \in Links
      /\ \A c \in Cells :
           /\ m1[c].next = m[c].next /\ m1[c].prev = (IF c = f THEN a ELSE m[c].prev)
           /\ c # f => m1[c] = m[c]
  BY <1>2, OneWrite DEF m1
<1>4. /\ m2 \in Links
      /\ \A c \in Cells :
           /\ m2[c].next = (IF c = a THEN f ELSE m1[c].next) /\ m2[c].prev = m1[c].prev
           /\ c # a => m2[c] = m1[c]
  BY <1>2, <1>3, OneWrite DEF m2
<1>5. /\ m3 \in Links
      /\ \A c \in Cells :
           /\ m3[c].next = (IF c = z THEN b ELSE m2[c].next) /\ m3[c].prev = m2[c].prev
           /\ c # z => m3[c] = m2[c]
  BY <1>2, <1>4, OneWrite DEF m3
<1>6. /\ m4 \in Links
      /\ \A c \in Cells :
           /\ m4[c].next = m3[c].next /\ m4[c].prev = (IF c = b THEN z ELSE m3[c].prev)
           /\ c # b => m4[c] = m3[c]
  BY <1>2, <1>5, OneWrite DEF m4
<1> QED  BY <1>1, <1>3, <1>4, <1>5, <1>6

(* The cells of a ring with t put behind its first i entries.              *)
LEMMA PutCells ==
  ASSUME NEW h \in Heads, NEW s \in Seq(Entries), NEW t \in Seq(Entries),
         NEW i \in 0 .. Len(s), NEW q, q = PutAt(s, i, t)
  PROVE  /\ q \in Seq(Entries) /\ Len(q) = Len(s) + Len(t)
         /\ \A k \in 0 .. i : CellAt(h, q, k) = CellAt(h, s, k)
         /\ \A k \in 1 .. Len(t) : CellAt(h, q, i + k) = t[k]
         /\ \A k \in i+1 .. Len(s) + 1 : CellAt(h, q, k + Len(t)) = CellAt(h, s, k)
<1> DEFINE r == PutAt(s, i, t)
<1>0. /\ r \in Seq(Entries)
      /\ Len(r) = Len(s) + Len(t)
      /\ \A k \in 1 .. i : r[k] = s[k]
      /\ \A k \in 1 .. Len(t) : r[i + k] = t[k]
      /\ \A k \in i+1 .. Len(s) : r[k + Len(t)] = s[k]
  BY PutAtIs
<1> HIDE DEF r
<1>a. q = r
  BY DEF r
<1>1. q \in Seq(Entries) /\ Len(q) = Len(s) + Len(t)
  BY <1>0, <1>a
<1>2. \A k \in 1 .. i : q[k] = s[k]
  BY <1>0, <1>a
<1>3. \A k \in 1 .. Len(t) : q[i + k] = t[k]
  BY <1>0, <1>a
<1>4. \A k \in i+1 .. Len(s) : q[k + Len(t)] = s[k]
  BY <1>0, <1>a
<1>5. \A k \in 0 .. i : CellAt(h, q, k) = CellAt(h, s, k)
  BY <1>1, <1>2 DEF CellAt
<1>6. \A k \in 1 .. Len(t) : CellAt(h, q, i + k) = t[k]
  BY <1>1, <1>3 DEF CellAt
<1>7. \A k \in i+1 .. Len(s) + 1 : CellAt(h, q, k + Len(t)) = CellAt(h, s, k)
  BY <1>1, <1>4 DEF CellAt
<1> QED  BY <1>1, <1>5, <1>6, <1>7

LEMMA JoinOk ==
  ASSUME NEW m, NEW l, NEW st, ListsOk(m, l, st),
         NEW h \in Heads \ st, NEW d \in Heads \ st, d # h, l[d] # <<>>,
         NEW i \in 0 .. Len(l[h])
  PROVE  ListsOk(list_join(m, d, CellAt(h, l[h], i), CellAt(h, l[h], i+1)),
                 [l EXCEPT ![h] = PutAt(l[h], i, l[d]), ![d] = <<>>], st \union {d})
<1> DEFINE s == l[h]  t == l[d]  n == Len(t)
           a == CellAt(h, s, i)  b == CellAt(h, s, i+1)
           f == CellAt(d, t, 1)  z == CellAt(d, t, n)
           r == list_join(m, d, a, b)  q == PutAt(s, i, t)
           l2 == [l EXCEPT ![h] = q, ![d] = <<>>]
<1>1. /\ m \in Links /\ l \in [Heads -> Seq(Entries)] /\ st \subseteq Heads /\ Apart(l)
      /\ s \in Seq(Entries) /\ Once(s) /\ Linked(m, h, s)
      /\ t \in Seq(Entries) /\ Once(t) /\ Linked(m, d, t)
      /\ \A x \in st : l[x] = <<>>
      /\ Len(s) \in Nat /\ n \in Nat /\ n >= 1
  BY ApartOnce DEF ListsOk
<1>2. /\ \A j \in 0 .. Len(s) + 1 : CellAt(h, s, j) \in Cells
      /\ \A j, k \in 0 .. Len(s) : CellAt(h, s, j) = CellAt(h, s, k) => j = k
      /\ \A j, k \in 1 .. Len(s) + 1 : CellAt(h, s, j) = CellAt(h, s, k) => j = k
  BY <1>1, CellsDiffer
<1>3. /\ \A j \in 0 .. n + 1 : CellAt(d, t, j) \in Cells
      /\ \A j, k \in 0 .. n : CellAt(d, t, j) = CellAt(d, t, k) => j = k
      /\ \A j, k \in 1 .. n + 1 : CellAt(d, t, j) = CellAt(d, t, k) => j = k
      /\ CellAt(d, t, 0) = d /\ CellAt(d, t, n + 1) = d
      /\ \A j \in 1 .. n : CellAt(d, t, j) = t[j]
  BY <1>1, CellsDiffer
<1>4. \A j \in Int : \A k \in 1 .. n : CellAt(h, s, j) # CellAt(d, t, k)
  <2>1. \A j \in Int : \A k \in 1 .. n : CellAt(h, s, j) # t[k]
    BY RingsApart
  <2> QED  BY <2>1, <1>3
<1>5. /\ m[d].next = f /\ m[d].prev = z
      /\ a \in Cells /\ b \in Cells /\ f \in Cells /\ z \in Cells
      /\ f # b /\ z # a
  <2>1. /\ 0 \in 0 .. n /\ 0 + 1 = 1 /\ n \in 0 .. n /\ 1 \in 0 .. n+1 /\ n \in 0 .. n+1
        /\ i \in 0 .. Len(s)+1 /\ i+1 \in 0 .. Len(s)+1 /\ 1 \in 1 .. n /\ n \in 1 .. n
        /\ i \in Int /\ i+1 \in Int
    BY <1>1
  <2>2. m[d].next = f /\ m[d].prev = z
    BY <1>1, <1>3, <2>1 DEF Linked
  <2>3. a \in Cells /\ b \in Cells /\ f \in Cells /\ z \in Cells
    BY <2>1, <1>2, <1>3
  <2>4. f # b /\ z # a
    BY <2>1, <1>4
  <2> QED  BY <2>2, <2>3, <2>4
<1>6. /\ q \in Seq(Entries) /\ Len(q) = Len(s) + n
      /\ \A k \in 0 .. i : CellAt(h, q, k) = CellAt(h, s, k)
      /\ \A k \in 1 .. n : CellAt(h, q, i + k) = t[k]
      /\ \A k \in i+1 .. Len(s) + 1 : CellAt(h, q, k + n) = CellAt(h, s, k)
  <2> HIDE DEF s, t
  <2>1. q \in Seq(Entries) /\ Len(q) = Len(s) + n
    BY <1>1, PutCells DEF s, t
  <2>2. \A k \in 0 .. i : CellAt(h, q, k) = CellAt(h, s, k)
    BY <1>1, PutCells DEF s, t
  <2>3. \A k \in 1 .. n : CellAt(h, q, i + k) = t[k]
    BY <1>1, PutCells DEF s, t
  <2>4. \A k \in i+1 .. Len(s) + 1 : CellAt(h, q, k + n) = CellAt(h, s, k)
    BY <1>1, PutCells DEF s, t
  <2> QED  BY <2>1, <2>2, <2>3, <2>4
<1> HIDE DEF a, b, f, z, q
<1>7. l2 \in [Heads -> Seq(Entries)] /\ l2[h] = q /\ l2[d] = <<>>
      /\ \A x \in Heads \ {d, h} : l2[x] = l[x]
  <2>1. q \in Seq(Entries) /\ <<>> \in Seq(Entries) /\ l \in [Heads -> Seq(Entries)]
    BY <1>1, <1>6
  <2> QED  BY <2>1
<1> HIDE DEF l2
<1>8. /\ r \in Links
      /\ \A c \in Cells :
           /\ r[c].next = IF c = a THEN f ELSE IF c = z THEN b ELSE m[c].next
           /\ r[c].prev = IF c = f THEN a ELSE IF c = b THEN z ELSE m[c].prev
           /\ c \notin {a, b, f, z} => r[c] = m[c]
  <2>1. m \in Links /\ d \in Cells
    BY <1>1 DEF Cells
  <2>2. r \in Links
    BY <2>1, <1>5, JoinWrites
  <2>3. \A c \in Cells : r[c].next = IF c = a THEN f ELSE IF c = z THEN b ELSE m[c].next
    BY <2>1, <1>5, JoinWrites
  <2>4. \A c \in Cells : r[c].prev = IF c = f THEN a ELSE IF c = b THEN z ELSE m[c].prev
    BY <2>1, <1>5, JoinWrites
  <2>5. \A c \in Cells : c \notin {a, b, f, z} => r[c] = m[c]
    BY <2>1, <1>5, JoinWrites
  <2> QED  BY <2>2, <2>3, <2>4, <2>5
<1> HIDE DEF r
<1>9. ASSUME NEW k \in 0 .. Len(s), k # i
      PROVE  /\ r[CellAt(h, s, k)].next = CellAt(h, s, k+1)
             /\ r[CellAt(h, s, k+1)].prev = CellAt(h, s, k)
  <2>0. k \in 0 .. Len(s)+1 /\ k+1 \in 0 .. Len(s)+1 /\ k \in Int /\ k+1 \in Int
    BY <1>1
  <2>1. /\ m[CellAt(h, s, k)].next = CellAt(h, s, k+1)
        /\ m[CellAt(h, s, k+1)].prev = CellAt(h, s, k)
    BY <1>1 DEF Linked
  <2>2. CellAt(h, s, k) # a /\ CellAt(h, s, k+1) # b
    BY <1>9, <1>1, <1>2 DEF a, b
  <2>3. CellAt(h, s, k) # z /\ CellAt(h, s, k+1) # f
    BY <2>0, <1>1, <1>4 DEF z, f
  <2>4. CellAt(h, s, k) \in Cells /\ CellAt(h, s, k+1) \in Cells
    BY <2>0, <1>2
  <2> QED  BY <2>1, <2>2, <2>3, <2>4, <1>8
<1>10. ASSUME NEW k \in 1 .. n-1
       PROVE  r[t[k]].next = t[k+1] /\ r[t[k+1]].prev = t[k]
  <2>0. /\ k \in 0 .. n /\ k \in 1 .. n /\ k+1 \in 1 .. n /\ k \in 0 .. n+1 /\ k+1 \in 0 .. n+1
        /\ k \in 1 .. n+1 /\ k+1 \in 1 .. n+1 /\ 1 \in 1 .. n+1 /\ n \in 1 .. n+1
        /\ i \in Int /\ i+1 \in Int
    BY <1>1
  <2>1. CellAt(d, t, k) = t[k] /\ CellAt(d, t, k+1) = t[k+1]
    BY <2>0, <1>3
  <2>2. m[t[k]].next = t[k+1] /\ m[t[k+1]].prev = t[k]
    BY <2>0, <2>1, <1>1 DEF Linked
  <2>3. t[k] # z /\ t[k+1] # f
    <3>1. k # n /\ k+1 # 1
      BY <1>1
    <3> QED  BY <2>0, <2>1, <3>1, <1>3 DEF z, f
  <2>4. t[k] # a /\ t[k+1] # b
    BY <2>0, <2>1, <1>4 DEF a, b
  <2>5. t[k] \in Cells /\ t[k+1] \in Cells
    BY <2>0, <2>1, <1>3
  <2> QED  BY <2>2, <2>3, <2>4, <2>5, <1>8
<1>11. Linked(r, h, q)
  <2>1. ASSUME NEW k \in 0 .. Len(s) + n
        PROVE  /\ r[CellAt(h, q, k)].next = CellAt(h, q, k+1)
               /\ r[CellAt(h, q, k+1)].prev = CellAt(h, q, k)
    <3>1. CASE k < i
      <4>1. CellAt(h, q, k) = CellAt(h, s, k) /\ CellAt(h, q, k+1) = CellAt(h, s, k+1)
        BY <3>1, <1>6
      <4>2. k \in 0 .. Len(s) /\ k # i
        BY <3>1, <1>1
      <4> QED  BY <4>1, <4>2, <1>9
    <3>2. CASE k = i
      <4>1. CellAt(h, q, k) = a /\ CellAt(h, q, k+1) = t[1]
        BY <3>2, <1>1, <1>6 DEF a
      <4>2. t[1] = f
        BY <1>1, <1>3 DEF f
      <4> QED  BY <4>1, <4>2, <1>5, <1>8
    <3>3. CASE k > i /\ k < i + n
      <4> DEFINE j == k - i
      <4>1. j \in 1 .. n-1 /\ j \in 1 .. n /\ j+1 \in 1 .. n /\ i + j = k /\ i + (j+1) = k+1
        BY <3>3, <1>1
      <4>2. CellAt(h, q, i + j) = t[j] /\ CellAt(h, q, i + (j+1)) = t[j+1]
        BY <4>1, <1>6
      <4> HIDE DEF j
      <4> QED  BY <4>1, <4>2, <1>10
    <3>4. CASE k = i + n
      <4>1. CellAt(h, q, k) = t[n]
        BY <3>4, <1>1, <1>6
      <4>2. CellAt(h, q, k+1) = b
        <5>1. i+1 \in i+1 .. Len(s) + 1 /\ (i+1) + n = k+1
          BY <3>4, <1>1
        <5> QED  BY <5>1, <1>6 DEF b
      <4>3. t[n] = z
        BY <1>1, <1>3 DEF z
      <4> QED  BY <4>1, <4>2, <4>3, <1>5, <1>8
    <3>5. CASE k > i + n
      <4> DEFINE j == k - n
      <4>1. /\ j \in 0 .. Len(s) /\ j # i /\ j \in i+1 .. Len(s) + 1 /\ j+1 \in i+1 .. Len(s) + 1
            /\ j + n = k /\ (j+1) + n = k+1
        BY <3>5, <1>1
      <4>2. CellAt(h, q, j + n) = CellAt(h, s, j) /\ CellAt(h, q, (j+1) + n) = CellAt(h, s, j+1)
        BY <4>1, <1>6
      <4> HIDE DEF j
      <4> QED  BY <4>1, <4>2, <1>9
    <3>6. k \in Int /\ i \in Int /\ n \in Nat
      BY <1>1
    <3> HIDE DEF n
    <3>7. k < i \/ k = i \/ (k > i /\ k < i + n) \/ k = i + n \/ k > i + n
      BY <3>6
    <3> QED  BY <3>1, <3>2, <3>3, <3>4, <3>5, <3>7
  <2> QED  BY <2>1, <1>6 DEF Linked
<1>12. Apart(l2)
  <2> DEFINE oh(x, k) == IF x = h /\ k > i /\ k <= i + n THEN d ELSE x
             ok(x, k) == IF x = h /\ k > i THEN (IF k <= i + n THEN k - i ELSE k - n) ELSE k
  <2>1. ASSUME NEW x \in Heads, NEW k \in 1 .. Len(l2[x])
        PROVE  /\ oh(x, k) \in Heads /\ ok(x, k) \in 1 .. Len(l[oh(x, k)])
               /\ l2[x][k] = l[oh(x, k)][ok(x, k)]
    <3>1. CASE x = h
      <4>0. k \in 1 .. Len(q) /\ l2[x][k] = CellAt(h, q, k)
        BY <3>1, <1>7 DEF CellAt
      <4>1. CASE k <= i
        <5>2. k \in 0 .. i /\ k \in 1 .. Len(s)
          BY <4>0, <4>1, <1>1
        <5>3. CellAt(h, q, k) = CellAt(h, s, k)
          BY <5>2, <1>6
        <5>1. CellAt(h, q, k) = CellAt(h, s, k) /\ CellAt(h, s, k) = s[k] /\ k \in 1 .. Len(s)
          BY <5>2, <5>3 DEF CellAt
        <5> QED  BY <3>1, <4>0, <4>1, <5>1
      <4>2. CASE k > i /\ k <= i + n
        <5>1. k - i \in 1 .. n /\ i + (k - i) = k
          BY <4>0, <4>2, <1>1
        <5>2. CellAt(h, q, i + (k - i)) = t[k - i]
          BY <5>1, <1>6
        <5> QED  BY <3>1, <4>0, <4>2, <5>1, <5>2
      <4>3. CASE k > i + n
        <5>1. k - n \in i+1 .. Len(s) + 1 /\ k - n \in 1 .. Len(s) /\ (k - n) + n = k
          BY <4>0, <4>3, <1>1, <1>6
        <5>2. CellAt(h, q, (k - n) + n) = CellAt(h, s, k - n)
          BY <5>1, <1>6
        <5>3. CellAt(h, s, k - n) = s[k - n]
          BY <5>1 DEF CellAt
        <5>4. oh(x, k) = h /\ ok(x, k) = k - n
          BY <3>1, <4>0, <4>3, <1>1
        <5> QED  BY <3>1, <4>0, <5>1, <5>2, <5>3, <5>4
      <4> QED  BY <4>0, <4>1, <4>2, <4>3, <1>1
    <3>2. CASE x # h
      <4>1. x # d
        BY <1>7
      <4> QED  BY <3>2, <4>1, <1>7
    <3> QED  BY <3>1, <3>2
  <2>2. ASSUME NEW x \in Heads, NEW y \in Heads,
               NEW k \in 1 .. Len(l2[x]), NEW j \in 1 .. Len(l2[y]), l2[x][k] = l2[y][j]
        PROVE  x = y /\ k = j
    <3> DEFINE x1 == oh(x, k)  y1 == oh(y, j)  k1 == ok(x, k)  j1 == ok(y, j)
    <3>1. /\ x1 \in Heads /\ k1 \in 1 .. Len(l[x1]) /\ y1 \in Heads /\ j1 \in 1 .. Len(l[y1])
          /\ l[x1][k1] = l[y1][j1]
      BY <2>1, <2>2
    <3> HIDE DEF x1, y1, k1, j1
    <3>2. x1 = y1 /\ k1 = j1
      BY <3>1, <1>1 DEF Apart
    <3>3. x # d /\ y # d
      BY <1>7
    <3> QED  BY <3>2, <3>3, <1>1 DEF x1, y1, k1, j1
  <2> QED  BY <2>2 DEF Apart
<1>13. ASSUME NEW x \in Heads \ {d, h} PROVE Untouched(m, l, r, x)
  <2>1. x \in Cells /\ \A k \in 1 .. Len(l[x]) : l[x][k] \in Cells
    BY <1>1 DEF Cells
  <2>2. /\ f # x /\ z # x /\ a # x /\ b # x
        /\ \A k \in 1 .. Len(l[x]) : f # l[x][k] /\ z # l[x][k] /\ a # l[x][k] /\ b # l[x][k]
    BY RingsApart, <1>1 DEF f, z, a, b
  <2> QED  BY <2>1, <2>2, <1>8 DEF Untouched
<1> DEFINE st2 == st \union {d}
<1>14. st2 \in SUBSET Heads /\ \A x \in st2 : l2[x] = <<>>
  BY <1>1, <1>7
<1>15. \A x \in Heads \ st2 :
         \/ Linked(r, x, l2[x])
         \/ x \notin st /\ l2[x] = l[x] /\ Untouched(m, l, r, x)
  BY <1>7, <1>11, <1>13
<1> HIDE DEF st2
<1>16. ListsOk(r, l2, st2)
  BY <1>1, <1>7, <1>8, <1>12, <1>14, <1>15, ChangeOk
<1> QED  BY <1>16 DEF r, l2, q, a, b, st2
-----------------------------------------------------------------------------
(* A caller names a place by its cell: the head, or an entry of the list.  *)
OnRing(l, h, c) == c = h \/ \E i \in 1 .. Len(l[h]) : l[h][i] = c

LEMMA PlaceIs ==
  ASSUME NEW s \in Seq(Entries), Once(s), NEW i \in 1 .. Len(s)
  PROVE  PlaceOf(s, s[i]) = i
<1>1. DOMAIN s = 1 .. Len(s)
  OBVIOUS
<1>2. PlaceOf(s, s[i]) \in 1 .. Len(s) /\ s[PlaceOf(s, s[i])] = s[i]
  BY <1>1 DEF PlaceOf
<1> QED  BY <1>2 DEF Once

LEMMA PutIs ==
  ASSUME NEW h \in Heads, NEW s \in Seq(Entries), Once(s), NEW i \in 0 .. Len(s), NEW t
  PROVE  /\ PutBehind(s, CellAt(h, s, i), t) = PutAt(s, i, t)
         /\ PutBefore(s, CellAt(h, s, i+1), t) = PutAt(s, i, t)
<1>1. Len(s) \in Nat /\ \A k \in 1 .. Len(s) : s[k] \notin Heads
  BY ListAssumption
<1>3. PutBehind(s, CellAt(h, s, i), t) = PutAt(s, i, t)
  <2>1. CASE i # 0
    <3>1. i \in 1 .. Len(s) /\ CellAt(h, s, i) = s[i]
      BY <2>1 DEF CellAt
    <3>2. PlaceOf(s, s[i]) = i /\ s[i] \notin Heads
      BY <3>1, <1>1, PlaceIs
    <3> QED  BY <3>1, <3>2 DEF PutBehind
  <2>2. CASE i = 0
    <3>1. CellAt(h, s, i) = h
      BY <2>2 DEF CellAt
    <3> QED  BY <3>1, <2>2 DEF PutBehind
  <2> QED  BY <2>1, <2>2
<1>4. PutBefore(s, CellAt(h, s, i+1), t) = PutAt(s, i, t)
  <2>1. CASE i # Len(s)
    <3>1. i+1 \in 1 .. Len(s) /\ CellAt(h, s, i+1) = s[i+1] /\ (i+1) - 1 = i
      BY <2>1, <1>1 DEF CellAt
    <3>2. PlaceOf(s, s[i+1]) = i+1 /\ s[i+1] \notin Heads
      BY <3>1, <1>1, PlaceIs
    <3> QED  BY <3>1, <3>2 DEF PutBefore
  <2>2. CASE i = Len(s)
    <3>1. CellAt(h, s, i+1) = h
      BY <2>2, <1>1 DEF CellAt
    <3> QED  BY <3>1, <2>2 DEF PutBefore
  <2> QED  BY <2>1, <2>2
<1> QED  BY <1>3, <1>4

LEMMA RingPlaces ==
  ASSUME NEW l \in [Heads -> Seq(Entries)], NEW h \in Heads, NEW c, OnRing(l, h, c)
  PROVE  /\ \E i \in 0 .. Len(l[h]) : c = CellAt(h, l[h], i)
         /\ \E i \in 0 .. Len(l[h]) : c = CellAt(h, l[h], i+1)
<1>1. Len(l[h]) \in Nat
  OBVIOUS
<1>2. CASE c = h
  <2>1. 0 \in 0 .. Len(l[h]) /\ c = CellAt(h, l[h], 0)
    BY <1>1, <1>2 DEF CellAt
  <2>2. Len(l[h]) \in 0 .. Len(l[h]) /\ c = CellAt(h, l[h], Len(l[h]) + 1)
    BY <1>1, <1>2 DEF CellAt
  <2> QED  BY <2>1, <2>2
<1>3. CASE \E i \in 1 .. Len(l[h]) : l[h][i] = c
  <2>1. PICK i \in 1 .. Len(l[h]) : l[h][i] = c
    BY <1>3
  <2>2. i \in 0 .. Len(l[h]) /\ c = CellAt(h, l[h], i)
    BY <2>1, <1>1 DEF CellAt
  <2>3. i-1 \in 0 .. Len(l[h]) /\ (i-1)+1 = i
    BY <1>1
  <2> QED  BY <2>2, <2>3
<1> QED  BY <1>2, <1>3 DEF OnRing

LEMMA AddOk ==
  ASSUME NEW m, NEW l, NEW st, ListsOk(m, l, st), NEW h \in Heads \ st,
         NEW c, OnRing(l, h, c), NEW e \in Entries, Off(l, e)
  PROVE  /\ ListsOk(list_add(m, e, c), [l EXCEPT ![h] = PutBehind(l[h], c, <<e>>)], st)
         /\ ListsOk(list_add_tail(m, e, c), [l EXCEPT ![h] = PutBefore(l[h], c, <<e>>)], st)
<1> DEFINE s == l[h]
<1>1. l \in [Heads -> Seq(Entries)] /\ s \in Seq(Entries) /\ Once(s) /\ Linked(m, h, s)
  BY ApartOnce DEF ListsOk
<1>2. ListsOk(list_add(m, e, c), [l EXCEPT ![h] = PutBehind(l[h], c, <<e>>)], st)
  <2>1. PICK i \in 0 .. Len(s) : c = CellAt(h, s, i)
    BY <1>1, RingPlaces
  <2>2. list_add(m, e, c) = list_insert(m, e, CellAt(h, s, i), CellAt(h, s, i+1))
    BY <1>1, <2>1 DEF list_add, Linked
  <2>3. PutBehind(s, c, <<e>>) = PutOne(s, i, e)
    BY <1>1, <2>1, PutIs DEF PutOne
  <2>4. ListsOk(list_insert(m, e, CellAt(h, s, i), CellAt(h, s, i+1)),
                [l EXCEPT ![h] = PutOne(s, i, e)], st)
    BY InsertOk
  <2> QED  BY <2>2, <2>3, <2>4
<1>3. ListsOk(list_add_tail(m, e, c), [l EXCEPT ![h] = PutBefore(l[h], c, <<e>>)], st)
  <2>1. PICK i \in 0 .. Len(s) : c = CellAt(h, s, i+1)
    BY <1>1, RingPlaces
  <2>2. list_add_tail(m, e, c) = list_insert(m, e, CellAt(h, s, i), CellAt(h, s, i+1))
    BY <1>1, <2>1 DEF list_add_tail, Linked
  <2>3. PutBefore(s, c, <<e>>) = PutOne(s, i, e)
    BY <1>1, <2>1, PutIs DEF PutOne
  <2>4. ListsOk(list_insert(m, e, CellAt(h, s, i), CellAt(h, s, i+1)),
                [l EXCEPT ![h] = PutOne(s, i, e)], st)
    BY InsertOk
  <2> QED  BY <2>2, <2>3, <2>4
<1> QED  BY <1>2, <1>3

LEMMA PutLast ==
  ASSUME NEW X, NEW s \in Seq(X), NEW e \in X
  PROVE  PutOne(s, Len(s), e) = Append(s, e)
<1>1. SubSeq(s, 1, Len(s)) = s /\ SubSeq(s, Len(s)+1, Len(s)) = <<>>
  BY SubSeqFull, SubSeqEmpty
<1>2. PutOne(s, Len(s), e) = (s \o <<e>>) \o <<>>
  BY <1>1 DEF PutOne, PutAt
<1>3. s \o <<e>> \in Seq(X) /\ s \o <<e>> = Append(s, e)
  OBVIOUS
<1> QED  BY <1>2, <1>3, ConcatEmptySeq

LEMMA PutNone ==
  ASSUME NEW X, NEW s \in Seq(X), NEW i \in 0 .. Len(s)
  PROVE  PutAt(s, i, <<>>) = s
<1> DEFINE a == SubSeq(s, 1, i)  b == SubSeq(s, i+1, Len(s))
<1>1. a \in Seq(X) /\ Len(a) = i /\ \A k \in 1..i : a[k] = s[k]
  OBVIOUS
<1>2. b \in Seq(X) /\ Len(b) = Len(s) - i /\ \A k \in 1..Len(s)-i : b[k] = s[i+k]
  OBVIOUS
<1>3. PutAt(s, i, <<>>) = (a \o <<>>) \o b
  BY DEF PutAt
<1> HIDE DEF a, b
<1>4. a \o <<>> = a
  BY <1>1, ConcatEmptySeq
<1> DEFINE q == a \o b
<1>5. /\ q \in Seq(X) /\ Len(q) = Len(a) + Len(b)
      /\ \A k \in 1 .. Len(a) : q[k] = a[k]
      /\ \A k \in 1 .. Len(b) : q[Len(a) + k] = b[k]
  BY <1>1, <1>2, CatIs
<1> HIDE DEF q
<1>6. ASSUME NEW k \in 1 .. Len(s) PROVE q[k] = s[k]
  <2>1. CASE k <= i
    BY <2>1, <1>1, <1>5
  <2>2. CASE k > i
    <3>1. k-i \in 1 .. Len(s)-i /\ Len(a) + (k-i) = k /\ i + (k-i) = k
      BY <2>2, <1>1
    <3>2. q[k] = b[k-i]
      BY <3>1, <1>2, <1>5
    <3>3. b[k-i] = s[k]
      BY <3>1, <1>2
    <3> QED  BY <3>2, <3>3
  <2> QED  BY <2>1, <2>2
<1>7. Len(q) = Len(s)
  BY <1>1, <1>2, <1>5
<1>8. q = s
  BY <1>5, <1>6, <1>7, SeqEqual
<1> QED  BY <1>3, <1>4, <1>8 DEF q

(* What is left when an entry has been taken off.                          *)
LEMMA RemovedIsOff ==
  ASSUME NEW m, NEW l, NEW st, ListsOk(m, l, st), NEW h \in Heads, NEW i \in 1 .. Len(l[h]),
         NEW l2, l2 = [l EXCEPT ![h] = RemoveAt(l[h], i)]
  PROVE  /\ Off(l2, l[h][i])
         /\ \A g \in Heads, c \in Cells : c # l[h][i] /\ OnRing(l, g, c) => OnRing(l2, g, c)
<1> DEFINE s == l[h]  q == RemoveAt(s, i)
<1>1. /\ l \in [Heads -> Seq(Entries)] /\ Apart(l) /\ s \in Seq(Entries) /\ Len(s) \in Nat
  BY DEF ListsOk
<1>2. /\ q \in Seq(Entries) /\ Len(q) = Len(s) - 1
      /\ \A k \in 1 .. i-1 : q[k] = s[k]
      /\ \A k \in i .. Len(s)-1 : q[k] = s[k+1]
  BY <1>1, RemoveAtIs
<1> HIDE DEF q
<1>3. l2[h] = q /\ \A g \in Heads \ {h} : l2[g] = l[g]
  BY <1>1 DEF q
<1>4. Off(l2, s[i])
  <2> SUFFICES ASSUME NEW g \in Heads, NEW k \in 1 .. Len(l2[g]), l2[g][k] = s[i] PROVE FALSE
    BY DEF Off
  <2>1. CASE g # h
    BY <2>1, <1>1, <1>3 DEF Apart
  <2>2. CASE g = h
    <3>1. (k \in 1 .. i-1 /\ k # i /\ k \in 1 .. Len(s))
            \/ (k \in i .. Len(s)-1 /\ k+1 # i /\ k+1 \in 1 .. Len(s))
      BY <2>2, <1>1, <1>2, <1>3
    <3> QED  BY <3>1, <2>2, <1>1, <1>2, <1>3 DEF Apart
  <2> QED  BY <2>1, <2>2
<1>5. ASSUME NEW g \in Heads, NEW c \in Cells, c # s[i], OnRing(l, g, c)
      PROVE  OnRing(l2, g, c)
  <2>1. CASE c = g
    BY <2>1 DEF OnRing
  <2>2. CASE c # g /\ g # h
    BY <2>2, <1>3, <1>5 DEF OnRing
  <2>3. CASE c # g /\ g = h
    <3>1. PICK k \in 1 .. Len(s) : s[k] = c
      BY <2>3, <1>5 DEF OnRing
    <3>2. CASE k < i
      <4>1. k \in 1 .. i-1 /\ k \in 1 .. Len(q)
        BY <3>2, <1>1, <1>2
      <4> QED  BY <4>1, <3>1, <1>2, <1>3, <2>3 DEF OnRing
    <3>3. CASE k > i
      <4>1. k-1 \in i .. Len(s)-1 /\ k-1 \in 1 .. Len(q) /\ (k-1)+1 = k
        BY <3>3, <1>1, <1>2
      <4> QED  BY <4>1, <3>1, <1>2, <1>3, <2>3 DEF OnRing
    <3>4. k # i
      BY <3>1, <1>5
    <3> QED  BY <3>2, <3>3, <3>4, <1>1
  <2> QED  BY <2>1, <2>2, <2>3
<1> QED  BY <1>4, <1>5

LEMMA DeleteOk ==
  ASSUME NEW m, NEW l, NEW st, ListsOk(m, l, st), NEW h \in Heads \ st,
         NEW i \in 1 .. Len(l[h]), NEW l2, l2 = [l EXCEPT ![h] = RemoveAt(l[h], i)]
  PROVE  /\ ListsOk(list_del(m, l[h][i]), l2, st)
         /\ ListsOk(list_del_init(m, l[h][i]), l2, st)
<1> DEFINE e == l[h][i]  r == list_del_entry(m, e)
<1>1. ListsOk(r, l2, st) /\ Off(l2, e)
  BY RemoveOk, RemovedIsOff
<1>2. e \in Entries
  BY DEF ListsOk
<1>3. list_del(m, e) = [r EXCEPT ![e] = [next |-> LIST_POISON1, prev |-> LIST_POISON2]]
  BY DEF list_del
<1>4. list_del_init(m, e) = [r EXCEPT ![e] = [next |-> e, prev |-> e]]
  BY DEF list_del_init, INIT_LIST_HEAD
<1>5. /\ [next |-> LIST_POISON1, prev |-> LIST_POISON2] \in [next : Mem, prev : Mem]
      /\ [next |-> e, prev |-> e] \in [next : Mem, prev : Mem]
  BY <1>2 DEF Mem, Cells
<1> HIDE DEF e, r
<1>a. ASSUME NEW v \in [next : Mem, prev : Mem] PROVE ListsOk([r EXCEPT ![e] = v], l2, st)
  BY <1>1, <1>2, OffOk
<1>6. ListsOk(list_del(m, e), l2, st)
  BY <1>3, <1>5, <1>a
<1>7. ListsOk(list_del_init(m, e), l2, st)
  BY <1>4, <1>5, <1>a
<1> QED  BY <1>6, <1>7 DEF e

LEMMA MoveOk ==
  ASSUME NEW m, NEW l, NEW st, ListsOk(m, l, st), NEW h \in Heads \ st,
         NEW i \in 1 .. Len(l[h]), NEW l2, l2 = [l EXCEPT ![h] = RemoveAt(l[h], i)],
         NEW g \in Heads \ st, NEW c \in Cells, c # l[h][i], OnRing(l, g, c)
  PROVE  /\ ListsOk(list_move(m, l[h][i], c),
                    [l2 EXCEPT ![g] = PutBehind(l2[g], c, <<l[h][i]>>)], st)
         /\ ListsOk(list_move_tail(m, l[h][i], c),
                    [l2 EXCEPT ![g] = PutBefore(l2[g], c, <<l[h][i]>>)], st)
<1> DEFINE e == l[h][i]  r == list_del_entry(m, e)
<1>1. ListsOk(r, l2, st) /\ Off(l2, e) /\ OnRing(l2, g, c)
  BY RemoveOk, RemovedIsOff
<1>2. e \in Entries
  BY DEF ListsOk
<1>3. list_move(m, e, c) = list_add(r, e, c) /\ list_move_tail(m, e, c) = list_add_tail(r, e, c)
  BY DEF list_move, list_move_tail
<1> HIDE DEF e, r
<1>4. /\ ListsOk(list_add(r, e, c), [l2 EXCEPT ![g] = PutBehind(l2[g], c, <<e>>)], st)
      /\ ListsOk(list_add_tail(r, e, c), [l2 EXCEPT ![g] = PutBefore(l2[g], c, <<e>>)], st)
  BY <1>1, <1>2, AddOk
<1> QED  BY <1>3, <1>4 DEF e

(* Tests of a list answer from one or two pointers.                        *)
LEMMA EmptyIs ==
  ASSUME NEW m, NEW l, NEW st, ListsOk(m, l, st), NEW h \in Heads \ st
  PROVE  /\ m[h].next = CellAt(h, l[h], 1)
         /\ m[h].prev = CellAt(h, l[h], Len(l[h]))
         /\ list_empty(m, h) <=> l[h] = <<>>
         /\ list_is_singular(m, h) <=> Len(l[h]) = 1
<1> DEFINE s == l[h]
<1>1. s \in Seq(Entries) /\ Len(s) \in Nat /\ Once(s) /\ Linked(m, h, s) /\ (s = <<>> <=> Len(s) = 0)
  BY ApartOnce, EmptySeq DEF ListsOk
<1>2. /\ \A k \in 1 .. Len(s) : CellAt(h, s, k) = s[k] /\ s[k] # h
      /\ CellAt(h, s, 0) = h /\ CellAt(h, s, Len(s) + 1) = h
      /\ \A j, k \in 1 .. Len(s) + 1 : CellAt(h, s, j) = CellAt(h, s, k) => j = k
  BY <1>1, CellsDiffer
<1>3. 0 \in 0 .. Len(s) /\ Len(s) \in 0 .. Len(s) /\ 0+1 = 1
  BY <1>1
<1>4. m[h].next = CellAt(h, s, 1)
  BY <1>1, <1>2, <1>3 DEF Linked
<1>5. m[h].prev = CellAt(h, s, Len(s))
  BY <1>1, <1>2, <1>3 DEF Linked
<1>6. list_empty(m, h) <=> s = <<>>
  <2>1. CASE Len(s) = 0
    BY <2>1, <1>1, <1>2, <1>4 DEF list_empty
  <2>2. CASE Len(s) # 0
    <3>1. 1 \in 1 .. Len(s)
      BY <2>2, <1>1
    <3> QED  BY <3>1, <2>2, <1>1, <1>2, <1>4 DEF list_empty
  <2> QED  BY <2>1, <2>2
<1>7. list_is_singular(m, h) <=> Len(s) = 1
  <2>1. CASE Len(s) = 0
    BY <2>1, <1>1, <1>6 DEF list_is_singular
  <2>2. CASE Len(s) # 0
    <3>1. 1 \in 1 .. Len(s)+1 /\ Len(s) \in 1 .. Len(s)+1
      BY <2>2, <1>1
    <3> QED  BY <3>1, <2>2, <1>1, <1>2, <1>4, <1>5, <1>6 DEF list_is_singular
  <2> QED  BY <2>1, <2>2
<1> QED  BY <1>4, <1>5, <1>6, <1>7

LEMMA RotateOk ==
  ASSUME NEW m, NEW l, NEW st, ListsOk(m, l, st), NEW h \in Heads \ st
  PROVE  ListsOk(list_rotate_left(m, h),
                 [l EXCEPT ![h] = IF l[h] = <<>> THEN l[h] ELSE Append(Tail(l[h]), Head(l[h]))], st)
<1> DEFINE s == l[h]
<1>1. l \in [Heads -> Seq(Entries)] /\ s \in Seq(Entries) /\ Len(s) \in Nat
  BY DEF ListsOk
<1>2. CASE s = <<>>
  <2>1. list_rotate_left(m, h) = m
    BY <1>2, EmptyIs DEF list_rotate_left
  <2>2. [l EXCEPT ![h] = IF s = <<>> THEN s ELSE Append(Tail(s), Head(s))] = l
    BY <1>1, <1>2
  <2> QED  BY <2>1, <2>2
<1>3. CASE s # <<>>
  <2> DEFINE q == RemoveAt(s, 1)  l2 == [l EXCEPT ![h] = q]
             w == PutBefore(l2[h], h, <<s[1]>>)
             w2 == Append(Tail(s), Head(s))
  <2>0. 1 \in 1 .. Len(s) /\ CellAt(h, s, 1) = s[1]
    BY <1>1, <1>3 DEF CellAt
  <2>1. list_rotate_left(m, h) = list_move_tail(m, s[1], h)
    BY <1>3, <2>0, EmptyIs DEF list_rotate_left
  <2>2. /\ q \in Seq(Entries) /\ Len(q) = Len(s) - 1
        /\ \A k \in 1 .. Len(s)-1 : q[k] = s[k+1]
    BY <1>1, <2>0, RemoveAtIs
  <2>3. l2[h] = q
    BY <1>1
  <2> HIDE DEF q
  <2>4. w = PutOne(q, Len(q), s[1])
    BY <2>3 DEF PutBefore, PutOne
  <2>5. s[1] \in Entries /\ Len(q) \in 0 .. Len(q)
    BY <1>1, <2>0, <2>2
  <2>6. w = Append(q, s[1])
    BY <2>2, <2>4, <2>5, PutLast
  <2> HIDE DEF w
  <2>7. /\ w \in Seq(Entries) /\ Len(w) = Len(q) + 1 /\ w[Len(q) + 1] = s[1]
        /\ \A k \in 1 .. Len(q) : w[k] = q[k]
    BY <2>2, <2>5, <2>6
  <2>8. /\ w2 \in Seq(Entries) /\ Len(w2) = Len(s) /\ w2[Len(s)] = s[1]
        /\ \A k \in 1 .. Len(s)-1 : w2[k] = s[k+1]
    BY <1>1, <1>3
  <2> HIDE DEF w2
  <2>9. w = w2
    <3>1. Len(w) = Len(w2) /\ Len(w2) = Len(s)
      BY <2>2, <2>7, <2>8, <1>1
    <3>2. ASSUME NEW k \in 1 .. Len(s) PROVE w[k] = w2[k]
      <4>1. CASE k = Len(s)
        BY <4>1, <2>2, <2>7, <2>8, <1>1
      <4>2. CASE k # Len(s)
        <5>1. k \in 1 .. Len(s)-1 /\ k \in 1 .. Len(q)
          BY <4>2, <2>2, <1>1
        <5> QED  BY <5>1, <2>2, <2>7, <2>8
      <4> QED  BY <4>1, <4>2
    <3> QED  BY <3>1, <3>2, <2>7, <2>8, SeqEqual
  <2>10. h \in Cells /\ h # s[1] /\ OnRing(l, h, h)
    BY <2>5, ListAssumption DEF Cells, OnRing
  <2>11. ListsOk(list_move_tail(m, s[1], h), [l2 EXCEPT ![h] = PutBefore(l2[h], h, <<s[1]>>)], st)
    BY <2>0, <2>10, MoveOk DEF q
  <2>12. [l2 EXCEPT ![h] = w] = [l EXCEPT ![h] = IF s = <<>> THEN s ELSE w2]
    BY <1>1, <1>3, <2>9
  <2> QED  BY <2>1, <2>11, <2>12 DEF w, w2
<1> QED  BY <1>2, <1>3

LEMMA CutPositionOk ==
  ASSUME NEW m, NEW l, NEW st, ListsOk(m, l, st),
         NEW h \in Heads \ st, NEW d \in Heads \ st, d # h, l[d] = <<>>,
         NEW n \in 0 .. Len(l[h])
  PROVE  ListsOk(list_cut_position(m, d, h, CellAt(h, l[h], n)),
                 [l EXCEPT ![d] = SubSeq(l[h], 1, n), ![h] = SubSeq(l[h], n+1, Len(l[h]))], st)
<1> DEFINE s == l[h]  c == CellAt(h, s, n)
           l2 == [l EXCEPT ![d] = SubSeq(s, 1, n), ![h] = SubSeq(s, n+1, Len(s))]
<1>1. /\ l \in [Heads -> Seq(Entries)] /\ s \in Seq(Entries) /\ Len(s) \in Nat
      /\ st \subseteq Heads /\ Once(s)
  BY ApartOnce DEF ListsOk
<1>2. CASE n = 0
  <2>1. SubSeq(s, 1, n) = <<>> /\ SubSeq(s, n+1, Len(s)) = s
    BY <1>1, <1>2, SubSeqFull, SubSeqEmpty
  <2>2. l2 = l
    BY <1>1, <2>1
  <2>3. c = h
    BY <1>2 DEF CellAt
  <2>4. list_cut_position(m, d, h, c) = m \/ list_cut_position(m, d, h, c) = INIT_LIST_HEAD(m, d)
    BY <2>3 DEF list_cut_position
  <2>5. ListsOk(INIT_LIST_HEAD(m, d), l, st \ {d}) /\ st \ {d} = st
    BY InitHeadOk
  <2> QED  BY <2>2, <2>4, <2>5
<1>3. CASE n # 0
  <2>1. n \in 1 .. Len(s)
    BY <1>1, <1>3
  <2>2. c = s[n] /\ s # <<>> /\ c # h
    BY <1>1, <2>1, ListAssumption DEF CellAt
  <2>3. ~list_empty(m, h)
    BY <2>2, EmptyIs
  <2>4. list_is_singular(m, h) => m[h].next = c
    <3>1. m[h].next = CellAt(h, s, 1) /\ (list_is_singular(m, h) => Len(s) = 1)
      BY EmptyIs
    <3>2. Len(s) = 1 => CellAt(h, s, 1) = s[n]
      BY <1>1, <2>1 DEF CellAt
    <3> QED  BY <3>1, <3>2, <2>2
  <2>5. list_cut_position(m, d, h, c) = list_cut(m, d, h, s[n])
    BY <2>2, <2>3, <2>4 DEF list_cut_position
  <2>6. ListsOk(list_cut(m, d, h, s[n]), l2, st)
    BY <2>1, CutOk
  <2> QED  BY <2>5, <2>6
<1> QED  BY <1>2, <1>3

LEMMA SpliceOk ==
  ASSUME NEW m, NEW l, NEW st, ListsOk(m, l, st),
         NEW h \in Heads \ st, NEW d \in Heads \ st, d # h, NEW c, OnRing(l, h, c)
  PROVE  LET behind == [l EXCEPT ![h] = PutBehind(l[h], c, l[d]), ![d] = <<>>]
             before == [l EXCEPT ![h] = PutBefore(l[h], c, l[d]), ![d] = <<>>]
             left == IF l[d] = <<>> THEN st ELSE st \union {d}
         IN  /\ ListsOk(list_splice(m, d, c), behind, left)
             /\ ListsOk(list_splice_tail(m, d, c), before, left)
             /\ ListsOk(list_splice_init(m, d, c), behind, st)
             /\ ListsOk(list_splice_tail_init(m, d, c), before, st)
<1> DEFINE s == l[h]  t == l[d]
           behind == [l EXCEPT ![h] = PutBehind(l[h], c, l[d]), ![d] = <<>>]
           before == [l EXCEPT ![h] = PutBefore(l[h], c, l[d]), ![d] = <<>>]
           left == IF l[d] = <<>> THEN st ELSE st \union {d}
<1>1. /\ l \in [Heads -> Seq(Entries)] /\ s \in Seq(Entries) /\ Len(s) \in Nat
      /\ st \subseteq Heads /\ Once(s) /\ Linked(m, h, s)
  BY ApartOnce DEF ListsOk
<1>2. PICK i \in 0 .. Len(s) : c = CellAt(h, s, i)
  BY <1>1, RingPlaces
<1>3. PICK j \in 0 .. Len(s) : c = CellAt(h, s, j+1)
  BY <1>1, RingPlaces
<1>4. behind = [l EXCEPT ![h] = PutAt(s, i, t), ![d] = <<>>]
  BY <1>1, <1>2, PutIs
<1>5. before = [l EXCEPT ![h] = PutAt(s, j, t), ![d] = <<>>]
  BY <1>1, <1>3, PutIs
<1>6. /\ m[CellAt(h, s, i)].next = CellAt(h, s, i+1)
      /\ m[CellAt(h, s, j+1)].prev = CellAt(h, s, j)
  BY <1>1 DEF Linked
<1>7. CASE t = <<>>
  <2>1. \A k \in 0 .. Len(s) : PutAt(s, k, t) = s
    BY <1>1, <1>7, PutNone
  <2>2. behind = l /\ before = l
    BY <1>1, <1>4, <1>5, <1>7, <2>1
  <2>3. list_empty(m, d)
    BY <1>7, EmptyIs
  <2> QED
    BY <1>7, <2>2, <2>3
    DEF list_splice, list_splice_tail, list_splice_init, list_splice_tail_init
<1>8. CASE t # <<>>
  <2> DEFINE r == list_join(m, d, CellAt(h, s, i), CellAt(h, s, i+1))
             r2 == list_join(m, d, CellAt(h, s, j), CellAt(h, s, j+1))
  <2>1. ~list_empty(m, d)
    BY <1>8, EmptyIs
  <2>2. /\ list_splice(m, d, c) = r /\ list_splice_init(m, d, c) = INIT_LIST_HEAD(r, d)
        /\ list_splice_tail(m, d, c) = r2 /\ list_splice_tail_init(m, d, c) = INIT_LIST_HEAD(r2, d)
    BY <2>1, <1>2, <1>3, <1>6
    DEF list_splice, list_splice_tail, list_splice_init, list_splice_tail_init
  <2>3. ListsOk(r, behind, st \union {d})
    BY <1>4, <1>8, JoinOk
  <2>4. ListsOk(r2, before, st \union {d})
    BY <1>5, <1>8, JoinOk
  <2>5. behind[d] = <<>> /\ before[d] = <<>>
    BY <1>1
  <2>6. (st \union {d}) \ {d} = st
    OBVIOUS
  <2> HIDE DEF r, r2, behind, before
  <2>7. ListsOk(INIT_LIST_HEAD(r, d), behind, st)
    BY <2>3, <2>5, <2>6, InitHeadOk
  <2>8. ListsOk(INIT_LIST_HEAD(r2, d), before, st)
    BY <2>4, <2>5, <2>6, InitHeadOk
  <2>9. left = st \union {d}
    BY <1>8
  <2>10. /\ ListsOk(list_splice(m, d, c), behind, left)
         /\ ListsOk(list_splice_tail(m, d, c), before, left)
         /\ ListsOk(list_splice_init(m, d, c), behind, st)
         /\ ListsOk(list_splice_tail_init(m, d, c), before, st)
    BY <2>2, <2>3, <2>4, <2>7, <2>8, <2>9
  <2> QED  BY <2>10 DEF behind, before
<1> QED  BY <1>7, <1>8
-----------------------------------------------------------------------------
(* The sets of the model, read off the lists.                              *)
LEMMA OnIs ==
  ASSUME lists \in [Heads -> Seq(Entries)]
  PROVE  \A h \in Heads : \A c : c \in On(h) <=> \E i \in 1 .. Len(lists[h]) : lists[h][i] = c
<1> SUFFICES ASSUME NEW h \in Heads, NEW c
             PROVE  c \in On(h) <=> \E i \in 1 .. Len(lists[h]) : lists[h][i] = c
  OBVIOUS
<1>1. DOMAIN lists[h] = 1 .. Len(lists[h])
  OBVIOUS
<1> QED  BY <1>1 DEF On, Range

LEMMA UnlistedIsOff ==
  ASSUME ListsOk(links, lists, stale), NEW e \in Unlisted
  PROVE  e \in Entries /\ Off(lists, e)
<1>1. lists \in [Heads -> Seq(Entries)]
  BY DEF ListsOk
<1>2. \A h \in Heads : e \notin On(h)
  BY DEF Unlisted, Listed
<1> QED  BY <1>1, <1>2, OnIs DEF Off, Unlisted

(* An entry has one owner.                                                 *)
LEMMA OwnerIs ==
  ASSUME ListsOk(links, lists, stale), NEW h \in Heads, NEW i \in 1 .. Len(lists[h])
  PROVE  OwnerOf(lists[h][i]) = h /\ h \in Fresh
<1> DEFINE c == lists[h][i]  g == CHOOSE g \in Heads : c \in On(g)
<1>1. lists \in [Heads -> Seq(Entries)] /\ Apart(lists) /\ \A x \in stale : lists[x] = <<>>
  BY DEF ListsOk
<1>2. c \in Entries /\ c \notin Heads /\ c \in On(h)
  BY <1>1, OnIs, ListAssumption
<1>3. g \in Heads /\ c \in On(g)
  BY <1>2
<1>4. OwnerOf(c) = g
  BY <1>2 DEF OwnerOf
<1> HIDE DEF g
<1>5. PICK j \in 1 .. Len(lists[g]) : lists[g][j] = c
  BY <1>1, <1>3, OnIs
<1>6. g = h
  BY <1>1, <1>3, <1>5 DEF Apart
<1>7. h \notin stale
  BY <1>1
<1> QED  BY <1>4, <1>6, <1>7 DEF Fresh

LEMMA PlaceHasOwner ==
  ASSUME ListsOk(links, lists, stale), NEW c \in Places
  PROVE  /\ OwnerOf(c) \in Fresh /\ OnRing(lists, OwnerOf(c), c) /\ c \in Cells
         /\ c \notin Heads => c \in On(OwnerOf(c))
<1>1. lists \in [Heads -> Seq(Entries)] /\ Fresh \subseteq Heads
  BY DEF ListsOk, Fresh
<1>2. CASE c \in Fresh
  BY <1>1, <1>2 DEF OwnerOf, OnRing, Cells
<1>3. CASE c \notin Fresh
  <2>1. PICK h \in Fresh : c \in On(h)
    BY <1>3 DEF Places
  <2>2. PICK i \in 1 .. Len(lists[h]) : lists[h][i] = c
    BY <1>1, <2>1, OnIs
  <2>3. OwnerOf(c) = h
    BY <1>1, <2>2, OwnerIs
  <2>4. c \in Entries
    BY <1>1, <2>2
  <2> QED  BY <2>1, <2>2, <2>3, <2>4 DEF OnRing, Cells
<1> QED  BY <1>2, <1>3

LEMMA ListedIs ==
  ASSUME ListsOk(links, lists, stale), NEW e \in Listed
  PROVE  \E h \in Fresh : \E i \in 1 .. Len(lists[h]) :
           /\ e = lists[h][i] /\ OwnerOf(e) = h
           /\ Without(e) = [lists EXCEPT ![h] = RemoveAt(lists[h], i)]
<1>1. lists \in [Heads -> Seq(Entries)] /\ Fresh \subseteq Heads /\ Apart(lists)
  BY DEF ListsOk, Fresh
<1>2. PICK h \in Heads : e \in On(h)
  BY DEF Listed
<1>3. PICK i \in 1 .. Len(lists[h]) : lists[h][i] = e
  BY <1>1, <1>2, OnIs
<1>4. OwnerOf(e) = h /\ h \in Fresh
  BY <1>3, OwnerIs
<1>5. PlaceOf(lists[h], e) = i
  BY <1>1, <1>3, ApartOnce, PlaceIs
<1>6. \A g \in Heads : e \in On(g) <=> g = h
  BY <1>1, <1>2, <1>3, OnIs DEF Apart
<1>7. Without(e) = [lists EXCEPT ![h] = RemoveAt(lists[h], i)]
  BY <1>1, <1>5, <1>6 DEF Without
<1> QED  BY <1>3, <1>4, <1>7
-----------------------------------------------------------------------------
(* The calls, made outside a loop.                                         *)
LEMMA AddKeeps ==
  ASSUME ListsOk(links, lists, stale), Add
  PROVE  ListsOk(links', lists', stale') /\ iter' = NoLoop
<1>1. PICK e \in Unlisted, c \in Places :
        \/ Call(list_add(links, e, c), [lists EXCEPT ![OwnerOf(c)] = PutBehind(@, c, <<e>>)])
        \/ Call(list_add_tail(links, e, c), [lists EXCEPT ![OwnerOf(c)] = PutBefore(@, c, <<e>>)])
  BY DEF Add
<1>2. PICK h \in Heads \ stale : h = OwnerOf(c) /\ OnRing(lists, h, c)
  BY PlaceHasOwner DEF Fresh
<1>3. e \in Entries /\ Off(lists, e)
  BY UnlistedIsOff
<1>4. ListsOk(list_add(links, e, c), [lists EXCEPT ![h] = PutBehind(lists[h], c, <<e>>)], stale)
  BY <1>2, <1>3, AddOk
<1>5. ListsOk(list_add_tail(links, e, c), [lists EXCEPT ![h] = PutBefore(lists[h], c, <<e>>)], stale)
  BY <1>2, <1>3, AddOk
<1>6. CASE Call(list_add(links, e, c), [lists EXCEPT ![OwnerOf(c)] = PutBehind(@, c, <<e>>)])
  BY <1>2, <1>4, <1>6 DEF Call
<1>7. CASE Call(list_add_tail(links, e, c), [lists EXCEPT ![OwnerOf(c)] = PutBefore(@, c, <<e>>)])
  BY <1>2, <1>5, <1>7 DEF Call
<1> QED  BY <1>1, <1>6, <1>7

LEMMA DeleteKeeps ==
  ASSUME ListsOk(links, lists, stale), Delete
  PROVE  ListsOk(links', lists', stale') /\ iter' = NoLoop
<1>1. PICK e \in Listed :
        \/ Call(list_del(links, e), Without(e)) \/ Call(list_del_init(links, e), Without(e))
  BY DEF Delete
<1>2a. PICK h \in Fresh : \E i \in 1 .. Len(lists[h]) :
          e = lists[h][i] /\ Without(e) = [lists EXCEPT ![h] = RemoveAt(lists[h], i)]
  BY ListedIs
<1>2. PICK i \in 1 .. Len(lists[h]) :
          e = lists[h][i] /\ Without(e) = [lists EXCEPT ![h] = RemoveAt(lists[h], i)]
  BY <1>2a
<1>3. ListsOk(list_del(links, e), Without(e), stale)
      /\ ListsOk(list_del_init(links, e), Without(e), stale)
  BY <1>2, DeleteOk DEF Fresh
<1> QED  BY <1>1, <1>3 DEF Call

LEMMA ReplaceKeeps ==
  ASSUME ListsOk(links, lists, stale), Replace
  PROVE  ListsOk(links', lists', stale') /\ iter' = NoLoop
<1>1. ASSUME NEW old \in Listed, NEW new \in Unlisted,
             LET l == [lists EXCEPT ![OwnerOf(old)] =
                         [i \in DOMAIN @ |-> IF @[i] = old THEN new ELSE @[i]]] IN
             \/ Call(list_replace(links, old, new), l)
             \/ Call(list_replace_init(links, old, new), l)
      PROVE  ListsOk(links', lists', stale') /\ iter' = NoLoop
  <2>1a. PICK h \in Fresh : \E i \in 1 .. Len(lists[h]) :
            old = lists[h][i] /\ OwnerOf(old) = h
    BY ListedIs
  <2>1. PICK i \in 1 .. Len(lists[h]) :
            old = lists[h][i] /\ OwnerOf(old) = h
    BY <2>1a
  <2>2. new \in Entries /\ Off(lists, new)
    BY UnlistedIsOff
  <2> DEFINE q == Replaced(lists[h], old, new)  l2 == [lists EXCEPT ![h] = q]
             r == list_replace(links, old, new)
  <2>3. h \in Heads \ stale
    BY DEF Fresh
  <2>4. ListsOk(r, l2, stale)
    BY <2>1, <2>2, <2>3, ReplaceOk
  <2>5. [lists EXCEPT ![OwnerOf(old)] = [k \in DOMAIN @ |-> IF @[k] = old THEN new ELSE @[k]]] = l2
    BY <2>1 DEF Replaced
  <2>6. old \in Entries /\ Off(l2, old)
    <3>1. lists \in [Heads -> Seq(Entries)] /\ Apart(lists)
      BY DEF ListsOk
    <3>2. old \in Entries /\ old # new
      BY <2>1, <2>2, <2>3, <3>1 DEF Off
    <3>3. \A k \in 1 .. Len(q) : q[k] # old
      BY <2>3, <3>1, <3>2 DEF Replaced
    <3>4. \A g \in Heads \ {h} : l2[g] = lists[g] /\ \A k \in 1 .. Len(lists[g]) : lists[g][k] # old
      BY <2>1, <2>3, <3>1 DEF Apart
    <3> HIDE DEF q
    <3>5. l2[h] = q
      BY <2>3, <3>1
    <3> HIDE DEF l2
    <3> QED  BY <3>2, <3>3, <3>4, <3>5 DEF Off
  <2>7. [next |-> old, prev |-> old] \in [next : Mem, prev : Mem]
    BY <2>6 DEF Mem, Cells
  <2> HIDE DEF q, l2, r
  <2>8. ASSUME NEW v \in [next : Mem, prev : Mem] PROVE ListsOk([r EXCEPT ![old] = v], l2, stale)
    BY <2>4, <2>6, OffOk
  <2>9. ListsOk(list_replace_init(links, old, new), l2, stale)
    BY <2>7, <2>8 DEF list_replace_init, INIT_LIST_HEAD, r
  <2> QED  BY <1>1, <2>4, <2>5, <2>9 DEF Call, r
<1>2. ASSUME NEW old \in Fresh, NEW new \in Fresh, old # new, lists[new] = <<>>,
             Call(list_replace_init(links, old, new),
                  [lists EXCEPT ![new] = lists[old], ![old] = <<>>])
      PROVE  ListsOk(links', lists', stale') /\ iter' = NoLoop
  <2>1. ListsOk(list_replace_init(links, old, new),
                [lists EXCEPT ![new] = lists[old], ![old] = <<>>], stale)
    BY <1>2, SwapOk DEF Fresh
  <2> QED  BY <1>2, <2>1 DEF Call
<1> QED  BY <1>1, <1>2 DEF Replace

LEMMA MoveKeeps ==
  ASSUME ListsOk(links, lists, stale), Move
  PROVE  ListsOk(links', lists', stale') /\ iter' = NoLoop
<1>1. PICK e \in Listed : \E c \in Places \ {e} :
        \/ Call(list_move(links, e, c), [Without(e) EXCEPT ![OwnerOf(c)] = PutBehind(@, c, <<e>>)])
        \/ Call(list_move_tail(links, e, c),
                [Without(e) EXCEPT ![OwnerOf(c)] = PutBefore(@, c, <<e>>)])
  BY DEF Move
<1>1a. PICK c \in Places \ {e} :
        \/ Call(list_move(links, e, c), [Without(e) EXCEPT ![OwnerOf(c)] = PutBehind(@, c, <<e>>)])
        \/ Call(list_move_tail(links, e, c),
                [Without(e) EXCEPT ![OwnerOf(c)] = PutBefore(@, c, <<e>>)])
  BY <1>1
<1>2a. PICK h \in Fresh : \E i \in 1 .. Len(lists[h]) :
          e = lists[h][i] /\ Without(e) = [lists EXCEPT ![h] = RemoveAt(lists[h], i)]
  BY ListedIs
<1>2. PICK i \in 1 .. Len(lists[h]) :
          e = lists[h][i] /\ Without(e) = [lists EXCEPT ![h] = RemoveAt(lists[h], i)]
  BY <1>2a
<1>3. PICK g \in Heads \ stale : g = OwnerOf(c) /\ OnRing(lists, g, c)
  BY PlaceHasOwner DEF Fresh
<1>4. c \in Cells /\ c # e
  BY PlaceHasOwner
<1> DEFINE l2 == Without(e)
<1> HIDE DEF l2
<1>6. /\ ListsOk(list_move(links, e, c), [l2 EXCEPT ![g] = PutBehind(l2[g], c, <<e>>)], stale)
      /\ ListsOk(list_move_tail(links, e, c), [l2 EXCEPT ![g] = PutBefore(l2[g], c, <<e>>)], stale)
  BY <1>2, <1>3, <1>4, MoveOk DEF l2, Fresh
<1>7. CASE Call(list_move(links, e, c), [l2 EXCEPT ![OwnerOf(c)] = PutBehind(@, c, <<e>>)])
  BY <1>3, <1>6, <1>7 DEF Call
<1>8. CASE Call(list_move_tail(links, e, c), [l2 EXCEPT ![OwnerOf(c)] = PutBefore(@, c, <<e>>)])
  BY <1>3, <1>6, <1>8 DEF Call
<1> QED  BY <1>1a, <1>7, <1>8 DEF l2

LEMMA RotateKeeps ==
  ASSUME ListsOk(links, lists, stale), Rotate
  PROVE  ListsOk(links', lists', stale') /\ iter' = NoLoop
<1>1. PICK h \in Fresh :
        Call(list_rotate_left(links, h),
             [lists EXCEPT ![h] = IF @ = <<>> THEN @ ELSE Append(Tail(@), Head(@))])
  BY DEF Rotate
<1>2. ListsOk(list_rotate_left(links, h),
              [lists EXCEPT ![h] = IF lists[h] = <<>> THEN lists[h]
                                   ELSE Append(Tail(lists[h]), Head(lists[h]))], stale)
  BY RotateOk DEF Fresh
<1> QED  BY <1>1, <1>2 DEF Call

LEMMA CutKeeps ==
  ASSUME ListsOk(links, lists, stale), Cut
  PROVE  ListsOk(links', lists', stale') /\ iter' = NoLoop
<1>1. PICK d \in Fresh, h \in Fresh : \E c \in On(h) \union {h} :
        LET n == IF c = h THEN 0 ELSE PlaceOf(lists[h], c) IN
        /\ d # h /\ lists[d] = <<>>
        /\ Call(list_cut_position(links, d, h, c),
                [lists EXCEPT ![d] = SubSeq(lists[h], 1, n),
                              ![h] = SubSeq(lists[h], n+1, Len(lists[h]))])
  BY DEF Cut
<1>2. PICK c \in On(h) \union {h} :
        LET n == IF c = h THEN 0 ELSE PlaceOf(lists[h], c) IN
        /\ d # h /\ lists[d] = <<>>
        /\ Call(list_cut_position(links, d, h, c),
                [lists EXCEPT ![d] = SubSeq(lists[h], 1, n),
                              ![h] = SubSeq(lists[h], n+1, Len(lists[h]))])
  BY <1>1
<1> DEFINE s == lists[h]  n == IF c = h THEN 0 ELSE PlaceOf(s, c)
<1>3. lists \in [Heads -> Seq(Entries)] /\ h \in Heads \ stale /\ d \in Heads \ stale
      /\ s \in Seq(Entries) /\ Len(s) \in Nat /\ Once(s)
  BY ApartOnce DEF ListsOk, Fresh
<1>4. n \in 0 .. Len(s) /\ c = CellAt(h, s, n)
  <2>1. CASE c = h
    BY <2>1, <1>3 DEF CellAt
  <2>2. CASE c # h
    <3>1. PICK i \in 1 .. Len(s) : s[i] = c
      BY <1>3, <2>2, OnIs
    <3>2. PlaceOf(s, c) = i
      BY <1>3, <3>1, PlaceIs
    <3> QED  BY <2>2, <3>1, <3>2, <1>3 DEF CellAt
  <2> QED  BY <2>1, <2>2
<1>5. d # h /\ lists[d] = <<>>
      /\ Call(list_cut_position(links, d, h, c),
                [lists EXCEPT ![d] = SubSeq(s, 1, n), ![h] = SubSeq(s, n+1, Len(s))])
  BY <1>2
<1> HIDE DEF n
<1>6. ListsOk(list_cut_position(links, d, h, CellAt(h, s, n)),
              [lists EXCEPT ![d] = SubSeq(s, 1, n), ![h] = SubSeq(s, n+1, Len(s))], stale)
  BY <1>3, <1>4, <1>5, CutPositionOk
<1> QED  BY <1>4, <1>5, <1>6 DEF Call

LEMMA SpliceKeeps ==
  ASSUME ListsOk(links, lists, stale), Splice
  PROVE  ListsOk(links', lists', stale') /\ iter' = NoLoop
<1>1. PICK d \in Fresh : \E c \in Places \ ({d} \union On(d)) :
        LET behind == [lists EXCEPT ![OwnerOf(c)] = PutBehind(@, c, lists[d]), ![d] = <<>>]
            before == [lists EXCEPT ![OwnerOf(c)] = PutBefore(@, c, lists[d]), ![d] = <<>>]
        IN
        \/ Call(list_splice_init(links, d, c), behind)
        \/ Call(list_splice_tail_init(links, d, c), before)
        \/ /\ iter = NoLoop
           /\ \/ links' = list_splice(links, d, c) /\ lists' = behind
              \/ links' = list_splice_tail(links, d, c) /\ lists' = before
           /\ stale' = IF lists[d] = <<>> THEN stale ELSE stale \union {d}
           /\ UNCHANGED iter
  BY DEF Splice
<1>2. PICK c \in Places \ ({d} \union On(d)) :
        LET behind == [lists EXCEPT ![OwnerOf(c)] = PutBehind(@, c, lists[d]), ![d] = <<>>]
            before == [lists EXCEPT ![OwnerOf(c)] = PutBefore(@, c, lists[d]), ![d] = <<>>]
        IN
        \/ Call(list_splice_init(links, d, c), behind)
        \/ Call(list_splice_tail_init(links, d, c), before)
        \/ /\ iter = NoLoop
           /\ \/ links' = list_splice(links, d, c) /\ lists' = behind
              \/ links' = list_splice_tail(links, d, c) /\ lists' = before
           /\ stale' = IF lists[d] = <<>> THEN stale ELSE stale \union {d}
           /\ UNCHANGED iter
  BY <1>1
<1>3. PICK h \in Heads \ stale : h = OwnerOf(c) /\ OnRing(lists, h, c)
  BY PlaceHasOwner DEF Fresh
<1>4. d # h
  <2>1. c \notin Heads => c \in On(OwnerOf(c))
    BY PlaceHasOwner
  <2>2. c \in Heads => OwnerOf(c) = c
    BY DEF OwnerOf
  <2> QED  BY <1>3, <2>1, <2>2
<1> DEFINE behind == [lists EXCEPT ![h] = PutBehind(lists[h], c, lists[d]), ![d] = <<>>]
           before == [lists EXCEPT ![h] = PutBefore(lists[h], c, lists[d]), ![d] = <<>>]
           left == IF lists[d] = <<>> THEN stale ELSE stale \union {d}
<1>5. /\ ListsOk(list_splice(links, d, c), behind, left)
      /\ ListsOk(list_splice_tail(links, d, c), before, left)
      /\ ListsOk(list_splice_init(links, d, c), behind, stale)
      /\ ListsOk(list_splice_tail_init(links, d, c), before, stale)
  BY <1>3, <1>4, SpliceOk DEF Fresh
<1>6. \/ Call(list_splice_init(links, d, c), behind)
      \/ Call(list_splice_tail_init(links, d, c), before)
      \/ /\ iter = NoLoop
         /\ \/ links' = list_splice(links, d, c) /\ lists' = behind
            \/ links' = list_splice_tail(links, d, c) /\ lists' = before
         /\ stale' = left
         /\ UNCHANGED iter
  BY <1>2, <1>3
<1> HIDE DEF behind, before, left
<1> QED  BY <1>5, <1>6 DEF Call

LEMMA ResetKeeps ==
  ASSUME ListsOk(links, lists, stale), LoopInv, Reset
  PROVE  ListsOk(links', lists', stale') /\ LoopInv'
<1>1. PICK h \in stale :
        /\ links' = INIT_LIST_HEAD(links, h) /\ stale' = stale \ {h}
        /\ lists' = lists /\ iter' = iter
  BY DEF Reset
<1>2. h \in Heads /\ lists[h] = <<>>
  BY DEF ListsOk
<1>3. ListsOk(INIT_LIST_HEAD(links, h), lists, stale \ {h})
  BY <1>2, InitHeadOk
<1>4. Fresh \subseteq Fresh'
  BY <1>1 DEF Fresh
<1>5. LoopInv'
  BY <1>1, <1>4 DEF LoopInv, NoLoop
<1> QED  BY <1>1, <1>3, <1>5
-----------------------------------------------------------------------------
(* A list read in one direction.                                           *)
LEMMA DirectedIs ==
  ASSUME NEW s \in Seq(Entries), NEW dir \in {"next", "prev"}
  PROVE  /\ Directed(s, dir) \in Seq(Entries) /\ Len(Directed(s, dir)) = Len(s)
         /\ \A k \in 1 .. Len(s) :
              Directed(s, dir)[k] = IF dir = "next" THEN s[k] ELSE s[Len(s) + 1 - k]
<1>1. CASE dir = "next"
  BY <1>1 DEF Directed
<1>2. CASE dir = "prev"
  <2> DEFINE d == [i \in 1 .. Len(s) |-> s[(Len(s) - i) + 1]]
  <2>1. Directed(s, dir) = d
    BY <1>2 DEF Directed, Reverse
  <2>2. \A i \in 1 .. Len(s) : (Len(s) - i) + 1 \in 1 .. Len(s) /\ (Len(s) - i) + 1 = Len(s) + 1 - i
    OBVIOUS
  <2>3. \A i \in 1 .. Len(s) : s[(Len(s) - i) + 1] \in Entries
    BY <2>2
  <2>4. d \in Seq(Entries) /\ Len(d) = Len(s)
    BY <2>3
  <2>5. \A k \in 1 .. Len(s) : d[k] = s[Len(s) + 1 - k]
    BY <2>2
  <2> QED  BY <1>2, <2>1, <2>4, <2>5
<1> QED  BY <1>1, <1>2

LEMMA DirectedCells ==
  ASSUME NEW h \in Heads, NEW s \in Seq(Entries), NEW dir \in {"next", "prev"},
         NEW k \in 0 .. Len(s) + 1
  PROVE  CellAt(h, Directed(s, dir), k) =
           IF dir = "next" THEN CellAt(h, s, k) ELSE CellAt(h, s, Len(s) + 1 - k)
<1> DEFINE d == Directed(s, dir)
<1>1. d \in Seq(Entries) /\ Len(d) = Len(s)
  BY DirectedIs
<1>2. \A j \in 1 .. Len(s) : d[j] = IF dir = "next" THEN s[j] ELSE s[Len(s) + 1 - j]
  BY DirectedIs
<1> HIDE DEF d
<1>3. CASE k \in 1 .. Len(s)
  <2>1. CellAt(h, d, k) = d[k] /\ CellAt(h, s, k) = s[k]
    BY <1>1, <1>3 DEF CellAt
  <2>2. CellAt(h, s, Len(s) + 1 - k) = s[Len(s) + 1 - k]
    BY <1>3 DEF CellAt
  <2> QED  BY <2>1, <2>2, <1>2, <1>3 DEF d
<1>4. CASE k \notin 1 .. Len(s)
  <2>1. Len(s) + 1 - k \notin 1 .. Len(s)
    BY <1>4
  <2> QED  BY <2>1, <1>1, <1>4 DEF CellAt, d
<1> QED  BY <1>3, <1>4

(* A pointer in one direction leads to the next cell in that direction.    *)
LEMMA RingSteps ==
  ASSUME NEW m, NEW h \in Heads, NEW s \in Seq(Entries), Linked(m, h, s),
         NEW dir \in {"next", "prev"}, NEW k \in 0 .. Len(s)
  PROVE  m[CellAt(h, Directed(s, dir), k)][dir] = CellAt(h, Directed(s, dir), k+1)
<1>1. k \in 0 .. Len(s)+1 /\ k+1 \in 0 .. Len(s)+1
  OBVIOUS
<1>2. CASE dir = "next"
  <2>1. CellAt(h, Directed(s, dir), k) = CellAt(h, s, k)
    BY <1>1, <1>2, DirectedCells
  <2>2. CellAt(h, Directed(s, dir), k+1) = CellAt(h, s, k+1)
    BY <1>1, <1>2, DirectedCells
  <2>3. m[CellAt(h, s, k)].next = CellAt(h, s, k+1)
    BY DEF Linked
  <2> QED  BY <1>2, <2>1, <2>2, <2>3
<1>3. CASE dir = "prev"
  <2>1. CellAt(h, Directed(s, dir), k) = CellAt(h, s, Len(s) + 1 - k)
    BY <1>1, <1>3, DirectedCells
  <2>2. CellAt(h, Directed(s, dir), k+1) = CellAt(h, s, Len(s) + 1 - (k+1))
    BY <1>1, <1>3, DirectedCells
  <2>3. Len(s) - k \in 0 .. Len(s) /\ (Len(s) - k) + 1 = Len(s) + 1 - k
        /\ Len(s) + 1 - (k+1) = Len(s) - k
    OBVIOUS
  <2>4. m[CellAt(h, s, (Len(s) - k) + 1)].prev = CellAt(h, s, Len(s) - k)
    BY <2>3 DEF Linked
  <2> QED  BY <1>3, <2>1, <2>2, <2>3, <2>4
<1> QED  BY <1>2, <1>3

LEMMA FreshRing ==
  ASSUME NEW m, NEW l, NEW st, ListsOk(m, l, st), NEW h \in Heads \ st,
         NEW dir \in {"next", "prev"}
  PROVE  LET d == Directed(l[h], dir) IN
         /\ d \in Seq(Entries) /\ Len(d) = Len(l[h]) /\ Len(d) \in Nat
         /\ \A k \in 0 .. Len(d) : m[CellAt(h, d, k)][dir] = CellAt(h, d, k+1)
         /\ \A k \in Int : CellAt(h, d, k) \in Cells
<1> DEFINE s == l[h]  d == Directed(s, dir)
<1>1. s \in Seq(Entries) /\ Linked(m, h, s)
  BY DEF ListsOk
<1>2. d \in Seq(Entries) /\ Len(d) = Len(s) /\ Len(d) \in Nat
  BY <1>1, DirectedIs
<1>3. \A k \in 0 .. Len(s) : m[CellAt(h, d, k)][dir] = CellAt(h, d, k+1)
  BY <1>1, RingSteps
<1> HIDE DEF d
<1>4. \A k \in Int : CellAt(h, d, k) \in Cells
  BY <1>2 DEF CellAt, Cells
<1> QED  BY <1>2, <1>3, <1>4 DEF d

LEMMA LoopBeginKeeps ==
  ASSUME ListsOk(links, lists, stale), NEW h \in Fresh, NEW dir \in {"next", "prev"},
         LoopBegin(h, dir)
  PROVE  ListsOk(links', lists', stale') /\ LoopInv'
<1> DEFINE d == Directed(lists[h], dir)
<1>1. /\ d \in Seq(Entries) /\ Len(d) = Len(lists[h]) /\ Len(d) \in Nat
      /\ \A k \in 0 .. Len(d) : links[CellAt(h, d, k)][dir] = CellAt(h, d, k+1)
      /\ \A k \in Int : CellAt(h, d, k) \in Cells
  BY FreshRing DEF Fresh
<1>2. CellAt(h, d, 0) = h
  BY DEF CellAt
<1>3. links' = links /\ lists' = lists /\ stale' = stale
  BY DEF LoopBegin
<1>4. iter' = [head |-> h, dir |-> dir, pos |-> links[h][dir], n |-> links[links[h][dir]][dir],
               todo |-> d]
  BY DEF LoopBegin, Directed
<1> HIDE DEF d
<1>5. links[h][dir] = CellAt(h, d, 1) /\ CellAt(h, d, 1) \in Cells
  BY <1>1, <1>2
<1>6. d # <<>> => links[links[h][dir]][dir] = CellAt(h, d, 2)
  <2>1. d # <<>> => 1 \in 0 .. Len(d)
    BY <1>1
  <2> QED  BY <2>1, <1>1, <1>5
<1>7. d = <<>> => links[links[h][dir]][dir] = h
  <2>1. d = <<>> => CellAt(h, d, 1) = h
    BY DEF CellAt
  <2> QED  BY <1>5, <2>1
<1>8. links[links[h][dir]][dir] \in Mem /\ links[h][dir] \in Mem
  BY <1>1, <1>5, <1>6, <1>7 DEF Mem, Cells, Fresh
<1>9. iter' \in [head : Fresh, dir : {"next", "prev"}, pos : Mem, n : Mem, todo : Seq(Entries)]
  BY <1>1, <1>4, <1>8
<1>10. Fresh' = Fresh
  BY <1>3 DEF Fresh
<1>12. \A j \in 1 .. Len(d) : d[j] = d[Len(d) - Len(d) + j]
  <2>1. \A j \in 1 .. Len(d) : Len(d) - Len(d) + j = j
    BY <1>1
  <2> QED  BY <2>1
<1>13. LoopInv'
  <2>1. iter'.head = h /\ iter'.dir = dir /\ iter'.todo = d /\ iter'.pos = links[h][dir]
        /\ iter'.n = links[links[h][dir]][dir]
    BY <1>4
  <2>2. Directed(lists'[h], dir) = d
    BY <1>3 DEF d
  <2> QED  BY <1>1, <1>5, <1>6, <1>9, <1>10, <1>12, <2>1, <2>2 DEF LoopInv
<1> QED  BY <1>3, <1>13

(* What follows the visited entry is not disturbed when that one goes.     *)
LEMMA DirectedRemoved ==
  ASSUME NEW s \in Seq(Entries), Once(s), NEW i \in 1 .. Len(s), NEW dir \in {"next", "prev"},
         NEW j \in 1 .. Len(s), Directed(s, dir)[j] = s[i]
  PROVE  LET d == Directed(RemoveAt(s, i), dir) IN
         /\ Len(d) = Len(s) - 1
         /\ \A k \in j+1 .. Len(s) : d[k-1] = Directed(s, dir)[k]
<1> DEFINE q == RemoveAt(s, i)  d == Directed(q, dir)  d1 == Directed(s, dir)
<1>1. /\ q \in Seq(Entries) /\ Len(q) = Len(s) - 1
      /\ \A k \in 1 .. i-1 : q[k] = s[k]
      /\ \A k \in i .. Len(s)-1 : q[k] = s[k+1]
  BY RemoveAtIs
<1> HIDE DEF q
<1>2. \A k \in 1 .. Len(s) : d1[k] = IF dir = "next" THEN s[k] ELSE s[Len(s) + 1 - k]
  BY DirectedIs
<1>3. Len(d) = Len(q)
  BY <1>1, DirectedIs
<1>4. \A k \in 1 .. Len(q) : d[k] = IF dir = "next" THEN q[k] ELSE q[Len(q) + 1 - k]
  BY <1>1, DirectedIs
<1> HIDE DEF d, d1
<1>5. d1[j] = s[i]
  BY DEF d1
<1>6. ASSUME NEW k \in j+1 .. Len(s) PROVE d[k-1] = d1[k]
  <2>1. k \in 1 .. Len(s) /\ k-1 \in 1 .. Len(q)
    BY <1>1
  <2>2. CASE dir = "next"
    <3>1. j = i
      BY <1>2, <1>5, <2>2 DEF Once
    <3>2. k-1 \in i .. Len(s)-1 /\ (k-1)+1 = k
      BY <3>1
    <3> QED  BY <1>1, <1>2, <1>4, <2>1, <2>2, <3>2
  <2>3. CASE dir = "prev"
    <3>1. Len(s) + 1 - j \in 1 .. Len(s) /\ s[Len(s) + 1 - j] = s[i]
      BY <1>2, <1>5, <2>3
    <3>2. Len(s) + 1 - j = i
      BY <3>1 DEF Once
    <3>3. Len(q) + 1 - (k-1) = Len(s) + 1 - k /\ Len(s) + 1 - k \in 1 .. i-1
      BY <3>2, <1>1
    <3>4. d[k-1] = q[Len(s) + 1 - k]
      BY <1>4, <2>1, <2>3, <3>3
    <3>5. q[Len(s) + 1 - k] = s[Len(s) + 1 - k]
      BY <1>1, <3>3
    <3>6. d1[k] = s[Len(s) + 1 - k]
      BY <1>2, <2>1, <2>3
    <3> QED  BY <3>4, <3>5, <3>6
  <2> QED  BY <2>2, <2>3
<1>7. Len(d) = Len(s) - 1
  BY <1>1, <1>3
<1> QED  BY <1>6, <1>7 DEF d, d1, q

(* The rest of a list: its last entries.                                   *)
Rest(t, d) ==
  Len(t) <= Len(d) /\ \A j \in 1 .. Len(t) : t[j] = d[Len(d) - Len(t) + j]

LEMMA SecondOfRest ==
  \A a, b \in Nat : a >= 1 /\ a <= b /\ a # 1 =>
    2 \in 1 .. a /\ (b - a + 1) + 1 \in 1 .. b /\ b - a + 2 = (b - a + 1) + 1
OBVIOUS

LEMMA RestSteps ==
  ASSUME NEW m, NEW l, NEW st, ListsOk(m, l, st), NEW h \in Heads \ st,
         NEW dir \in {"next", "prev"}, NEW t \in Seq(Entries), t # <<>>,
         Rest(t, Directed(l[h], dir))
  PROVE  m[CellAt(h, t, 1)][dir] = CellAt(h, t, 2)
<1> DEFINE d == Directed(l[h], dir)  k == Len(d) - Len(t) + 1
<1>1. /\ d \in Seq(Entries) /\ Len(d) = Len(l[h]) /\ Len(d) \in Nat
      /\ \A x \in 0 .. Len(d) : m[CellAt(h, d, x)][dir] = CellAt(h, d, x+1)
      /\ \A x \in Int : CellAt(h, d, x) \in Cells
  BY FreshRing
<1> HIDE DEF d
<1>2. Len(t) \in Nat /\ Len(t) >= 1 /\ Len(t) <= Len(d)
      /\ \A j \in 1 .. Len(t) : t[j] = d[Len(d) - Len(t) + j]
  BY DEF Rest, d
<1>3. k \in 1 .. Len(d) /\ k \in 0 .. Len(d) /\ k \in Int
  BY <1>1, <1>2
<1>4. CellAt(h, t, 1) = CellAt(h, d, k)
  <2>1. 1 \in 1 .. Len(t)
    BY <1>2
  <2>2. t[1] = d[k]
    BY <1>2, <2>1
  <2> QED  BY <2>1, <2>2, <1>3 DEF CellAt
<1>5. CellAt(h, t, 2) = CellAt(h, d, k+1)
  <2>1. CASE Len(t) = 1
    <3>1. 2 \notin 1 .. Len(t) /\ k+1 \notin 1 .. Len(d)
      BY <2>1, <1>1
    <3> QED  BY <3>1 DEF CellAt
  <2>2. CASE Len(t) # 1
    <3>1. 2 \in 1 .. Len(t) /\ k+1 \in 1 .. Len(d) /\ Len(d) - Len(t) + 2 = k+1
      <4>1. Len(t) \in Nat /\ Len(t) >= 1 /\ Len(t) <= Len(d) /\ Len(d) \in Nat
        BY <1>1, <1>2
      <4> QED  BY ONLY <4>1, <2>2, SecondOfRest DEF k
    <3>2. t[2] = d[k+1]
      BY <1>2, <3>1
    <3> QED  BY <3>1, <3>2 DEF CellAt
  <2> QED  BY <2>1, <2>2
<1>6. m[CellAt(h, d, k)][dir] = CellAt(h, d, k+1)
  BY <1>1, <1>3
<1> QED  BY <1>4, <1>5, <1>6

LEMMA TailRest ==
  ASSUME NEW X, NEW t \in Seq(X), t # <<>>, NEW d \in Seq(X), NEW d2 \in Seq(X),
         Rest(t, d),
         \/ d2 = d
         \/ /\ Len(d2) = Len(d) - 1
            /\ \A k \in Len(d) - Len(t) + 2 .. Len(d) : d2[k-1] = d[k]
  PROVE  Rest(Tail(t), d2) /\ Tail(t) \in Seq(X)
<1> DEFINE u == Tail(t)
<1>1. u \in Seq(X) /\ Len(u) = Len(t) - 1 /\ \A j \in 1 .. Len(t)-1 : u[j] = t[j+1]
  OBVIOUS
<1> HIDE DEF u
<1>2. Len(t) \in Nat /\ Len(t) >= 1 /\ Len(t) <= Len(d) /\ Len(d) \in Nat
      /\ \A j \in 1 .. Len(t) : t[j] = d[Len(d) - Len(t) + j]
  BY DEF Rest
<1>3. Len(u) <= Len(d2)
  BY <1>1, <1>2
<1>4. ASSUME NEW j \in 1 .. Len(u) PROVE u[j] = d2[Len(d2) - Len(u) + j]
  <2>1. j \in 1 .. Len(t)-1 /\ j+1 \in 1 .. Len(t)
    BY <1>1, <1>2
  <2>2. u[j] = d[Len(d) - Len(t) + (j+1)]
    BY <1>1, <1>2, <2>1
  <2>3. CASE d2 = d
    <3>1. Len(d2) - Len(u) + j = Len(d) - Len(t) + (j+1)
      BY <1>1, <1>2, <2>3
    <3> QED  BY <2>2, <2>3, <3>1
  <2>4. CASE /\ Len(d2) = Len(d) - 1
             /\ \A k \in Len(d) - Len(t) + 2 .. Len(d) : d2[k-1] = d[k]
    <3> DEFINE k == Len(d) - Len(t) + (j+1)
    <3>1. k \in Len(d) - Len(t) + 2 .. Len(d) /\ k-1 = Len(d2) - Len(u) + j
      BY <1>1, <1>2, <2>1, <2>4
    <3> QED  BY <2>2, <2>4, <3>1
  <2> QED  BY <2>3, <2>4
<1> QED  BY <1>1, <1>3, <1>4 DEF Rest, u

LEMMA TailCell ==
  ASSUME NEW t \in Seq(Entries), t # <<>>, NEW h
  PROVE  CellAt(h, Tail(t), 1) = CellAt(h, t, 2)
<1> DEFINE u == Tail(t)
<1>1. u \in Seq(Entries) /\ Len(u) = Len(t) - 1 /\ \A j \in 1 .. Len(t)-1 : u[j] = t[j+1]
  OBVIOUS
<1> HIDE DEF u
<1>2. Len(t) \in Nat /\ Len(t) >= 1
  OBVIOUS
<1>3. CASE Len(t) = 1
  <2>1. 1 \notin 1 .. Len(u) /\ 2 \notin 1 .. Len(t)
    BY <1>3, <1>1
  <2> QED  BY <2>1 DEF CellAt, u
<1>4. CASE Len(t) # 1
  <2>1. 1 \in 1 .. Len(u) /\ 2 \in 1 .. Len(t) /\ 1 \in 1 .. Len(t)-1
    BY <1>4, <1>1, <1>2
  <2>2. u[1] = t[2]
    BY <1>1, <2>1
  <2> QED  BY <2>1, <2>2 DEF CellAt, u
<1> QED  BY <1>3, <1>4

LEMMA LoopInvIs ==
  ASSUME LoopInv, iter # NoLoop
  PROVE  /\ iter.head \in Fresh /\ iter.dir \in {"next", "prev"} /\ iter.todo \in Seq(Entries)
         /\ iter.pos \in Mem /\ iter.n \in Mem
         /\ iter = [head |-> iter.head, dir |-> iter.dir, pos |-> iter.pos, n |-> iter.n,
                    todo |-> iter.todo]
         /\ Rest(iter.todo, Directed(lists[iter.head], iter.dir))
         /\ iter.pos = CellAt(iter.head, iter.todo, 1)
         /\ iter.todo # <<>> => iter.n = CellAt(iter.head, iter.todo, 2)
BY DEF LoopInv, Rest

LEMMA Renewed ==
  ASSUME NEW H, NEW D, NEW P, NEW T, NEW p2 \in P, NEW n2 \in P, NEW t2 \in T,
         NEW it \in [head : H, dir : D, pos : P, n : P, todo : T]
  PROVE  LET it2 == [it EXCEPT !.pos = p2, !.n = n2, !.todo = t2] IN
         /\ it2 \in [head : H, dir : D, pos : P, n : P, todo : T]
         /\ it2.head = it.head /\ it2.dir = it.dir
         /\ it2.pos = p2 /\ it2.n = n2 /\ it2.todo = t2
OBVIOUS

LEMMA LoopBodyKeeps ==
  ASSUME ListsOk(links, lists, stale), LoopInv, LoopBody
  PROVE  ListsOk(links', lists', stale') /\ LoopInv'
<1> DEFINE h == iter.head  dir == iter.dir  t == iter.todo  e == iter.pos
           s == lists[h]  d == Directed(s, dir)
           s2 == lists'[h]  d2 == Directed(s2, dir)
<1>1. /\ h \in Fresh /\ dir \in {"next", "prev"} /\ t \in Seq(Entries)
      /\ iter = [head |-> h, dir |-> dir, pos |-> e, n |-> iter.n, todo |-> t]
      /\ Rest(t, d) /\ e = CellAt(h, t, 1) /\ (t # <<>> => iter.n = CellAt(h, t, 2))
  BY LoopInvIs DEF LoopBody
<1>2. lists \in [Heads -> Seq(Entries)] /\ h \in Heads \ stale /\ s \in Seq(Entries) /\ Once(s)
  BY <1>1, ApartOnce DEF ListsOk, Fresh
<1>3. e \in Entries /\ stale' = stale /\ iter' = LoopNext(links')
  BY DEF LoopBody
<1>3a. \/ links' = links /\ lists' = lists
       \/ links' = list_del(links, e) /\ lists' = Without(e)
       \/ links' = list_del_init(links, e) /\ lists' = Without(e)
       \/ \E g \in Fresh \ {h} :
            links' = list_move(links, e, g) /\ lists' = [Without(e) EXCEPT ![g] = <<e>> \o @]
  BY DEF LoopBody
<1>4. t # <<>> /\ e = t[1] /\ Len(t) \in Nat /\ Len(t) >= 1
  <2>1. e # h
    BY <1>2, <1>3, ListAssumption
  <2>2. 1 \in 1 .. Len(t) /\ e = t[1]
    BY <1>1, <2>1 DEF CellAt
  <2> QED  BY <1>1, <2>2
<1>5. d \in Seq(Entries) /\ Len(d) = Len(s)
  BY <1>1, <1>2, DirectedIs
<1> DEFINE j == Len(d) - Len(t) + 1
<1>5a. iter' = [iter EXCEPT !.pos = iter.n, !.n = links'[iter.n][dir], !.todo = Tail(t)]
  BY <1>3 DEF LoopNext
<1>5b. /\ iter \in [head : Fresh, dir : {"next", "prev"}, pos : Mem, n : Mem, todo : Seq(Entries)]
       /\ iter.head = h /\ iter.dir = dir
  BY DEF LoopInv, LoopBody
<1> HIDE DEF h, dir, t, e
<1>6. j \in 1 .. Len(s) /\ d[j] = e
  <2>1. Len(t) <= Len(d) /\ \A x \in 1 .. Len(t) : t[x] = d[Len(d) - Len(t) + x]
    BY <1>1 DEF Rest
  <2>2. 1 \in 1 .. Len(t) /\ Len(d) \in Nat
    BY <1>4, <1>5
  <2>3. t[1] = d[j]
    BY <2>1, <2>2
  <2> HIDE DEF d
  <2>4. j \in 1 .. Len(d)
    BY ONLY <1>4, <2>1, <2>2 DEF j
  <2> QED  BY <1>4, <1>5, <2>3, <2>4
<1>7. \E i \in 1 .. Len(s) : s[i] = e
  <2>1. d[j] = IF dir = "next" THEN s[j] ELSE s[Len(s) + 1 - j]
    BY <1>1, <1>2, <1>6, DirectedIs
  <2> HIDE DEF j, d
  <2>2. Len(s) + 1 - j \in 1 .. Len(s)
    BY <1>2, <1>6
  <2> QED  BY <1>6, <2>1, <2>2
<1>8. e \in Listed
  BY <1>2, <1>7, OnIs DEF Listed
<1>9. PICK h2 \in Fresh : \E i \in 1 .. Len(lists[h2]) :
        e = lists[h2][i] /\ OwnerOf(e) = h2 /\ Without(e) = [lists EXCEPT ![h2] = RemoveAt(lists[h2], i)]
  BY <1>8, ListedIs
<1>10. h2 = h
  BY <1>2, <1>7, <1>9, OwnerIs
<1>11. PICK i \in 1 .. Len(s) : e = s[i] /\ Without(e) = [lists EXCEPT ![h] = RemoveAt(s, i)]
  BY <1>9, <1>10
<1>12. Without(e)[h] = RemoveAt(s, i)
  BY <1>2, <1>11
<1>13. ListsOk(links', lists', stale') /\ (s2 = s \/ s2 = RemoveAt(s, i))
  <2>1. CASE links' = links /\ lists' = lists
    BY <1>3, <2>1
  <2>2. CASE links' = list_del(links, e) /\ lists' = Without(e)
    <3>1. ListsOk(list_del(links, lists[h][i]), Without(e), stale)
      BY <1>2, <1>11, DeleteOk
    <3> QED  BY <1>3, <1>11, <1>12, <2>2, <3>1
  <2>3. CASE links' = list_del_init(links, e) /\ lists' = Without(e)
    <3>1. ListsOk(list_del_init(links, lists[h][i]), Without(e), stale)
      BY <1>2, <1>11, DeleteOk
    <3> QED  BY <1>3, <1>11, <1>12, <2>3, <3>1
  <2>4. ASSUME NEW g \in Fresh \ {h}, links' = list_move(links, e, g),
               lists' = [Without(e) EXCEPT ![g] = <<e>> \o @]
        PROVE  ListsOk(links', lists', stale') /\ s2 = RemoveAt(s, i)
    <3> DEFINE l2 == Without(e)
    <3>1. g \in Heads \ stale /\ g \in Cells /\ g # e /\ OnRing(lists, g, g)
      BY <1>3, ListAssumption DEF Fresh, Cells, OnRing
    <3>2. ListsOk(list_move(links, e, g), [l2 EXCEPT ![g] = PutBehind(l2[g], g, <<e>>)], stale)
      <4>1. l2 = [lists EXCEPT ![h] = RemoveAt(lists[h], i)] /\ g # lists[h][i]
        BY <1>11, <3>1
      <4> HIDE DEF l2
      <4>2. ListsOk(list_move(links, lists[h][i], g),
                    [l2 EXCEPT ![g] = PutBehind(l2[g], g, <<lists[h][i]>>)], stale)
        BY <1>2, <3>1, <4>1, MoveOk
      <4> QED  BY <1>11, <4>2
    <3>3. l2 \in [Heads -> Seq(Entries)] /\ l2[h] = RemoveAt(s, i)
      <4>1. RemoveAt(s, i) \in Seq(Entries)
        BY <1>2, RemoveAtIs
      <4> QED  BY <1>2, <1>11, <1>12, <4>1
    <3> HIDE DEF l2
    <3>4. PutBehind(l2[g], g, <<e>>) = <<e>> \o l2[g]
      <4>1. l2[g] \in Seq(Entries) /\ g \in Heads
        BY <3>1, <3>3
      <4>2. SubSeq(l2[g], 1, 0) = <<>> /\ SubSeq(l2[g], 0+1, Len(l2[g])) = l2[g]
        BY <4>1, SubSeqEmpty, SubSeqFull
      <4>3. PutBehind(l2[g], g, <<e>>) = (<<>> \o <<e>>) \o l2[g]
        BY <4>1, <4>2 DEF PutBehind, PutAt
      <4>4. <<e>> \in Seq(Entries) /\ <<>> \o <<e>> = <<e>>
        BY <1>3, ConcatEmptySeq
      <4> QED  BY <4>3, <4>4
    <3>5. lists' = [l2 EXCEPT ![g] = PutBehind(l2[g], g, <<e>>)]
      BY <2>4, <3>4 DEF l2
    <3>6. s2 = RemoveAt(s, i)
      BY <3>1, <3>3, <3>5, <1>2
    <3> QED  BY <1>3, <2>4, <3>2, <3>5, <3>6
  <2> QED  BY <2>1, <2>2, <2>3, <2>4, <1>3a
<1>14. s2 \in Seq(Entries) /\ d2 \in Seq(Entries)
  <2>1. s2 \in Seq(Entries)
    BY <1>2, <1>13 DEF ListsOk
  <2> QED  BY <2>1, <1>1, DirectedIs
<1>15. \/ d2 = d
       \/ /\ Len(d2) = Len(d) - 1
          /\ \A k \in Len(d) - Len(t) + 2 .. Len(d) : d2[k-1] = d[k]
  <2>1. CASE s2 = s
    BY <2>1
  <2>2. CASE s2 = RemoveAt(s, i)
    <3> DEFINE w == Directed(RemoveAt(s, i), dir)
    <3>0. d2 = w /\ Directed(s, dir)[j] = s[i]
      BY <1>6, <1>11, <2>2
    <3> HIDE DEF j, s, d2
    <3>1. /\ Len(w) = Len(s) - 1
          /\ \A k \in j+1 .. Len(s) : w[k-1] = d[k]
      BY <1>1, <1>2, <1>6, <3>0, DirectedRemoved
    <3> HIDE DEF w
    <3>2. Len(d) \in Nat
      BY <1>5
    <3> HIDE DEF d
    <3>3. j + 1 = Len(d) - Len(t) + 2
      BY <1>4, <3>2 DEF j
    <3> QED  BY <3>0, <3>1, <3>3, <1>5
  <2> QED  BY <1>13, <2>1, <2>2
<1> DEFINE u == Tail(t)
<1> HIDE DEF d, d2, s2, j, u
<1>16. Rest(u, d2) /\ u \in Seq(Entries) /\ CellAt(h, u, 1) = CellAt(h, t, 2)
  <2>1. Rest(Tail(t), d2) /\ Tail(t) \in Seq(Entries)
    BY <1>1, <1>4, <1>5, <1>14, <1>15, TailRest
  <2>2. CellAt(h, Tail(t), 1) = CellAt(h, t, 2)
    BY <1>1, <1>4, TailCell
  <2> QED  BY <2>1, <2>2 DEF u
<1>18. iter.n = CellAt(h, u, 1) /\ iter.n \in Cells
  BY <1>1, <1>2, <1>4, <1>16 DEF CellAt, Cells
<1>19. links'[iter.n][dir] \in Mem
  BY <1>1, <1>13, <1>18 DEF ListsOk, Links
<1>20. u # <<>> => links'[iter.n][dir] = CellAt(h, u, 2)
  <2> SUFFICES ASSUME u # <<>> PROVE links'[CellAt(h, u, 1)][dir] = CellAt(h, u, 2)
    BY <1>18
  <2>1. Rest(u, Directed(lists'[h], dir)) /\ ListsOk(links', lists', stale') /\ h \in Heads \ stale'
    BY <1>2, <1>3, <1>13, <1>16 DEF d2, s2
  <2> HIDE DEF h, dir
  <2> QED  BY <2>1, <1>1, <1>16, RestSteps
<1>21. Fresh' = Fresh
  BY <1>3 DEF Fresh
<1>22. LoopInv'
  <2>1. iter.n \in Mem /\ u \in Seq(Entries) /\ links'[iter.n][dir] \in Mem
    BY <1>16, <1>18, <1>19 DEF Mem
  <2>2. /\ iter' \in [head : Fresh', dir : {"next", "prev"}, pos : Mem, n : Mem, todo : Seq(Entries)]
        /\ iter'.head = h /\ iter'.dir = dir /\ iter'.todo = u /\ iter'.pos = iter.n
        /\ iter'.n = links'[iter.n][dir]
    BY <2>1, <1>5a, <1>5b, <1>21, Renewed DEF u
  <2>3. Directed(lists'[h], dir) = d2
    BY DEF d2, s2
  <2> QED  BY <1>16, <1>18, <1>20, <2>2, <2>3 DEF LoopInv, Rest
<1> QED  BY <1>13, <1>22
-----------------------------------------------------------------------------
(* Induction for a set of naturals, from the order's well-foundedness.     *)
LEMMA NatInductionOnSet ==
  ASSUME NEW S, 0 \in S, \A n \in Nat : n \in S => n + 1 \in S
  PROVE  \A n \in Nat : n \in S
<1> DEFINE T == Nat \ S
           R == {ss \in Nat \X Nat : ss[1] < ss[2]}
<1> SUFFICES ASSUME T # {} PROVE FALSE
  OBVIOUS
<1>1. IsWellFoundedOn(R, Nat)
  BY NatLessThanWellFounded DEF OpToRel
<1>2. PICK x \in T : \A y \in T : ~(<<y, x>> \in R)
  <2>1. T \subseteq Nat
    OBVIOUS
  <2> HIDE DEF T, R
  <2> QED  BY <1>1, <2>1, WFMin
<1>3. x # 0 /\ x \in Nat /\ x \notin S
  OBVIOUS
<1>4. x - 1 \in Nat /\ <<x - 1, x>> \in R /\ (x - 1) + 1 = x
  BY <1>3
<1>5. x - 1 \in S
  BY <1>2, <1>4
<1> QED  BY <1>3, <1>4, <1>5

(* A list has no more entries than there are.                              *)
LEMMA ListIsShort ==
  ASSUME NEW s \in Seq(Entries), Once(s)
  PROVE  Len(s) <= Cardinality(Entries) /\ Cardinality(Entries) \in Nat
<1>1. s \in [1 .. Len(s) -> Entries] /\ Len(s) \in Nat
  OBVIOUS
<1>2. s \in Injection(1 .. Len(s), Entries)
  BY <1>1 DEF Injection, IsInjective, Once
<1>3. Cardinality(1 .. Len(s)) <= Cardinality(Entries)
  BY <1>2, ListAssumption, FS_Injection
<1>4. Cardinality(1 .. Len(s)) = Len(s)
  <2>1. Len(s) \in Int /\ Len(s) \in Nat
    OBVIOUS
  <2>2. \A n \in Int : Cardinality(1 .. n) = IF 1 > n THEN 0 ELSE n-1+1
    BY FS_Interval
  <2> QED  BY <2>1, <2>2
<1>5. Cardinality(Entries) \in Nat
  BY ListAssumption, FS_CardinalityType
<1> QED  BY <1>3, <1>4, <1>5

WalkStep(m, head, c, dir, f, k) ==
  IF k = 0 THEN c ELSE IF f[k-1] \in Cells \ {head} THEN m[f[k-1]][dir] ELSE f[k-1]

Walk(m, head, c, dir) ==
  CHOOSE f : f = [k \in 0 .. Cardinality(Entries) |-> WalkStep(m, head, c, dir, f, k)]

LEMMA WalkIs ==
  ASSUME NEW m, NEW l, NEW st, ListsOk(m, l, st), NEW h \in Heads \ st,
         NEW dir \in {"next", "prev"}, NEW j \in 0 .. Len(l[h])
  PROVE  \A k \in 0 .. Cardinality(Entries) :
           Walk(m, h, CellAt(h, Directed(l[h], dir), j+1), dir)[k]
             = CellAt(h, Directed(l[h], dir), j+1+k)
<1> DEFINE d == Directed(l[h], dir)  N == Cardinality(Entries)  c == CellAt(h, d, j+1)
           g == [k \in 0 .. N |-> CellAt(h, d, j+1+k)]
           f == Walk(m, h, c, dir)
<1>1. /\ d \in Seq(Entries) /\ Len(d) = Len(l[h]) /\ Len(d) \in Nat
      /\ \A x \in 0 .. Len(d) : m[CellAt(h, d, x)][dir] = CellAt(h, d, x+1)
      /\ \A x \in Int : CellAt(h, d, x) \in Cells
  BY FreshRing
<1>2. N \in Nat
  BY ListAssumption, FS_CardinalityType
<1> HIDE DEF d, N
<1>3. \A k \in 1 .. N : CellAt(h, d, j+1+k) =
         IF CellAt(h, d, j+k) \in Cells \ {h} THEN m[CellAt(h, d, j+k)][dir] ELSE CellAt(h, d, j+k)
  <2> SUFFICES ASSUME NEW k \in 1 .. N
      PROVE  CellAt(h, d, j+1+k) = IF CellAt(h, d, j+k) \in Cells \ {h}
               THEN m[CellAt(h, d, j+k)][dir] ELSE CellAt(h, d, j+k)
    OBVIOUS
  <2>1. CASE j+k \in 1 .. Len(d)
    <3>1. j+k \in 0 .. Len(d) /\ (j+k)+1 = j+1+k /\ j+k \in Int
      BY <1>1, <1>2, <2>1
    <3>2. CellAt(h, d, j+k) = d[j+k] /\ d[j+k] \in Entries
      BY <1>1, <2>1 DEF CellAt
    <3>3. CellAt(h, d, j+k) \in Cells \ {h}
      BY <3>2, ListAssumption DEF Cells
    <3> QED  BY <1>1, <3>1, <3>3
  <2>2. CASE j+k \notin 1 .. Len(d)
    <3>1. j+1+k \notin 1 .. Len(d)
      BY <1>1, <1>2, <2>2
    <3> QED  BY <2>2, <3>1 DEF CellAt
  <2> QED  BY <2>1, <2>2
<1>4. \A k \in 1 .. N : k-1 \in 0 .. N /\ j+1+(k-1) = j+k /\ k # 0
  BY <1>2
<1>5. g = [k \in 0 .. N |-> WalkStep(m, h, c, dir, g, k)]
  <2>1. \A k \in 1 .. N : g[k-1] = CellAt(h, d, j+k)
    BY <1>4
  <2>2. ASSUME NEW k \in 0 .. N PROVE CellAt(h, d, j+1+k) = WalkStep(m, h, c, dir, g, k)
    <3>1. CASE k = 0
      BY <3>1 DEF WalkStep
    <3>2. CASE k # 0
      <4>1. k \in 1 .. N
        BY <3>2, <1>2
      <4>2. g[k-1] = CellAt(h, d, j+k)
        BY <2>1, <4>1
      <4> HIDE DEF g, c
      <4> QED  BY <1>3, <3>2, <4>1, <4>2 DEF WalkStep
    <3> QED  BY <3>1, <3>2
  <2> QED  BY <2>2
<1>6. f = [k \in 0 .. N |-> WalkStep(m, h, c, dir, f, k)]
  <2> HIDE DEF g, c
  <2> QED  BY <1>5 DEF Walk, N
<1> DEFINE S == {k \in Nat : k <= N => f[k] = CellAt(h, d, j+1+k)}
<1> HIDE DEF f, g
<1>7. 0 \in S
  <2>1. 0 \in 0 .. N /\ j+1+0 = j+1
    BY <1>2
  <2>2. f[0] = WalkStep(m, h, c, dir, f, 0)
    BY <1>6, <2>1
  <2> QED  BY <2>1, <2>2 DEF WalkStep
<1>8. ASSUME NEW k \in Nat, k \in S PROVE k+1 \in S
  <2> SUFFICES ASSUME k+1 <= N PROVE f[k+1] = CellAt(h, d, j+1+(k+1))
    OBVIOUS
  <2>1. k+1 \in 1 .. N /\ k+1 \in 0 .. N /\ (k+1)-1 = k /\ k+1 # 0 /\ k <= N /\ j+(k+1) = j+1+k
    BY <1>2
  <2>2. f[k+1] = WalkStep(m, h, c, dir, f, k+1)
    BY <1>6, <2>1
  <2>3. f[k] = CellAt(h, d, j+(k+1))
    BY <1>8, <2>1
  <2>4. WalkStep(m, h, c, dir, f, k+1) = IF f[k] \in Cells \ {h} THEN m[f[k]][dir] ELSE f[k]
    BY <2>1 DEF WalkStep
  <2>5. CellAt(h, d, j+1+(k+1)) = IF CellAt(h, d, j+(k+1)) \in Cells \ {h}
          THEN m[CellAt(h, d, j+(k+1))][dir] ELSE CellAt(h, d, j+(k+1))
    BY <1>3, <2>1
  <2> QED  BY <2>2, <2>3, <2>4, <2>5
<1>9. \A k \in Nat : k \in S
  <2> HIDE DEF S
  <2> QED  BY <1>7, <1>8, NatInductionOnSet
<1>10. \A k \in 0 .. N : f[k] = CellAt(h, d, j+1+k)
  BY <1>2, <1>9
<1> QED  BY <1>10 DEF f, d, N

(* A loop that starts behind the first j cells sees the rest of the list.  *)
LEMMA WalkSees ==
  ASSUME NEW m, NEW l, NEW st, ListsOk(m, l, st), NEW h \in Heads \ st,
         NEW dir \in {"next", "prev"}, NEW j \in 0 .. Len(l[h])
  PROVE  list_walk(m, h, CellAt(h, Directed(l[h], dir), j+1), dir)
           = SubSeq(Directed(l[h], dir), j+1, Len(l[h]))
<1> DEFINE d == Directed(l[h], dir)  N == Cardinality(Entries)  c == CellAt(h, d, j+1)
           f == Walk(m, h, c, dir)
           end == {k \in 0 .. N : f[k] = h}
           r == list_walk(m, h, c, dir)
<1>1. d \in Seq(Entries) /\ Len(d) = Len(l[h]) /\ Len(d) \in Nat
  BY FreshRing
<1>2. Len(d) <= N /\ N \in Nat
  <2>1. l[h] \in Seq(Entries) /\ Once(l[h])
    BY ApartOnce DEF ListsOk
  <2> QED  BY <2>1, <1>1, ListIsShort
<1>3. \A k \in 0 .. N : f[k] = CellAt(h, d, j+1+k)
  BY WalkIs
<1>4. r = [i \in 1 .. (IF end = {} THEN N + 1 ELSE Min(end)) |-> f[i-1]]
  BY DEF list_walk, Walk, WalkStep
<1> HIDE DEF d, N, f, r
<1> DEFINE n == Len(d) - j
<1>5. n \in Nat /\ n <= N
  BY <1>1, <1>2
<1>6. \A k \in 0 .. N : f[k] = h <=> k >= n
  <2> SUFFICES ASSUME NEW k \in 0 .. N PROVE f[k] = h <=> k >= n
    OBVIOUS
  <2>1. CASE k >= n
    <3>1. j+1+k \notin 1 .. Len(d)
      BY <1>1, <2>1
    <3> QED  BY <1>3, <2>1, <3>1 DEF CellAt
  <2>2. CASE ~(k >= n)
    <3>1. j+1+k \in 1 .. Len(d)
      BY <1>1, <2>2
    <3>2. f[k] = d[j+1+k] /\ d[j+1+k] \in Entries
      BY <1>1, <1>3, <3>1 DEF CellAt
    <3> QED  BY <3>2, <2>2, ListAssumption
  <2> QED  BY <2>1, <2>2
<1>7. n \in end /\ \A y \in end : n <= y /\ y \in Nat
  BY <1>2, <1>5, <1>6
<1>8. end # {} /\ Min(end) = n
  <2> HIDE DEF end, n
  <2>1. Min(end) \in end /\ \A y \in end : Min(end) <= y
    BY <1>7 DEF Min
  <2>2. Min(end) <= n /\ n <= Min(end) /\ Min(end) \in Nat
    BY <2>1, <1>7
  <2> QED  BY <1>5, <1>7, <2>2
<1>9. r = [i \in 1 .. n |-> f[i-1]]
  <2> HIDE DEF n, end
  <2> QED  BY <1>4, <1>8
<1>10. \A i \in 1 .. n : f[i-1] = d[j+i] /\ d[j+i] \in Entries
  <2> SUFFICES ASSUME NEW i \in 1 .. n PROVE f[i-1] = d[j+i] /\ d[j+i] \in Entries
    OBVIOUS
  <2>1. i-1 \in 0 .. N /\ j+1+(i-1) = j+i /\ j+i \in 1 .. Len(d)
    BY <1>1, <1>2
  <2> QED  BY <1>1, <1>3, <2>1 DEF CellAt
<1> DEFINE u == SubSeq(d, j+1, Len(d))
<1>11. u \in Seq(Entries) /\ Len(u) = n /\ \A i \in 1 .. n : u[i] = d[j+i]
  <2>1. u \in Seq(Entries) /\ Len(u) = n
    BY <1>1
  <2>2. \A i \in 1 .. n : u[i] = d[(j+1) + i - 1] /\ (j+1) + i - 1 = j+i
    BY <1>1
  <2> QED  BY <2>1, <2>2
<1> HIDE DEF u, n
<1>12. r \in Seq(Entries) /\ Len(r) = n /\ \A i \in 1 .. n : r[i] = d[j+i]
  <2>1. r \in [1 .. n -> Entries] /\ \A i \in 1 .. n : r[i] = d[j+i]
    BY <1>9, <1>10
  <2> QED  BY <1>5, <2>1
<1>13. r = u
  BY <1>11, <1>12, SeqEqual
<1> QED  BY <1>1, <1>13 DEF r, u, c, d

LEMMA ReverseOfFirst ==
  ASSUME NEW s \in Seq(Entries), NEW i \in 1 .. Len(s)
  PROVE  SubSeq(Reverse(s), (Len(s) + 1 - i) + 1, Len(s)) = Reverse(SubSeq(s, 1, i-1))
<1> DEFINE d == Reverse(s)  a == SubSeq(d, (Len(s) + 1 - i) + 1, Len(s))
           t == SubSeq(s, 1, i-1)  b == Reverse(t)
<1>1. d \in Seq(Entries) /\ Len(d) = Len(s) /\ \A k \in 1 .. Len(s) : d[k] = s[Len(s) + 1 - k]
  <2>1. Directed(s, "prev") = d
    BY DEF Directed
  <2> HIDE DEF d
  <2> QED  BY <2>1, DirectedIs
<1>2. t \in Seq(Entries) /\ Len(t) = i-1 /\ \A k \in 1 .. i-1 : t[k] = s[k]
  OBVIOUS
<1> HIDE DEF t
<1>3. b \in Seq(Entries) /\ Len(b) = i-1 /\ \A k \in 1 .. i-1 : b[k] = t[i - k]
  <2>1. Directed(t, "prev") = b
    BY DEF Directed
  <2> HIDE DEF b
  <2>2. b \in Seq(Entries) /\ Len(b) = Len(t) /\ \A k \in 1 .. Len(t) : b[k] = t[Len(t) + 1 - k]
    BY <1>2, <2>1, DirectedIs
  <2>3. \A k \in 1 .. i-1 : (i-1) + 1 - k = i - k
    OBVIOUS
  <2> QED  BY <1>2, <2>2, <2>3
<1> HIDE DEF d, b
<1>4. a \in Seq(Entries) /\ Len(a) = i-1
  BY <1>1
<1>5. ASSUME NEW k \in 1 .. i-1 PROVE a[k] = b[k]
  <2>1. a[k] = d[((Len(s) + 1 - i) + 1) + k - 1]
    BY <1>1
  <2>2. /\ ((Len(s) + 1 - i) + 1) + k - 1 = Len(s) + 1 - i + k
        /\ Len(s) + 1 - i + k \in 1 .. Len(s)
        /\ Len(s) + 1 - (Len(s) + 1 - i + k) = i - k /\ i - k \in 1 .. i-1
    OBVIOUS
  <2>3. d[Len(s) + 1 - i + k] = s[i - k]
    BY <1>1, <2>2
  <2>4. b[k] = s[i - k]
    BY <1>2, <1>3, <2>2
  <2> QED  BY <2>1, <2>2, <2>3, <2>4
<1> HIDE DEF a
<1>6. a = b
  BY <1>3, <1>4, <1>5, SeqEqual
<1> QED  BY <1>6 DEF a, b, d, t

LEMMA LoopsSee ==
  ASSUME ListsOk(links, lists, stale)
  PROVE  ListsAreSequences
<1> SUFFICES ASSUME NEW h \in Fresh
    PROVE  /\ list_for_each(links, h) = lists[h]
           /\ list_for_each_prev(links, h) = Reverse(lists[h])
           /\ \A i \in DOMAIN lists[h] :
                LET e == lists[h][i]
                    behind == SubSeq(lists[h], i+1, Len(lists[h]))
                IN  /\ list_for_each_entry_from(links, h, e) = <<e>> \o behind
                    /\ list_for_each_entry_continue(links, h, e) = behind
                    /\ list_for_each_entry_continue_reverse(links, h, e)
                         = Reverse(SubSeq(lists[h], 1, i-1))
  BY DEF ListsAreSequences
<1> DEFINE s == lists[h]  d == Reverse(s)  n == Len(s)
<1>1. h \in Heads \ stale /\ s \in Seq(Entries) /\ Linked(links, h, s) /\ n \in Nat
      /\ DOMAIN s = 1 .. n
  BY DEF ListsOk, Fresh
<1>2. Directed(s, "next") = s /\ Directed(s, "prev") = d
  BY DEF Directed
<1>3. d \in Seq(Entries) /\ Len(d) = n
  BY <1>1, <1>2, DirectedIs
<1>4. \A j \in 0 .. n : list_walk(links, h, CellAt(h, s, j+1), "next") = SubSeq(s, j+1, n)
  BY <1>1, <1>2, WalkSees
<1>5. \A j \in 0 .. n : list_walk(links, h, CellAt(h, d, j+1), "prev") = SubSeq(d, j+1, n)
  <2>1. \A j \in 0 .. n : list_walk(links, h, CellAt(h, Directed(s, "prev"), j+1), "prev")
                            = SubSeq(Directed(s, "prev"), j+1, n)
    BY <1>1, WalkSees
  <2> HIDE DEF d
  <2> QED  BY <1>2, <2>1
<1>6. \A j \in 0 .. n : links[CellAt(h, s, j)].next = CellAt(h, s, j+1)
  BY <1>1 DEF Linked
<1>7. \A j \in 0 .. n : links[CellAt(h, d, j)].prev = CellAt(h, d, j+1)
  <2>1. \A j \in 0 .. n : links[CellAt(h, Directed(s, "prev"), j)]["prev"]
                            = CellAt(h, Directed(s, "prev"), j+1)
    BY <1>1, RingSteps
  <2> HIDE DEF d
  <2> QED  BY <1>2, <2>1
<1>8. CellAt(h, s, 0) = h /\ CellAt(h, d, 0) = h /\ 0 \in 0 .. n /\ 0+1 = 1
  BY <1>1 DEF CellAt
<1>9. list_for_each(links, h) = s
  <2>1. list_for_each(links, h) = SubSeq(s, 1, n)
    BY <1>4, <1>6, <1>8 DEF list_for_each
  <2> QED  BY <1>1, <2>1, SubSeqFull
<1>10. list_for_each_prev(links, h) = d
  <2> HIDE DEF d
  <2>1. list_for_each_prev(links, h) = SubSeq(d, 1, Len(d))
    BY <1>3, <1>5, <1>7, <1>8 DEF list_for_each_prev
  <2> QED  BY <1>3, <2>1, SubSeqFull
<1>11. ASSUME NEW i \in 1 .. n
       PROVE  /\ list_for_each_entry_from(links, h, s[i]) = <<s[i]>> \o SubSeq(s, i+1, n)
              /\ list_for_each_entry_continue(links, h, s[i]) = SubSeq(s, i+1, n)
              /\ list_for_each_entry_continue_reverse(links, h, s[i])
                   = Reverse(SubSeq(s, 1, i-1))
  <2>1. CellAt(h, s, i) = s[i] /\ i \in 0 .. n /\ i-1 \in 0 .. n /\ (i-1)+1 = i
    BY <1>1 DEF CellAt
  <2>2. list_for_each_entry_from(links, h, s[i]) = <<s[i]>> \o SubSeq(s, i+1, n)
    <3>1. list_for_each_entry_from(links, h, s[i]) = SubSeq(s, i, n)
      BY <1>4, <2>1 DEF list_for_each_entry_from
    <3>2. i \in 1 .. Len(s) /\ Len(s) \in i .. Len(s)
      BY <1>1
    <3> QED  BY <1>1, <3>1, <3>2, SubSeqRecursiveFirst
  <2>3. list_for_each_entry_continue(links, h, s[i]) = SubSeq(s, i+1, n)
    BY <1>4, <1>6, <2>1 DEF list_for_each_entry_continue
  <2>4. list_for_each_entry_continue_reverse(links, h, s[i]) = SubSeq(d, (n + 1 - i) + 1, n)
    <3>1. n + 1 - i \in 0 .. n /\ n + 1 - i \in 0 .. n + 1 /\ n + 1 - (n + 1 - i) = i
      BY <1>1
    <3>2. CellAt(h, Directed(s, "prev"), n + 1 - i) = CellAt(h, s, n + 1 - (n + 1 - i))
      BY <1>1, <3>1, DirectedCells
    <3>3. CellAt(h, d, n + 1 - i) = s[i]
      BY <1>2, <2>1, <3>1, <3>2
    <3> HIDE DEF d
    <3>4. links[s[i]].prev = CellAt(h, d, (n + 1 - i) + 1)
      BY <1>7, <3>1, <3>3
    <3> QED  BY <1>5, <3>1, <3>4 DEF list_for_each_entry_continue_reverse
  <2>5. SubSeq(d, (n + 1 - i) + 1, n) = Reverse(SubSeq(s, 1, i-1))
    BY <1>1, ReverseOfFirst
  <2> QED  BY <2>2, <2>3, <2>4, <2>5
<1> QED  BY <1>1, <1>9, <1>10, <1>11

LEMMA TestsAnswer ==
  ASSUME ListsOk(links, lists, stale)
  PROVE  ListTestsRight
<1> SUFFICES ASSUME NEW h \in Fresh
    PROVE  /\ list_empty(links, h) = (lists[h] = <<>>)
           /\ list_empty_careful(links, h) = (lists[h] = <<>>)
           /\ list_is_singular(links, h) = (Len(lists[h]) = 1)
           /\ list_first_entry_or_null(links, h) =
                (IF lists[h] = <<>> THEN "NULL" ELSE Head(lists[h]))
           /\ \A e \in On(h) : list_is_last(links, e, h) = (e = Last(lists[h]))
  BY DEF ListTestsRight
<1> DEFINE s == lists[h]
<1>1. h \in Heads \ stale /\ lists \in [Heads -> Seq(Entries)] /\ s \in Seq(Entries)
      /\ Linked(links, h, s) /\ Len(s) \in Nat /\ Once(s)
  BY ApartOnce DEF ListsOk, Fresh
<1>2. /\ links[h].next = CellAt(h, s, 1) /\ links[h].prev = CellAt(h, s, Len(s))
      /\ list_empty(links, h) <=> s = <<>>
      /\ list_is_singular(links, h) <=> Len(s) = 1
  BY <1>1, EmptyIs
<1>3. list_empty(links, h) = (s = <<>>)
  BY <1>2 DEF list_empty
<1>4. list_empty_careful(links, h) = (s = <<>>)
  <2>1. s = <<>> => CellAt(h, s, 1) = CellAt(h, s, Len(s))
    BY DEF CellAt
  <2> QED  BY <1>2, <2>1 DEF list_empty, list_empty_careful
<1>5. list_is_singular(links, h) = (Len(s) = 1)
  BY <1>2 DEF list_is_singular
<1>6. list_first_entry_or_null(links, h) = IF s = <<>> THEN "NULL" ELSE Head(s)
  <2>1. s # <<>> => CellAt(h, s, 1) = Head(s)
    BY <1>1 DEF CellAt
  <2> QED  BY <1>2, <2>1 DEF list_first_entry_or_null
<1>7. ASSUME NEW e \in On(h) PROVE list_is_last(links, e, h) = (e = Last(s))
  <2>1. PICK i \in 1 .. Len(s) : s[i] = e
    BY <1>1, OnIs
  <2>2. /\ \A k \in 1 .. Len(s) : CellAt(h, s, k) = s[k]
        /\ CellAt(h, s, Len(s) + 1) = h
        /\ \A j, k \in 1 .. Len(s) + 1 : CellAt(h, s, j) = CellAt(h, s, k) => j = k
    BY <1>1, CellsDiffer
  <2>3. i \in 0 .. Len(s) /\ i+1 \in 1 .. Len(s) + 1 /\ Len(s) + 1 \in 1 .. Len(s) + 1
        /\ Len(s) \in 1 .. Len(s)
    BY <1>1, <2>1
  <2>4. links[e].next = CellAt(h, s, i+1)
    BY <1>1, <2>1, <2>2, <2>3 DEF Linked
  <2>5. links[e].next = h <=> i = Len(s)
    BY <1>1, <2>2, <2>3, <2>4
  <2>6. e = Last(s) <=> i = Len(s)
    BY <1>1, <2>1, <2>3 DEF Last, Once
  <2> QED  BY <2>5, <2>6 DEF list_is_last
<1> QED  BY <1>3, <1>4, <1>5, <1>6, <1>7
-----------------------------------------------------------------------------
LEMMA ListInvInit ==
  ListInit => ListInv
<1> SUFFICES ASSUME ListInit PROVE ListInv
  OBVIOUS
<1>1. links \in Links
  BY DEF ListInit, Links, Mem
<1>2. lists \in [Heads -> Seq(Entries)] /\ \A h \in Heads : lists[h] = <<>>
  BY DEF ListInit
<1>3. Apart(lists)
  BY <1>2 DEF Apart
<1>4. ASSUME NEW h \in Heads PROVE Linked(links, h, lists[h])
  <2>1. \A i \in Int : CellAt(h, lists[h], i) = h
    BY <1>2 DEF CellAt
  <2>2. links[h].next = h /\ links[h].prev = h
    BY DEF ListInit, Cells
  <2> QED  BY <1>2, <2>1, <2>2 DEF Linked
<1>5. ListsOk(links, lists, stale)
  BY <1>1, <1>2, <1>3, <1>4 DEF ListsOk, ListInit
<1>6. LoopInv
  BY DEF LoopInv, ListInit
<1> QED  BY <1>5, <1>6 DEF ListInv

LEMMA ListInvNext ==
  ListInv /\ [ListNext]_listVars => ListInv'
<1> SUFFICES ASSUME ListInv, [ListNext]_listVars
             PROVE  ListsOk(links', lists', stale') /\ LoopInv'
  BY DEF ListInv, ListsOk, Links, Linked, Apart, CellAt, Mem, Cells
<1>1. ListsOk(links, lists, stale) /\ LoopInv
  BY DEF ListInv
<1>2. ASSUME iter' = NoLoop PROVE LoopInv'
  BY <1>2 DEF LoopInv, NoLoop
<1>3. CASE Add \/ Delete \/ Replace \/ Move \/ Rotate \/ Cut \/ Splice
  BY <1>1, <1>2, <1>3, AddKeeps, DeleteKeeps, ReplaceKeeps, MoveKeeps, RotateKeeps, CutKeeps,
     SpliceKeeps
<1>4. CASE Reset
  BY <1>1, <1>4, ResetKeeps
<1>5. CASE \E h \in Fresh, dir \in {"next", "prev"} : LoopBegin(h, dir)
  BY <1>1, <1>5, LoopBeginKeeps
<1>6. CASE LoopBody
  BY <1>1, <1>6, LoopBodyKeeps
<1>7. CASE LoopEnd
  <2>1. links' = links /\ lists' = lists /\ stale' = stale /\ iter' = NoLoop
    BY <1>7 DEF LoopEnd
  <2> QED  BY <1>1, <1>2, <2>1
<1>8. CASE UNCHANGED listVars
  <2>1. links' = links /\ lists' = lists /\ stale' = stale /\ iter' = iter
    BY <1>8 DEF listVars
  <2>2. Fresh' = Fresh
    BY <2>1 DEF Fresh
  <2> QED  BY <1>1, <2>1, <2>2 DEF LoopInv, NoLoop
<1> QED  BY <1>3, <1>4, <1>5, <1>6, <1>7, <1>8 DEF ListNext

(* After any sequence of calls every loop and every test of linux_list.h   *)
(* sees exactly the entries the callers have put on a list, in order, for  *)
(* every number of entries and lists.                                      *)
THEOREM ListsAreRight == ListSpec => []ListsRight
<1>1. ListInv => ListsRight
  BY LoopsSee, TestsAnswer DEF ListInv, ListsRight
<1> QED  BY <1>1, ListInvInit, ListInvNext, PTL DEF ListSpec

(* A safe loop calls its body once for every entry the list held when it   *)
(* began, whatever the body does to the entry.                             *)
THEOREM SafeLoops == ListSpec => []SafeLoopVisitsAll
<1>1. ListInv => SafeLoopVisitsAll
  <2> SUFFICES ASSUME ListInv, iter # NoLoop
      PROVE  IF iter.todo = <<>> THEN iter.pos = iter.head ELSE iter.pos = Head(iter.todo)
    BY DEF SafeLoopVisitsAll
  <2> DEFINE t == iter.todo
  <2>1. t \in Seq(Entries) /\ iter.pos = CellAt(iter.head, t, 1)
    BY DEF ListInv, LoopInv
  <2> HIDE DEF t
  <2>2. t = <<>> => CellAt(iter.head, t, 1) = iter.head
    BY DEF CellAt
  <2>3. t # <<>> => CellAt(iter.head, t, 1) = Head(t)
    BY <2>1 DEF CellAt
  <2> QED  BY <2>1, <2>2, <2>3 DEF t
<1> QED  BY <1>1, ListInvInit, ListInvNext, PTL DEF ListSpec
-----------------------------------------------------------------------------
(* The hash chains.  The slots of a chain, its head's at 0, and what they  *)
(* hold.                                                                   *)
SlotAt(h, s, i) == IF i = 0 THEN first(h) ELSE next(s[i])
NodeAt(s, i) == IF i \in 1 .. Len(s) THEN s[i] ELSE NULL

Ends == Nodes \union {NULL}
Held == Nodes \union {NULL, "poison1"}
Addresses == Slots \union {NoSlot, PoisonSlot}
HMemory == [at : [Slots -> Held], pprev : [Nodes -> Addresses]]

Chained(m, h, s) ==
  /\ \A i \in 0 .. Len(s) : m.at[SlotAt(h, s, i)] = NodeAt(s, i+1)
  /\ \A i \in 1 .. Len(s) : m.pprev[s[i]] = SlotAt(h, s, i-1)

Separate(c) ==
  \A h, g \in Buckets : \A i \in 1 .. Len(c[h]) : \A j \in 1 .. Len(c[g]) :
    c[h][i] = c[g][j] => h = g /\ i = j

Unhashed(c, n) == \A h \in Buckets : \A i \in 1 .. Len(c[h]) : c[h][i] # n

(* A node on no chain points nowhere, or is faked and points at itself.    *)
Loose(m, n) ==
  m.pprev[n] \in {NoSlot, PoisonSlot} \/ (m.pprev[n] = next(n) /\ m.at[next(n)] = NULL)

ChainsOk(m, c) ==
  /\ m \in HMemory
  /\ c \in [Buckets -> Seq(Nodes)]
  /\ Separate(c)
  /\ \A h \in Buckets : Chained(m, h, c[h])
  /\ \A n \in Nodes : Unhashed(c, n) => Loose(m, n)

(* What a loop has still to visit is the rest of a chain.                  *)
HLoopInv ==
  hiter # HNoLoop =>
    /\ hiter.todo \in Seq(Nodes)
    /\ \E h \in Buckets : Rest(hiter.todo, chains[h])
    /\ hiter.n = NodeAt(hiter.todo, 1)

HlistInv == ChainsOk(hmem, chains) /\ HLoopInv

LEMMA SlotsDiffer ==
  /\ \A h \in Buckets : first(h) \in Slots
  /\ \A n \in Nodes : next(n) \in Slots
  /\ \A h, n : first(h) # next(n)
  /\ \A h, g : first(h) = first(g) => h = g
  /\ \A n, k : next(n) = next(k) => n = k
  /\ NoSlot \notin Slots /\ PoisonSlot \notin Slots /\ NoSlot # PoisonSlot
<1>1. \A h, n : first(h) # next(n)
  BY DEF first, next
<1>2. \A h, g : first(h) = first(g) => h = g
  BY DEF first
<1>3. \A n, k : next(n) = next(k) => n = k
  BY DEF next
<1>4. \A h : NoSlot # first(h) /\ NoSlot # next(h) /\ PoisonSlot # first(h) /\ PoisonSlot # next(h)
  <2>1. \A h : Len(first(h)) = 2 /\ Len(next(h)) = 2
    BY DEF first, next
  <2>2. Len(NoSlot) = 1 /\ Len(PoisonSlot) = 1
    BY DEF NoSlot, PoisonSlot
  <2> QED  BY <2>1, <2>2
<1>5. NoSlot # PoisonSlot
  BY DEF NoSlot, PoisonSlot
<1>6. NoSlot \notin Slots /\ PoisonSlot \notin Slots
  BY <1>4 DEF Slots
<1>7. (\A h \in Buckets : first(h) \in Slots) /\ (\A n \in Nodes : next(n) \in Slots)
  BY DEF Slots
<1> QED  BY <1>1, <1>2, <1>3, <1>5, <1>6, <1>7

LEMMA ChainSlots ==
  ASSUME NEW h \in Buckets, NEW s \in Seq(Nodes), Once(s)
  PROVE  /\ SlotAt(h, s, 0) = first(h)
         /\ \A i \in 1 .. Len(s) : SlotAt(h, s, i) = next(s[i]) /\ s[i] \in Nodes
         /\ \A i \in 0 .. Len(s) : SlotAt(h, s, i) \in Slots
         /\ \A i, j \in 0 .. Len(s) : SlotAt(h, s, i) = SlotAt(h, s, j) => i = j
<1>1. SlotAt(h, s, 0) = first(h)
  BY DEF SlotAt
<1>2. \A i \in 1 .. Len(s) : SlotAt(h, s, i) = next(s[i]) /\ s[i] \in Nodes
  BY DEF SlotAt
<1>3. \A i \in 0 .. Len(s) : i = 0 \/ i \in 1 .. Len(s)
  OBVIOUS
<1>4. \A i \in 0 .. Len(s) : SlotAt(h, s, i) \in Slots
  BY <1>1, <1>2, <1>3, SlotsDiffer
<1>5. \A i, j \in 0 .. Len(s) : SlotAt(h, s, i) = SlotAt(h, s, j) => i = j
  BY <1>1, <1>2, <1>3, SlotsDiffer DEF Once
<1> QED  BY <1>1, <1>2, <1>4, <1>5

LEMMA SeparateOnce ==
  ASSUME NEW c, Separate(c), NEW h \in Buckets
  PROVE  Once(c[h])
BY DEF Separate, Once

(* Chains share no slot and no node, and neither has what is on no chain.  *)
LEMMA SlotsApart ==
  ASSUME NEW c \in [Buckets -> Seq(Nodes)], Separate(c),
         NEW h \in Buckets, NEW g \in Buckets, h # g,
         NEW i \in 0 .. Len(c[h]), NEW j \in 0 .. Len(c[g])
  PROVE  SlotAt(h, c[h], i) # SlotAt(g, c[g], j)
<1>1. Once(c[h]) /\ Once(c[g])
  BY SeparateOnce
<1>2. (i = 0 \/ i \in 1 .. Len(c[h])) /\ (j = 0 \/ j \in 1 .. Len(c[g]))
  OBVIOUS
<1>3. SlotAt(h, c[h], i) = IF i = 0 THEN first(h) ELSE next(c[h][i])
  BY DEF SlotAt
<1>4. SlotAt(g, c[g], j) = IF j = 0 THEN first(g) ELSE next(c[g][j])
  BY DEF SlotAt
<1> QED  BY <1>2, <1>3, <1>4, SlotsDiffer DEF Separate

LEMMA SlotOfUnhashed ==
  ASSUME NEW c \in [Buckets -> Seq(Nodes)], NEW n, Unhashed(c, n),
         NEW h \in Buckets, NEW i \in 0 .. Len(c[h])
  PROVE  SlotAt(h, c[h], i) # next(n)
<1>1. i = 0 \/ i \in 1 .. Len(c[h])
  OBVIOUS
<1> QED  BY <1>1, SlotsDiffer DEF SlotAt, Unhashed

LEMMA ChainUntouched ==
  ASSUME NEW m, NEW r, NEW h \in Buckets, NEW s \in Seq(Nodes), Chained(m, h, s),
         \A i \in 0 .. Len(s) : r.at[SlotAt(h, s, i)] = m.at[SlotAt(h, s, i)],
         \A i \in 1 .. Len(s) : r.pprev[s[i]] = m.pprev[s[i]]
  PROVE  Chained(r, h, s)
BY DEF Chained

(* One store through a slot, and to a pprev.                               *)
SetAt(m, x, v) == [m EXCEPT !.at[x] = v]

LEMMA AtWrite ==
  ASSUME NEW m \in HMemory, NEW x \in Slots, NEW v \in Held
  PROVE  /\ SetAt(m, x, v) \in HMemory
         /\ \A y \in Slots : SetAt(m, x, v).at[y] = IF y = x THEN v ELSE m.at[y]
         /\ \A k \in Nodes : SetAt(m, x, v).pprev[k] = m.pprev[k]
BY DEF SetAt, HMemory

LEMMA PprevWrite ==
  ASSUME NEW m \in HMemory, NEW n \in Ends, NEW a \in Addresses
  PROVE  /\ SetPprev(m, n, a) \in HMemory
         /\ \A y \in Slots : SetPprev(m, n, a).at[y] = m.at[y]
         /\ \A k \in Nodes : SetPprev(m, n, a).pprev[k] = IF k = n THEN a ELSE m.pprev[k]
<1>1. NULL \notin Nodes
  BY HlistAssumption DEF NULL
<1>2. CASE n = NULL
  BY <1>1, <1>2 DEF SetPprev
<1>3. CASE n \in Nodes
  BY <1>1, <1>3 DEF SetPprev, HMemory
<1> QED  BY <1>2, <1>3 DEF Ends
-----------------------------------------------------------------------------
(* The three ways to add a node leave the same memory: n is held by slot x *)
(* and holds what x held.                                                  *)
Entered(m, r, n, x) ==
  /\ r \in HMemory
  /\ \A y \in Slots : r.at[y] = IF y = x THEN n ELSE IF y = next(n) THEN m.at[x] ELSE m.at[y]
  /\ \A k \in Nodes : r.pprev[k] = IF k = n THEN x ELSE IF k = m.at[x] THEN next(n) ELSE m.pprev[k]

LEMMA AddHeadWrites ==
  ASSUME NEW m \in HMemory, NEW n \in Nodes, NEW h \in Buckets,
         NEW o \in Ends, m.at[first(h)] = o, o # n
  PROVE  Entered(m, hlist_add_head(m, n, h), n, first(h))
<1> DEFINE x == first(h)  y0 == next(n)
           m1 == SetAt(m, y0, o)  m2 == SetPprev(m1, o, y0)
           m3 == SetAt(m2, x, n)  m4 == SetPprev(m3, n, x)
<1>1. x \in Slots /\ y0 \in Slots /\ x # y0
  BY SlotsDiffer
<1>2. x \in Addresses /\ y0 \in Addresses /\ o \in Held /\ n \in Held /\ n \in Ends
      /\ n # NULL
  BY <1>1, HlistAssumption DEF Addresses, Held, Ends, NULL
<1>3. hlist_add_head(m, n, h) = m4
  BY <1>2 DEF hlist_add_head, SetAt, SetPprev
<1> HIDE DEF x, y0
<1>4. /\ m1 \in HMemory
      /\ \A y \in Slots : m1.at[y] = IF y = y0 THEN o ELSE m.at[y]
      /\ \A k \in Nodes : m1.pprev[k] = m.pprev[k]
  BY <1>1, <1>2, AtWrite DEF m1
<1> HIDE DEF m1
<1>5. /\ m2 \in HMemory
      /\ \A y \in Slots : m2.at[y] = m1.at[y]
      /\ \A k \in Nodes : m2.pprev[k] = IF k = o THEN y0 ELSE m1.pprev[k]
  BY <1>2, <1>4, PprevWrite DEF m2
<1> HIDE DEF m2
<1>6. /\ m3 \in HMemory
      /\ \A y \in Slots : m3.at[y] = IF y = x THEN n ELSE m2.at[y]
      /\ \A k \in Nodes : m3.pprev[k] = m2.pprev[k]
  BY <1>1, <1>2, <1>5, AtWrite DEF m3
<1> HIDE DEF m3
<1>7. /\ m4 \in HMemory
      /\ \A y \in Slots : m4.at[y] = m3.at[y]
      /\ \A k \in Nodes : m4.pprev[k] = IF k = n THEN x ELSE m3.pprev[k]
  BY <1>2, <1>6, PprevWrite DEF m4
<1> HIDE DEF m4
<1>8. m.at[x] = o
  BY DEF x
<1>9. Entered(m, m4, n, x)
  BY <1>1, <1>4, <1>5, <1>6, <1>7, <1>8 DEF Entered, y0
<1> QED  BY <1>3, <1>9 DEF x

LEMMA AddBeforeWrites ==
  ASSUME NEW m \in HMemory, NEW n \in Nodes, NEW o \in Nodes, NEW x \in Slots,
         m.pprev[o] = x, m.at[x] = o, o # n, x # next(n)
  PROVE  Entered(m, hlist_add_before(m, n, o), n, x)
<1> DEFINE y0 == next(n)
           m1 == SetPprev(m, n, x)  m2 == SetAt(m1, y0, o)
           m3 == SetPprev(m2, o, y0)  m4 == SetAt(m3, x, n)
<1>1. y0 \in Slots /\ x # y0
  BY SlotsDiffer
<1>2. x \in Addresses /\ y0 \in Addresses /\ o \in Held /\ n \in Held /\ n \in Ends
      /\ o \in Ends /\ n # NULL /\ o # NULL
  BY <1>1, HlistAssumption DEF Addresses, Held, Ends, NULL
<1>3. hlist_add_before(m, n, o) = m4
  BY <1>2 DEF hlist_add_before, SetAt, SetPprev
<1> HIDE DEF y0
<1>4. /\ m1 \in HMemory
      /\ \A y \in Slots : m1.at[y] = m.at[y]
      /\ \A k \in Nodes : m1.pprev[k] = IF k = n THEN x ELSE m.pprev[k]
  BY <1>2, PprevWrite DEF m1
<1> HIDE DEF m1
<1>5. /\ m2 \in HMemory
      /\ \A y \in Slots : m2.at[y] = IF y = y0 THEN o ELSE m1.at[y]
      /\ \A k \in Nodes : m2.pprev[k] = m1.pprev[k]
  BY <1>1, <1>2, <1>4, AtWrite DEF m2
<1> HIDE DEF m2
<1>6. /\ m3 \in HMemory
      /\ \A y \in Slots : m3.at[y] = m2.at[y]
      /\ \A k \in Nodes : m3.pprev[k] = IF k = o THEN y0 ELSE m2.pprev[k]
  BY <1>2, <1>5, PprevWrite DEF m3
<1> HIDE DEF m3
<1>7. /\ m4 \in HMemory
      /\ \A y \in Slots : m4.at[y] = IF y = x THEN n ELSE m3.at[y]
      /\ \A k \in Nodes : m4.pprev[k] = m3.pprev[k]
  BY <1>2, <1>6, AtWrite DEF m4
<1> HIDE DEF m4
<1>8. Entered(m, m4, n, x)
  BY <1>1, <1>4, <1>5, <1>6, <1>7 DEF Entered, y0
<1> QED  BY <1>3, <1>8

LEMMA AddBehindWrites ==
  ASSUME NEW m \in HMemory, NEW n \in Nodes, NEW p \in Nodes, p # n,
         NEW o \in Ends, m.at[next(p)] = o, o # n
  PROVE  Entered(m, hlist_add_behind(m, n, p), n, next(p))
<1> DEFINE x == next(p)  y0 == next(n)
           m1 == SetAt(m, y0, o)  m2 == SetAt(m1, x, n)
           m3 == SetPprev(m2, n, x)  m4 == SetPprev(m3, o, y0)
<1>1. x \in Slots /\ y0 \in Slots /\ x # y0
  BY SlotsDiffer
<1>2. x \in Addresses /\ y0 \in Addresses /\ o \in Held /\ n \in Held /\ n \in Ends
      /\ n # NULL
  BY <1>1, HlistAssumption DEF Addresses, Held, Ends, NULL
<1>3. hlist_add_behind(m, n, p) = m4
  BY <1>2 DEF hlist_add_behind, SetAt, SetPprev
<1>8. m.at[x] = o
  OBVIOUS
<1> HIDE DEF x, y0
<1>4. /\ m1 \in HMemory
      /\ \A y \in Slots : m1.at[y] = IF y = y0 THEN o ELSE m.at[y]
      /\ \A k \in Nodes : m1.pprev[k] = m.pprev[k]
  BY <1>1, <1>2, AtWrite DEF m1
<1> HIDE DEF m1
<1>5. /\ m2 \in HMemory
      /\ \A y \in Slots : m2.at[y] = IF y = x THEN n ELSE m1.at[y]
      /\ \A k \in Nodes : m2.pprev[k] = m1.pprev[k]
  BY <1>1, <1>2, <1>4, AtWrite DEF m2
<1> HIDE DEF m2
<1>6. /\ m3 \in HMemory
      /\ \A y \in Slots : m3.at[y] = m2.at[y]
      /\ \A k \in Nodes : m3.pprev[k] = IF k = n THEN x ELSE m2.pprev[k]
  BY <1>2, <1>5, PprevWrite DEF m3
<1> HIDE DEF m3
<1>7. /\ m4 \in HMemory
      /\ \A y \in Slots : m4.at[y] = m3.at[y]
      /\ \A k \in Nodes : m4.pprev[k] = IF k = o THEN y0 ELSE m3.pprev[k]
  BY <1>2, <1>6, PprevWrite DEF m4
<1> HIDE DEF m4
<1>9. Entered(m, m4, n, x)
  BY <1>1, <1>4, <1>5, <1>6, <1>7, <1>8 DEF Entered, y0
<1> QED  BY <1>3, <1>9 DEF x

(* What list_del leaves of a node held by slot x: its successor o in x.    *)
Left(m, r, n, x, o) ==
  /\ r \in HMemory
  /\ r.pprev[n] \in {NoSlot, PoisonSlot}
  /\ \A y \in Slots \ {next(n)} : r.at[y] = IF y = x THEN o ELSE m.at[y]
  /\ \A k \in Nodes \ {n} : r.pprev[k] = IF k = o THEN x ELSE m.pprev[k]

LEMMA DelWrites ==
  ASSUME NEW m \in HMemory, NEW n \in Nodes, NEW x \in Slots, m.pprev[n] = x,
         NEW o \in Ends, m.at[next(n)] = o
  PROVE  /\ Left(m, hlist_del(m, n), n, x, o)
         /\ Left(m, hlist_del_init(m, n), n, x, o)
<1> DEFINE y0 == next(n)  m1 == SetAt(m, x, o)  m2 == SetPprev(m1, o, x)
           r(v, a) == SetPprev(SetAt(m2, y0, v), n, a)
<1>1. y0 \in Slots
  BY SlotsDiffer
<1>2. x \in Addresses /\ o \in Held /\ n \in Ends /\ n # NULL
      /\ NULL \in Held /\ "poison1" \in Held /\ NoSlot \in Addresses /\ PoisonSlot \in Addresses
  BY HlistAssumption DEF Addresses, Held, Ends, NULL
<1>3. hlist_unlink(m, n) = m2
  BY DEF hlist_unlink, SetAt, y0
<1>4. hlist_del(m, n) = r("poison1", PoisonSlot)
  BY <1>2, <1>3 DEF hlist_del, SetAt, SetPprev
<1>5. hlist_del_init(m, n) = r(NULL, NoSlot)
  <2>1. ~hlist_unhashed(m, n)
    BY SlotsDiffer DEF hlist_unhashed
  <2> QED  BY <1>2, <1>3, <2>1 DEF hlist_del_init, INIT_HLIST_NODE, SetAt, SetPprev
<1>6. /\ m1 \in HMemory
      /\ \A y \in Slots : m1.at[y] = IF y = x THEN o ELSE m.at[y]
      /\ \A k \in Nodes : m1.pprev[k] = m.pprev[k]
  BY <1>2, AtWrite DEF m1
<1> HIDE DEF m1, y0
<1>7. /\ m2 \in HMemory
      /\ \A y \in Slots : m2.at[y] = m1.at[y]
      /\ \A k \in Nodes : m2.pprev[k] = IF k = o THEN x ELSE m1.pprev[k]
  BY <1>2, <1>6, PprevWrite DEF m2
<1> HIDE DEF m2
<1>8. ASSUME NEW v \in Held, NEW a \in {NoSlot, PoisonSlot} PROVE Left(m, r(v, a), n, x, o)
  <2> DEFINE m3 == SetAt(m2, y0, v)  m4 == SetPprev(m3, n, a)
  <2>1. /\ m3 \in HMemory
        /\ \A y \in Slots : m3.at[y] = IF y = y0 THEN v ELSE m2.at[y]
        /\ \A k \in Nodes : m3.pprev[k] = m2.pprev[k]
    BY <1>1, <1>7, AtWrite DEF m3
  <2> HIDE DEF m3
  <2>2. a \in Addresses /\ n \in Ends /\ m3 \in HMemory
    BY <1>2, <2>1
  <2>3. /\ m4 \in HMemory
        /\ \A y \in Slots : m4.at[y] = m3.at[y]
        /\ \A k \in Nodes : m4.pprev[k] = IF k = n THEN a ELSE m3.pprev[k]
    BY ONLY <2>2, PprevWrite DEF m4
  <2> HIDE DEF m4
  <2>4. Left(m, m4, n, x, o)
    BY <1>6, <1>7, <2>1, <2>3 DEF Left, y0
  <2> QED  BY <2>4 DEF m3, m4
<1> QED  BY <1>2, <1>4, <1>5, <1>8
-----------------------------------------------------------------------------
(* One chain gets nodes it had, or that no chain had.                      *)
LEMMA SeparateOne ==
  ASSUME NEW c \in [Buckets -> Seq(Nodes)], Separate(c), NEW h \in Buckets,
         NEW q \in Seq(Nodes), Once(q),
         \A k \in 1 .. Len(q) : Unhashed(c, q[k]) \/ \E j \in 1 .. Len(c[h]) : q[k] = c[h][j]
  PROVE  Separate([c EXCEPT ![h] = q])
<1> DEFINE c2 == [c EXCEPT ![h] = q]
<1>1. c2[h] = q /\ \A g \in Buckets \ {h} : c2[g] = c[g]
  OBVIOUS
<1>2. ASSUME NEW g \in Buckets \ {h}, NEW k \in 1 .. Len(q), NEW j \in 1 .. Len(c[g])
      PROVE  q[k] # c[g][j]
  <2>1. CASE Unhashed(c, q[k])
    BY <2>1 DEF Unhashed
  <2>2. CASE \E i \in 1 .. Len(c[h]) : q[k] = c[h][i]
    <3>1. PICK i \in 1 .. Len(c[h]) : q[k] = c[h][i]
      BY <2>2
    <3>2. c[h][i] # c[g][j]
      BY DEF Separate
    <3> QED  BY <3>1, <3>2
  <2> QED  BY <2>1, <2>2
<1> HIDE DEF c2
<1>3. ASSUME NEW f \in Buckets, NEW g \in Buckets,
             NEW k \in 1 .. Len(c2[f]), NEW j \in 1 .. Len(c2[g]), c2[f][k] = c2[g][j]
      PROVE  f = g /\ k = j
  <2>1. CASE f = h /\ g = h
    BY <2>1, <1>1, <1>3 DEF Once
  <2>2. CASE f = h /\ g # h
    BY <2>2, <1>1, <1>2, <1>3
  <2>3. CASE f # h /\ g = h
    BY <2>3, <1>1, <1>2, <1>3
  <2>4. CASE f # h /\ g # h
    <3>1. c2[f] = c[f] /\ c2[g] = c[g]
      BY <2>4, <1>1
    <3> QED  BY <3>1, <1>3 DEF Separate
  <2> QED  BY <2>1, <2>2, <2>3, <2>4
<1> QED  BY <1>3 DEF Separate, c2

(* The slots and nodes of a chain with one put in.                         *)
LEMMA PutSlots ==
  ASSUME NEW h \in Buckets, NEW s \in Seq(Nodes), NEW n \in Nodes, NEW i \in 0 .. Len(s),
         NEW q, q = PutOne(s, i, n)
  PROVE  /\ q \in Seq(Nodes) /\ Len(q) = Len(s) + 1
         /\ \A k \in 1 .. i : q[k] = s[k]
         /\ q[i + 1] = n
         /\ \A k \in i+1 .. Len(s) : q[k + 1] = s[k]
         /\ \A k \in 0 .. i : SlotAt(h, q, k) = SlotAt(h, s, k)
         /\ SlotAt(h, q, i + 1) = next(n)
         /\ \A k \in i+1 .. Len(s) : SlotAt(h, q, k + 1) = SlotAt(h, s, k)
         /\ \A k \in 1 .. i : NodeAt(q, k) = NodeAt(s, k)
         /\ NodeAt(q, i + 1) = n
         /\ \A k \in i+1 .. Len(s) + 1 : NodeAt(q, k + 1) = NodeAt(s, k)
<1> DEFINE r == PutOne(s, i, n)
<1>0. /\ r \in Seq(Nodes)
      /\ Len(r) = Len(s) + 1
      /\ \A k \in 1 .. i : r[k] = s[k]
      /\ r[i + 1] = n
      /\ \A k \in i+1 .. Len(s) : r[k + 1] = s[k]
  <2>1. r \in Seq(Nodes) /\ Len(r) = Len(s) + 1
    BY PutOneIs
  <2>2. \A k \in 1 .. i : r[k] = s[k]
    BY PutOneIs
  <2>3. r[i + 1] = n
    BY PutOneIs
  <2>4. \A k \in i+1 .. Len(s) : r[k + 1] = s[k]
    BY PutOneIs
  <2> HIDE DEF r
  <2> QED  BY <2>1, <2>2, <2>3, <2>4
<1>a. q = r
  OBVIOUS
<1> HIDE DEF r
<1>1. /\ q \in Seq(Nodes) /\ Len(q) = Len(s) + 1 /\ Len(s) \in Nat
      /\ \A k \in 1 .. i : q[k] = s[k]
      /\ q[i + 1] = n
      /\ \A k \in i+1 .. Len(s) : q[k + 1] = s[k]
  BY <1>0, <1>a
<1>2. \A k \in 0 .. i : SlotAt(h, q, k) = SlotAt(h, s, k)
  BY <1>1 DEF SlotAt
<1>3. SlotAt(h, q, i + 1) = next(n)
  BY <1>1 DEF SlotAt
<1>4. \A k \in i+1 .. Len(s) : SlotAt(h, q, k + 1) = SlotAt(h, s, k)
  BY <1>1 DEF SlotAt
<1>5. \A k \in 1 .. i : NodeAt(q, k) = NodeAt(s, k)
  BY <1>1 DEF NodeAt
<1>6. NodeAt(q, i + 1) = n
  BY <1>1 DEF NodeAt
<1>7. \A k \in i+1 .. Len(s) + 1 : NodeAt(q, k + 1) = NodeAt(s, k)
  BY <1>1 DEF NodeAt
<1> QED  BY <1>1, <1>2, <1>3, <1>4, <1>5, <1>6, <1>7

LEMMA EnterOk ==
  ASSUME NEW m, NEW c, ChainsOk(m, c), NEW h \in Buckets, NEW n \in Nodes, Unhashed(c, n),
         NEW i \in 0 .. Len(c[h]), NEW r, Entered(m, r, n, SlotAt(h, c[h], i))
  PROVE  ChainsOk(r, [c EXCEPT ![h] = PutOne(c[h], i, n)])
<1> DEFINE s == c[h]  x == SlotAt(h, s, i)  q == PutOne(s, i, n)
           c2 == [c EXCEPT ![h] = q]
<1>1. /\ m \in HMemory /\ c \in [Buckets -> Seq(Nodes)] /\ Separate(c)
      /\ s \in Seq(Nodes) /\ Once(s) /\ Chained(m, h, s) /\ Len(s) \in Nat
      /\ \A k \in 1 .. Len(s) : s[k] # n
  BY SeparateOnce DEF ChainsOk, Unhashed
<1>2. /\ q \in Seq(Nodes) /\ Len(q) = Len(s) + 1
      /\ \A k \in 1 .. i : q[k] = s[k]
      /\ q[i + 1] = n
      /\ \A k \in i+1 .. Len(s) : q[k + 1] = s[k]
  <2>1. q \in Seq(Nodes) /\ Len(q) = Len(s) + 1
    BY <1>1, PutSlots
  <2>2. \A k \in 1 .. i : q[k] = s[k]
    BY <1>1, PutSlots
  <2>3. q[i + 1] = n
    BY <1>1, PutSlots
  <2>4. \A k \in i+1 .. Len(s) : q[k + 1] = s[k]
    BY <1>1, PutSlots
  <2> HIDE DEF q
  <2> QED  BY <2>1, <2>2, <2>3, <2>4
<1>3. /\ \A k \in 0 .. i : SlotAt(h, q, k) = SlotAt(h, s, k)
      /\ SlotAt(h, q, i + 1) = next(n)
      /\ \A k \in i+1 .. Len(s) : SlotAt(h, q, k + 1) = SlotAt(h, s, k)
  BY <1>1, PutSlots
<1>4. /\ \A k \in 1 .. i : NodeAt(q, k) = NodeAt(s, k)
      /\ NodeAt(q, i + 1) = n
      /\ \A k \in i+1 .. Len(s) + 1 : NodeAt(q, k + 1) = NodeAt(s, k)
  BY <1>1, PutSlots
<1>5. /\ \A k \in 1 .. Len(s) : SlotAt(h, s, k) = next(s[k]) /\ s[k] \in Nodes
      /\ \A k \in 0 .. Len(s) : SlotAt(h, s, k) \in Slots
      /\ \A j, k \in 0 .. Len(s) : SlotAt(h, s, j) = SlotAt(h, s, k) => j = k
  BY <1>1, ChainSlots
<1>6. \A k \in 0 .. Len(s) : SlotAt(h, s, k) # next(n)
  BY <1>1, SlotOfUnhashed
<1>7. m.at[x] = NodeAt(s, i+1) /\ x \in Slots /\ x # next(n) /\ next(n) \in Slots
  BY <1>1, <1>5, <1>6, SlotsDiffer DEF Chained
<1>8. \A k \in 1 .. Len(s) : s[k] = NodeAt(s, i+1) <=> k = i+1
  <2>1. NULL \notin Nodes
    BY HlistAssumption DEF NULL
  <2> QED  BY <2>1, <1>1, <1>5 DEF NodeAt, Once
<1> HIDE DEF q, x, c2
<1>9. /\ r \in HMemory
      /\ \A y \in Slots : r.at[y] = IF y = x THEN n ELSE IF y = next(n) THEN NodeAt(s, i+1) ELSE m.at[y]
      /\ \A k \in Nodes : r.pprev[k] = IF k = n THEN x ELSE IF k = NodeAt(s, i+1) THEN next(n)
                                       ELSE m.pprev[k]
  BY <1>7 DEF Entered, x
<1>10. ASSUME NEW k \in 0 .. Len(s), k # i PROVE r.at[SlotAt(h, s, k)] = NodeAt(s, k+1)
  <2>1. SlotAt(h, s, k) # x /\ SlotAt(h, s, k) # next(n) /\ SlotAt(h, s, k) \in Slots
    BY <1>5, <1>6, <1>10 DEF x
  <2>2. m.at[SlotAt(h, s, k)] = NodeAt(s, k+1)
    BY <1>1 DEF Chained
  <2> QED  BY <1>9, <2>1, <2>2
<1>11. ASSUME NEW k \in 1 .. Len(s), k # i+1 PROVE r.pprev[s[k]] = SlotAt(h, s, k-1)
  <2>1. s[k] \in Nodes /\ s[k] # n /\ s[k] # NodeAt(s, i+1)
    BY <1>1, <1>8, <1>11
  <2>2. m.pprev[s[k]] = SlotAt(h, s, k-1)
    BY <1>1 DEF Chained
  <2> QED  BY <1>9, <2>1, <2>2
<1>12. Chained(r, h, q)
  <2>1. ASSUME NEW k \in 0 .. Len(q) PROVE r.at[SlotAt(h, q, k)] = NodeAt(q, k+1)
    <3>1. CASE k < i
      <4>1. k \in 0 .. i /\ k \in 0 .. Len(s) /\ k # i /\ k+1 \in 1 .. i
        BY <3>1, <1>1
      <4> QED  BY <4>1, <1>3, <1>4, <1>10
    <3>2. CASE k = i
      <4>1. i \in 0 .. i
        BY <1>1
      <4> QED  BY <3>2, <4>1, <1>3, <1>4, <1>7, <1>9 DEF x
    <3>3. CASE k = i+1
      <4>1. i+1 \in i+1 .. Len(s)+1
        BY <1>1
      <4> QED  BY <3>3, <4>1, <1>3, <1>4, <1>7, <1>9
    <3>4. CASE k > i+1
      <4>1. k-1 \in i+1 .. Len(s) /\ (k-1)+1 = k /\ k-1 \in 0 .. Len(s) /\ k-1 # i
            /\ k \in i+1 .. Len(s)+1
        BY <3>4, <1>1, <1>2
      <4>2. SlotAt(h, q, k) = SlotAt(h, s, k-1) /\ NodeAt(q, k+1) = NodeAt(s, k)
        BY <4>1, <1>3, <1>4
      <4>3. r.at[SlotAt(h, s, k-1)] = NodeAt(s, k)
        BY <4>1, <1>10
      <4> QED  BY <4>2, <4>3
    <3>5. k < i \/ k = i \/ k = i+1 \/ k > i+1
      BY <1>2, <1>1
    <3> QED  BY <3>1, <3>2, <3>3, <3>4, <3>5
  <2>2. ASSUME NEW k \in 1 .. Len(q) PROVE r.pprev[q[k]] = SlotAt(h, q, k-1)
    <3>1. CASE k <= i
      <4>1. k \in 1 .. i /\ k \in 1 .. Len(s) /\ k # i+1 /\ k-1 \in 0 .. i
        BY <3>1, <1>1
      <4> QED  BY <4>1, <1>2, <1>3, <1>11
    <3>2. CASE k = i+1
      <4>1. i \in 0 .. i /\ k-1 = i
        BY <3>2, <1>1
      <4> QED  BY <3>2, <4>1, <1>2, <1>3, <1>9 DEF x
    <3>3. CASE k = i+2
      <4>1. i+1 \in i+1 .. Len(s) /\ (i+1)+1 = k /\ k-1 = i+1 /\ i+1 \in 1 .. Len(s)
        BY <3>3, <1>1, <1>2
      <4>2. q[k] = s[i+1] /\ s[i+1] = NodeAt(s, i+1) /\ s[i+1] # n /\ s[i+1] \in Nodes
        BY <4>1, <1>1, <1>2, <1>8
      <4> QED  BY <4>1, <4>2, <1>3, <1>9
    <3>4. CASE k > i+2
      <4>1. /\ k-1 \in i+1 .. Len(s) /\ (k-1)+1 = k /\ k-1 \in 1 .. Len(s) /\ k-1 # i+1
            /\ (k-1)-1 \in i+1 .. Len(s) /\ ((k-1)-1)+1 = k-1
        BY <3>4, <1>1, <1>2
      <4>2. q[k] = s[k-1] /\ SlotAt(h, q, k-1) = SlotAt(h, s, (k-1)-1)
        BY <4>1, <1>2, <1>3
      <4>3. r.pprev[s[k-1]] = SlotAt(h, s, (k-1)-1)
        BY <4>1, <1>11
      <4> QED  BY <4>2, <4>3
    <3>5. k <= i \/ k = i+1 \/ k = i+2 \/ k > i+2
      BY <1>2, <1>1
    <3> QED  BY <3>1, <3>2, <3>3, <3>4, <3>5
  <2> QED  BY <2>1, <2>2 DEF Chained
<1>13. c2[h] = q /\ c2 \in [Buckets -> Seq(Nodes)] /\ \A g \in Buckets \ {h} : c2[g] = c[g]
  BY <1>1, <1>2 DEF c2
<1>14. ASSUME NEW g \in Buckets \ {h} PROVE Chained(r, g, c[g])
  <2>1. Chained(m, g, c[g]) /\ c[g] \in Seq(Nodes)
    BY DEF ChainsOk
  <2>2. Once(c[g])
    BY <1>1, SeparateOnce
  <2>3. ASSUME NEW k \in 0 .. Len(c[g]) PROVE r.at[SlotAt(g, c[g], k)] = m.at[SlotAt(g, c[g], k)]
    <3>1. SlotAt(g, c[g], k) \in Slots
      BY <2>1, <2>2, ChainSlots
    <3>2. SlotAt(g, c[g], k) # next(n)
      BY <1>1, SlotOfUnhashed
    <3>3. SlotAt(g, c[g], k) # x
      BY <1>1, SlotsApart DEF x
    <3> QED  BY <3>1, <3>2, <3>3, <1>9
  <2>4. ASSUME NEW k \in 1 .. Len(c[g]) PROVE r.pprev[c[g][k]] = m.pprev[c[g][k]]
    <3>1. c[g][k] \in Nodes /\ c[g][k] # n /\ c[g][k] # NULL
      BY <2>1, HlistAssumption DEF Unhashed, NULL
    <3>2. c[g][k] # NodeAt(s, i+1)
      BY <3>1, <1>1 DEF NodeAt, Separate
    <3> QED  BY <3>1, <3>2, <1>9
  <2> QED  BY <2>1, <2>3, <2>4, ChainUntouched
<1>15. Separate(c2)
  <2>1. \A k \in 1 .. Len(q) : k # i+1 =>
          LET o == IF k <= i THEN k ELSE k-1 IN o \in 1 .. Len(s) /\ q[k] = s[o]
    <3> SUFFICES ASSUME NEW k \in 1 .. Len(q), k # i+1
                 PROVE  LET o == IF k <= i THEN k ELSE k-1 IN o \in 1 .. Len(s) /\ q[k] = s[o]
      OBVIOUS
    <3>1. CASE k <= i
      BY <3>1, <1>1, <1>2
    <3>2. CASE ~(k <= i)
      <4>1. k-1 \in i+1 .. Len(s) /\ (k-1)+1 = k /\ k-1 \in 1 .. Len(s)
        BY <3>2, <1>1, <1>2
      <4> QED  BY <3>2, <4>1, <1>2
    <3> QED  BY <3>1, <3>2
  <2>2. Once(q)
    <3> SUFFICES ASSUME NEW k \in 1 .. Len(q), NEW j \in 1 .. Len(q), q[k] = q[j] PROVE k = j
      BY DEF Once
    <3> DEFINE o(a) == IF a <= i THEN a ELSE a-1
    <3>1. CASE k # i+1 /\ j # i+1
      <4>1. o(k) \in 1 .. Len(s) /\ q[k] = s[o(k)] /\ o(j) \in 1 .. Len(s) /\ q[j] = s[o(j)]
        BY <3>1, <2>1
      <4>2. o(k) = o(j)
        BY <4>1, <1>1 DEF Once
      <4> QED  BY <4>2, <3>1, <1>2, <1>1
    <3>2. CASE k = i+1 /\ j # i+1
      <4>1. o(j) \in 1 .. Len(s) /\ q[j] = s[o(j)]
        BY <3>2, <2>1
      <4> QED  BY <3>2, <4>1, <1>1, <1>2
    <3>3. CASE k # i+1 /\ j = i+1
      <4>1. o(k) \in 1 .. Len(s) /\ q[k] = s[o(k)]
        BY <3>3, <2>1
      <4> QED  BY <3>3, <4>1, <1>1, <1>2
    <3> QED  BY <3>1, <3>2, <3>3
  <2>3. ASSUME NEW k \in 1 .. Len(q)
        PROVE  Unhashed(c, q[k]) \/ \E j \in 1 .. Len(c[h]) : q[k] = c[h][j]
    <3>1. CASE k = i+1
      BY <3>1, <1>2
    <3>2. CASE k # i+1
      BY <3>2, <2>1
    <3> QED  BY <3>1, <3>2
  <2> QED  BY <1>1, <1>2, <2>2, <2>3, SeparateOne DEF c2
<1>16. ASSUME NEW k \in Nodes, Unhashed(c2, k) PROVE Loose(r, k)
  <2>1. k # n /\ \A j \in 1 .. Len(s) : s[j] # k
    <3>1. i+1 \in 1 .. Len(q)
      BY <1>1, <1>2
    <3>2. \A j \in 1 .. Len(q) : q[j] # k
      BY <1>13, <1>16 DEF Unhashed
    <3>3. ASSUME NEW j \in 1 .. Len(s) PROVE s[j] # k
      <4>1. (j \in 1 .. i /\ j \in 1 .. Len(q)) \/ (j \in i+1 .. Len(s) /\ j+1 \in 1 .. Len(q))
        BY <1>1, <1>2
      <4> QED  BY <4>1, <3>2, <1>2
    <3> QED  BY <3>1, <3>2, <3>3, <1>2
  <2>2. Unhashed(c, k)
    <3> SUFFICES ASSUME NEW g \in Buckets, NEW j \in 1 .. Len(c[g]) PROVE c[g][j] # k
      BY DEF Unhashed
    <3>1. CASE g = h
      BY <3>1, <2>1
    <3>2. CASE g # h
      BY <3>2, <1>13, <1>16 DEF Unhashed
    <3> QED  BY <3>1, <3>2
  <2>3. Loose(m, k)
    BY <2>2 DEF ChainsOk
  <2>4. k # NodeAt(s, i+1)
    BY <2>1, HlistAssumption DEF NodeAt, NULL
  <2>5. next(k) # x /\ next(k) # next(n) /\ next(k) \in Slots
    <3>1. SlotAt(h, s, i) # next(k)
      BY <1>1, <2>2, SlotOfUnhashed
    <3> QED  BY <3>1, <2>1, SlotsDiffer DEF x
  <2>6. r.pprev[k] = m.pprev[k] /\ r.at[next(k)] = m.at[next(k)]
    BY <2>1, <2>4, <2>5, <1>9
  <2> QED  BY <2>3, <2>6 DEF Loose
<1>17. \A g \in Buckets : Chained(r, g, c2[g])
  BY <1>12, <1>13, <1>14
<1> QED  BY <1>9, <1>13, <1>15, <1>16, <1>17 DEF ChainsOk, c2, q

(* The slots and nodes of a chain with one taken out.                      *)
LEMMA RemoveSlots ==
  ASSUME NEW h \in Buckets, NEW s \in Seq(Nodes), NEW i \in 1 .. Len(s),
         NEW q, q = RemoveAt(s, i)
  PROVE  /\ q \in Seq(Nodes) /\ Len(q) = Len(s) - 1
         /\ \A k \in 1 .. i-1 : q[k] = s[k]
         /\ \A k \in i .. Len(s)-1 : q[k] = s[k+1]
         /\ \A k \in 0 .. i-1 : SlotAt(h, q, k) = SlotAt(h, s, k)
         /\ \A k \in i .. Len(s)-1 : SlotAt(h, q, k) = SlotAt(h, s, k+1)
         /\ \A k \in 1 .. i-1 : NodeAt(q, k) = NodeAt(s, k)
         /\ \A k \in i .. Len(s) : NodeAt(q, k) = NodeAt(s, k+1)
<1> DEFINE r == RemoveAt(s, i)
<1>0. /\ r \in Seq(Nodes)
      /\ Len(r) = Len(s) - 1
      /\ \A k \in 1 .. i-1 : r[k] = s[k]
      /\ \A k \in i .. Len(s)-1 : r[k] = s[k+1]
  BY RemoveAtIs
<1>a. q = r
  OBVIOUS
<1> HIDE DEF r
<1>1. /\ q \in Seq(Nodes) /\ Len(q) = Len(s) - 1 /\ Len(s) \in Nat
      /\ \A k \in 1 .. i-1 : q[k] = s[k]
      /\ \A k \in i .. Len(s)-1 : q[k] = s[k+1]
  BY <1>0, <1>a
<1>2. \A k \in 0 .. i-1 : SlotAt(h, q, k) = SlotAt(h, s, k)
  BY <1>1 DEF SlotAt
<1>3. \A k \in i .. Len(s)-1 : SlotAt(h, q, k) = SlotAt(h, s, k+1)
  BY <1>1 DEF SlotAt
<1>4. \A k \in 1 .. i-1 : NodeAt(q, k) = NodeAt(s, k)
  BY <1>1 DEF NodeAt
<1>5. \A k \in i .. Len(s) : NodeAt(q, k) = NodeAt(s, k+1)
  BY <1>1 DEF NodeAt
<1> QED  BY <1>1, <1>2, <1>3, <1>4, <1>5

LEMMA LeaveOk ==
  ASSUME NEW m, NEW c, ChainsOk(m, c), NEW h \in Buckets, NEW i \in 1 .. Len(c[h]), NEW r,
         Left(m, r, c[h][i], SlotAt(h, c[h], i-1), NodeAt(c[h], i+1))
  PROVE  ChainsOk(r, [c EXCEPT ![h] = RemoveAt(c[h], i)])
<1> DEFINE s == c[h]  n == s[i]  x == SlotAt(h, s, i-1)  o == NodeAt(s, i+1)
           q == RemoveAt(s, i)  c2 == [c EXCEPT ![h] = q]
<1>1. /\ m \in HMemory /\ c \in [Buckets -> Seq(Nodes)] /\ Separate(c)
      /\ s \in Seq(Nodes) /\ Once(s) /\ Chained(m, h, s) /\ Len(s) \in Nat /\ n \in Nodes
  BY SeparateOnce DEF ChainsOk
<1>2. /\ q \in Seq(Nodes) /\ Len(q) = Len(s) - 1
      /\ \A k \in 1 .. i-1 : q[k] = s[k]
      /\ \A k \in i .. Len(s)-1 : q[k] = s[k+1]
  BY <1>1, RemoveSlots
<1>3. /\ \A k \in 0 .. i-1 : SlotAt(h, q, k) = SlotAt(h, s, k)
      /\ \A k \in i .. Len(s)-1 : SlotAt(h, q, k) = SlotAt(h, s, k+1)
  BY <1>1, RemoveSlots
<1>4. /\ \A k \in 1 .. i-1 : NodeAt(q, k) = NodeAt(s, k)
      /\ \A k \in i .. Len(s) : NodeAt(q, k) = NodeAt(s, k+1)
  BY <1>1, RemoveSlots
<1>5. /\ \A k \in 1 .. Len(s) : SlotAt(h, s, k) = next(s[k]) /\ s[k] \in Nodes
      /\ \A k \in 0 .. Len(s) : SlotAt(h, s, k) \in Slots
      /\ \A j, k \in 0 .. Len(s) : SlotAt(h, s, j) = SlotAt(h, s, k) => j = k
  BY <1>1, ChainSlots
<1>6. i-1 \in 0 .. Len(s) /\ i \in 0 .. Len(s) /\ i-1 # i /\ (i-1)+1 = i
  BY <1>1
<1>7. x \in Slots /\ x # next(n) /\ next(n) = SlotAt(h, s, i) /\ next(n) \in Slots
  BY <1>5, <1>6
<1>8. \A k \in 1 .. Len(s) : s[k] = o <=> k = i+1
  <2>1. NULL \notin Nodes
    BY HlistAssumption DEF NULL
  <2> QED  BY <2>1, <1>1, <1>5 DEF NodeAt, Once
<1>9. /\ r \in HMemory
      /\ r.pprev[n] \in {NoSlot, PoisonSlot}
      /\ \A y \in Slots \ {next(n)} : r.at[y] = IF y = x THEN o ELSE m.at[y]
      /\ \A k \in Nodes \ {n} : r.pprev[k] = IF k = o THEN x ELSE m.pprev[k]
  BY DEF Left
<1> HIDE DEF n, q, x, o, c2
<1>10. ASSUME NEW k \in 0 .. Len(s), k # i-1, k # i PROVE r.at[SlotAt(h, s, k)] = NodeAt(s, k+1)
  <2>1. SlotAt(h, s, k) # x /\ SlotAt(h, s, k) \in Slots \ {next(n)}
    BY <1>5, <1>6, <1>7, <1>10 DEF x
  <2>2. m.at[SlotAt(h, s, k)] = NodeAt(s, k+1)
    BY <1>1 DEF Chained
  <2> QED  BY <1>9, <2>1, <2>2
<1>11. ASSUME NEW k \in 1 .. Len(s), k # i, k # i+1 PROVE r.pprev[s[k]] = SlotAt(h, s, k-1)
  <2>1. s[k] \in Nodes /\ s[k] # n /\ s[k] # o
    BY <1>1, <1>8, <1>11 DEF n, Once
  <2>2. m.pprev[s[k]] = SlotAt(h, s, k-1)
    BY <1>1 DEF Chained
  <2> QED  BY <1>9, <2>1, <2>2
<1>12. Chained(r, h, q)
  <2>1. ASSUME NEW k \in 0 .. Len(q) PROVE r.at[SlotAt(h, q, k)] = NodeAt(q, k+1)
    <3>1. CASE k < i-1
      <4>1. k \in 0 .. i-1 /\ k \in 0 .. Len(s) /\ k # i-1 /\ k # i /\ k+1 \in 1 .. i-1
        BY <3>1, <1>1
      <4> QED  BY <4>1, <1>3, <1>4, <1>10
    <3>2. CASE k = i-1
      <4>1. i-1 \in 0 .. i-1 /\ i \in i .. Len(s)
        BY <1>1
      <4>2. SlotAt(h, q, k) = x /\ NodeAt(q, k+1) = o
        BY <3>2, <4>1, <1>3, <1>4, <1>6 DEF x, o
      <4> QED  BY <4>2, <1>7, <1>9
    <3>3. CASE k > i-1
      <4>1. k \in i .. Len(s)-1 /\ k+1 \in i .. Len(s) /\ k+1 \in 0 .. Len(s) /\ k+1 # i-1 /\ k+1 # i
        BY <3>3, <1>1, <1>2
      <4>2. SlotAt(h, q, k) = SlotAt(h, s, k+1) /\ NodeAt(q, k+1) = NodeAt(s, (k+1)+1)
        BY <4>1, <1>3, <1>4
      <4>3. r.at[SlotAt(h, s, k+1)] = NodeAt(s, (k+1)+1)
        BY <4>1, <1>10
      <4> QED  BY <4>2, <4>3
    <3>5. k < i-1 \/ k = i-1 \/ k > i-1
      BY <1>2, <1>1
    <3> QED  BY <3>1, <3>2, <3>3, <3>5
  <2>2. ASSUME NEW k \in 1 .. Len(q) PROVE r.pprev[q[k]] = SlotAt(h, q, k-1)
    <3>1. CASE k < i
      <4>1. k \in 1 .. i-1 /\ k \in 1 .. Len(s) /\ k # i /\ k # i+1 /\ k-1 \in 0 .. i-1
        BY <3>1, <1>1
      <4> QED  BY <4>1, <1>2, <1>3, <1>11
    <3>2. CASE k = i
      <4>1. i \in i .. Len(s)-1 /\ i-1 \in 0 .. i-1 /\ i+1 \in 1 .. Len(s)
        BY <3>2, <1>1, <1>2
      <4>2. q[k] = s[i+1] /\ s[i+1] = o /\ s[i+1] # n /\ s[i+1] \in Nodes
        <5>1. s[i+1] # n
          BY <4>1, <1>1 DEF n, Once
        <5> QED  BY <3>2, <4>1, <5>1, <1>2, <1>5, <1>8
      <4>3. SlotAt(h, q, k-1) = x
        BY <3>2, <4>1, <1>3 DEF x
      <4> QED  BY <4>2, <4>3, <1>9
    <3>3. CASE k > i
      <4>1. /\ k \in i .. Len(s)-1 /\ k+1 \in 1 .. Len(s) /\ k+1 # i /\ k+1 # i+1 /\ (k+1)-1 = k
            /\ k-1 \in i .. Len(s)-1 /\ (k-1)+1 = k
        BY <3>3, <1>1, <1>2
      <4>2. q[k] = s[k+1] /\ SlotAt(h, q, k-1) = SlotAt(h, s, k)
        BY <4>1, <1>2, <1>3
      <4>3. r.pprev[s[k+1]] = SlotAt(h, s, k)
        BY <4>1, <1>11
      <4> QED  BY <4>2, <4>3
    <3>5. k < i \/ k = i \/ k > i
      BY <1>2, <1>1
    <3> QED  BY <3>1, <3>2, <3>3, <3>5
  <2> QED  BY <2>1, <2>2 DEF Chained
<1>13. c2[h] = q /\ c2 \in [Buckets -> Seq(Nodes)] /\ \A g \in Buckets \ {h} : c2[g] = c[g]
  BY <1>1, <1>2 DEF c2
<1>14. ASSUME NEW g \in Buckets \ {h} PROVE Chained(r, g, c[g])
  <2>1. Chained(m, g, c[g]) /\ c[g] \in Seq(Nodes)
    BY DEF ChainsOk
  <2>2. Once(c[g])
    BY <1>1, SeparateOnce
  <2>3. ASSUME NEW k \in 0 .. Len(c[g]) PROVE r.at[SlotAt(g, c[g], k)] = m.at[SlotAt(g, c[g], k)]
    <3>1. SlotAt(g, c[g], k) \in Slots
      BY <2>1, <2>2, ChainSlots
    <3>2. SlotAt(g, c[g], k) # next(n)
      BY <1>1, <1>6, <1>7, SlotsApart
    <3>3. SlotAt(g, c[g], k) # x
      BY <1>1, <1>6, SlotsApart DEF x
    <3> QED  BY <3>1, <3>2, <3>3, <1>9
  <2>4. ASSUME NEW k \in 1 .. Len(c[g]) PROVE r.pprev[c[g][k]] = m.pprev[c[g][k]]
    <3>1. c[g][k] \in Nodes /\ c[g][k] # n /\ c[g][k] # NULL
      BY <2>1, <1>1, HlistAssumption DEF Separate, NULL, n
    <3>2. c[g][k] # o
      BY <3>1, <1>1 DEF NodeAt, Separate, o
    <3> QED  BY <3>1, <3>2, <1>9
  <2> QED  BY <2>1, <2>3, <2>4, ChainUntouched
<1>15. Separate(c2)
  <2> DEFINE w(a) == IF a < i THEN a ELSE a+1
  <2>1. \A k \in 1 .. Len(q) : w(k) \in 1 .. Len(s) /\ q[k] = s[w(k)]
    <3> SUFFICES ASSUME NEW k \in 1 .. Len(q)
                 PROVE  w(k) \in 1 .. Len(s) /\ q[k] = s[w(k)]
      OBVIOUS
    <3>1. CASE k < i
      BY <3>1, <1>1, <1>2
    <3>2. CASE ~(k < i)
      <4>1. k \in i .. Len(s)-1 /\ k+1 \in 1 .. Len(s)
        BY <3>2, <1>1, <1>2
      <4> QED  BY <3>2, <4>1, <1>2
    <3> QED  BY <3>1, <3>2
  <2>2. Once(q)
    <3> SUFFICES ASSUME NEW k \in 1 .. Len(q), NEW j \in 1 .. Len(q), q[k] = q[j] PROVE k = j
      BY DEF Once
    <3>1. w(k) = w(j)
      <4>1. w(k) \in 1 .. Len(s) /\ q[k] = s[w(k)] /\ w(j) \in 1 .. Len(s) /\ q[j] = s[w(j)]
        BY <2>1
      <4> QED  BY <4>1, <1>1 DEF Once
    <3> QED  BY <3>1, <1>2, <1>1
  <2>3. ASSUME NEW k \in 1 .. Len(q)
        PROVE  Unhashed(c, q[k]) \/ \E j \in 1 .. Len(c[h]) : q[k] = c[h][j]
    BY <2>1
  <2> QED  BY <1>1, <1>2, <2>2, <2>3, SeparateOne DEF c2
<1>16. ASSUME NEW k \in Nodes, Unhashed(c2, k) PROVE Loose(r, k)
  <2>1. CASE k = n
    BY <2>1, <1>9 DEF Loose
  <2>2. CASE k # n
    <3>1. ASSUME NEW j \in 1 .. Len(s) PROVE s[j] # k
      <4>1. CASE j = i
        BY <4>1, <2>2 DEF n
      <4>2. CASE j < i
        <5>1. j \in 1 .. i-1 /\ j \in 1 .. Len(q)
          BY <4>2, <1>1, <1>2
        <5> QED  BY <5>1, <1>2, <1>13, <1>16 DEF Unhashed
      <4>3. CASE j > i
        <5>1. j-1 \in i .. Len(s)-1 /\ (j-1)+1 = j /\ j-1 \in 1 .. Len(q)
          BY <4>3, <1>1, <1>2
        <5> QED  BY <5>1, <1>2, <1>13, <1>16 DEF Unhashed
      <4>4. j = i \/ j < i \/ j > i
        BY <1>1
      <4> QED  BY <4>1, <4>2, <4>3, <4>4
    <3>2. Unhashed(c, k)
      <4> SUFFICES ASSUME NEW g \in Buckets, NEW j \in 1 .. Len(c[g]) PROVE c[g][j] # k
        BY DEF Unhashed
      <4>1. CASE g = h
        BY <4>1, <3>1
      <4>2. CASE g # h
        BY <4>2, <1>13, <1>16 DEF Unhashed
      <4> QED  BY <4>1, <4>2
    <3>3. Loose(m, k)
      BY <3>2 DEF ChainsOk
    <3>4. k # o
      BY <3>1, HlistAssumption DEF NodeAt, NULL, o
    <3>5. next(k) # x /\ next(k) # next(n) /\ next(k) \in Slots
      <4>1. SlotAt(h, s, i-1) # next(k)
        BY <1>1, <1>6, <3>2, SlotOfUnhashed
      <4> QED  BY <4>1, <2>2, SlotsDiffer DEF x
    <3>6. r.pprev[k] = m.pprev[k] /\ r.at[next(k)] = m.at[next(k)]
      BY <2>2, <3>4, <3>5, <1>9
    <3> QED  BY <3>3, <3>6 DEF Loose
  <2> QED  BY <2>1, <2>2
<1>17. \A g \in Buckets : Chained(r, g, c2[g])
  BY <1>12, <1>13, <1>14
<1> QED  BY <1>9, <1>13, <1>15, <1>16, <1>17 DEF ChainsOk, c2, q

(* Stores to a node on no chain disturb none.                              *)
LEMMA LooseOk ==
  ASSUME NEW m, NEW c, ChainsOk(m, c), NEW n \in Nodes, Unhashed(c, n), NEW r \in HMemory,
         Loose(r, n),
         \A y \in Slots \ {next(n)} : r.at[y] = m.at[y],
         \A k \in Nodes \ {n} : r.pprev[k] = m.pprev[k]
  PROVE  ChainsOk(r, c)
<1>1. c \in [Buckets -> Seq(Nodes)] /\ Separate(c)
  BY DEF ChainsOk
<1>2. ASSUME NEW g \in Buckets PROVE Chained(r, g, c[g])
  <2>1. Chained(m, g, c[g]) /\ c[g] \in Seq(Nodes) /\ Once(c[g])
    BY <1>1, SeparateOnce DEF ChainsOk
  <2>2. ASSUME NEW k \in 0 .. Len(c[g]) PROVE r.at[SlotAt(g, c[g], k)] = m.at[SlotAt(g, c[g], k)]
    <3>1. SlotAt(g, c[g], k) \in Slots
      BY <2>1, ChainSlots
    <3>2. SlotAt(g, c[g], k) # next(n)
      BY <1>1, SlotOfUnhashed
    <3> QED  BY <3>1, <3>2
  <2>3. ASSUME NEW k \in 1 .. Len(c[g]) PROVE r.pprev[c[g][k]] = m.pprev[c[g][k]]
    BY <2>1 DEF Unhashed
  <2> QED  BY <2>1, <2>2, <2>3, ChainUntouched
<1>3. ASSUME NEW k \in Nodes, Unhashed(c, k) PROVE Loose(r, k)
  <2>1. CASE k = n
    BY <2>1
  <2>2. CASE k # n
    <3>1. Loose(m, k)
      BY <1>3 DEF ChainsOk
    <3>2. next(k) \in Slots \ {next(n)}
      BY <2>2, SlotsDiffer
    <3>3. r.pprev[k] = m.pprev[k] /\ r.at[next(k)] = m.at[next(k)]
      BY <2>2, <3>2
    <3> QED  BY <3>1, <3>3 DEF Loose
  <2> QED  BY <2>1, <2>2
<1> QED  BY <1>1, <1>2, <1>3 DEF ChainsOk

LEMMA MoveListWrites ==
  ASSUME NEW m \in HMemory, NEW old \in Buckets, NEW new \in Buckets, old # new,
         NEW f \in Ends, m.at[first(old)] = f
  PROVE  LET r == hlist_move_list(m, old, new) IN
         /\ r \in HMemory
         /\ \A y \in Slots : r.at[y] = IF y = first(old) THEN NULL
                                       ELSE IF y = first(new) THEN f ELSE m.at[y]
         /\ \A k \in Nodes : r.pprev[k] = IF k = f THEN first(new) ELSE m.pprev[k]
<1> DEFINE x == first(new)  y0 == first(old)
           m1 == SetAt(m, x, f)  m2 == SetPprev(m1, f, x)  m3 == SetAt(m2, y0, NULL)
<1>1. x \in Slots /\ y0 \in Slots /\ x # y0
  BY SlotsDiffer
<1>2. x \in Addresses /\ f \in Held /\ NULL \in Held
  BY <1>1 DEF Addresses, Held, Ends
<1>3. hlist_move_list(m, old, new) = m3
  BY DEF hlist_move_list, SetAt
<1> HIDE DEF x, y0
<1>4. /\ m1 \in HMemory
      /\ \A y \in Slots : m1.at[y] = IF y = x THEN f ELSE m.at[y]
      /\ \A k \in Nodes : m1.pprev[k] = m.pprev[k]
  BY <1>1, <1>2, AtWrite DEF m1
<1> HIDE DEF m1
<1>5. /\ m2 \in HMemory
      /\ \A y \in Slots : m2.at[y] = m1.at[y]
      /\ \A k \in Nodes : m2.pprev[k] = IF k = f THEN x ELSE m1.pprev[k]
  BY <1>2, <1>4, PprevWrite DEF m2
<1> HIDE DEF m2
<1>6. /\ m3 \in HMemory
      /\ \A y \in Slots : m3.at[y] = IF y = y0 THEN NULL ELSE m2.at[y]
      /\ \A k \in Nodes : m3.pprev[k] = m2.pprev[k]
  BY <1>1, <1>2, <1>5, AtWrite DEF m3
<1> HIDE DEF m3
<1>7. /\ \A y \in Slots : m3.at[y] = IF y = y0 THEN NULL ELSE IF y = x THEN f ELSE m.at[y]
      /\ \A k \in Nodes : m3.pprev[k] = IF k = f THEN x ELSE m.pprev[k]
  BY <1>4, <1>5, <1>6
<1> QED  BY <1>3, <1>6, <1>7 DEF x, y0

LEMMA MoveListOk ==
  ASSUME NEW m, NEW c, ChainsOk(m, c), NEW old \in Buckets, NEW new \in Buckets, old # new,
         c[new] = <<>>, NEW c2, c2 = [c EXCEPT ![new] = c[old], ![old] = <<>>]
  PROVE  ChainsOk(hlist_move_list(m, old, new), c2)
<1> DEFINE s == c[old]  f == NodeAt(s, 1)  r == hlist_move_list(m, old, new)
<1>1. /\ m \in HMemory /\ c \in [Buckets -> Seq(Nodes)] /\ Separate(c)
      /\ s \in Seq(Nodes) /\ Once(s) /\ Chained(m, old, s) /\ Len(s) \in Nat
  BY SeparateOnce DEF ChainsOk
<1>2. m.at[first(old)] = f /\ f \in Ends
  <2>1. 0 \in 0 .. Len(s) /\ 0+1 = 1
    BY <1>1
  <2>2. m.at[SlotAt(old, s, 0)] = NodeAt(s, 0+1)
    BY <1>1, <2>1 DEF Chained
  <2> QED  BY <1>1, <2>1, <2>2 DEF SlotAt, NodeAt, Ends
<1> HIDE DEF f
<1>3. /\ r \in HMemory
      /\ \A y \in Slots : r.at[y] = IF y = first(old) THEN NULL
                                    ELSE IF y = first(new) THEN f ELSE m.at[y]
      /\ \A k \in Nodes : r.pprev[k] = IF k = f THEN first(new) ELSE m.pprev[k]
  BY <1>1, <1>2, MoveListWrites
<1> HIDE DEF r
<1>4. /\ c2 \in [Buckets -> Seq(Nodes)] /\ c2[new] = s /\ c2[old] = <<>>
      /\ \A g \in Buckets \ {old, new} : c2[g] = c[g]
  BY <1>1
<1>5. /\ \A k \in Nodes : next(k) \in Slots /\ next(k) # first(old) /\ next(k) # first(new)
      /\ \A g \in Buckets : first(g) \in Slots
      /\ first(old) # first(new)
      /\ \A g \in Buckets \ {old, new} : first(g) # first(old) /\ first(g) # first(new)
  BY SlotsDiffer
<1>6. \A k \in 1 .. Len(s) : s[k] = f <=> k = 1
  <2>1. NULL \notin Nodes
    BY HlistAssumption DEF NULL
  <2> QED  BY <2>1, <1>1 DEF NodeAt, Once, f
<1>7. Chained(r, new, s)
  <2>1. ASSUME NEW k \in 0 .. Len(s) PROVE r.at[SlotAt(new, s, k)] = NodeAt(s, k+1)
    <3>1. CASE k = 0
      BY <3>1, <1>3, <1>5 DEF SlotAt, f
    <3>2. CASE k # 0
      <4>1. SlotAt(new, s, k) = next(s[k]) /\ SlotAt(old, s, k) = next(s[k]) /\ s[k] \in Nodes
        BY <3>2, <1>1 DEF SlotAt
      <4>2. m.at[SlotAt(old, s, k)] = NodeAt(s, k+1)
        BY <1>1 DEF Chained
      <4> QED  BY <4>1, <4>2, <1>3, <1>5
    <3> QED  BY <3>1, <3>2
  <2>2. ASSUME NEW k \in 1 .. Len(s) PROVE r.pprev[s[k]] = SlotAt(new, s, k-1)
    <3>0. s[k] \in Nodes
      BY <1>1
    <3>1. CASE k = 1
      BY <3>0, <3>1, <1>3, <1>6 DEF SlotAt
    <3>2. CASE k # 1
      <4>1. SlotAt(new, s, k-1) = SlotAt(old, s, k-1)
        BY <3>2 DEF SlotAt
      <4>2. m.pprev[s[k]] = SlotAt(old, s, k-1)
        BY <1>1 DEF Chained
      <4> QED  BY <3>0, <3>2, <4>1, <4>2, <1>3, <1>6
    <3> QED  BY <3>1, <3>2
  <2> QED  BY <2>1, <2>2 DEF Chained
<1>8. Chained(r, old, c2[old])
  <2>1. Len(c2[old]) = 0 /\ \A k : NodeAt(c2[old], k) = NULL
    BY <1>4 DEF NodeAt
  <2>2. r.at[first(old)] = NULL
    BY <1>3, <1>5
  <2>3. SlotAt(old, c2[old], 0) = first(old)
    BY DEF SlotAt
  <2>4. (\A i \in 0 .. Len(c2[old]) : i = 0) /\ (\A i \in 1 .. Len(c2[old]) : FALSE)
    <3>1. Len(c2[old]) = 0
      BY <1>4
    <3> QED  BY ONLY <3>1
  <2>5. ASSUME NEW i \in 0 .. Len(c2[old]) PROVE r.at[SlotAt(old, c2[old], i)] = NodeAt(c2[old], i+1)
    <3>1. i = 0
      BY <2>4
    <3> QED  BY <3>1, <2>1, <2>2, <2>3
  <2>6. ASSUME NEW i \in 1 .. Len(c2[old]) PROVE r.pprev[c2[old][i]] = SlotAt(old, c2[old], i-1)
    BY <2>4
  <2> QED  BY ONLY <2>5, <2>6 DEF Chained
<1>9. ASSUME NEW g \in Buckets \ {old, new} PROVE Chained(r, g, c2[g])
  <2>1. Chained(m, g, c[g]) /\ c[g] \in Seq(Nodes)
    BY DEF ChainsOk
  <2>2. ASSUME NEW k \in 0 .. Len(c[g]) PROVE r.at[SlotAt(g, c[g], k)] = m.at[SlotAt(g, c[g], k)]
    <3>1. k = 0 \/ c[g][k] \in Nodes
      BY <2>1
    <3>2. /\ SlotAt(g, c[g], k) \in Slots
          /\ SlotAt(g, c[g], k) # first(old) /\ SlotAt(g, c[g], k) # first(new)
      BY <3>1, <1>5 DEF SlotAt
    <3> QED  BY <3>2, <1>3
  <2>3. ASSUME NEW k \in 1 .. Len(c[g]) PROVE r.pprev[c[g][k]] = m.pprev[c[g][k]]
    <3>1. c[g][k] \in Nodes /\ c[g][k] # NULL
      BY <2>1, HlistAssumption DEF NULL
    <3>2. c[g][k] # f
      BY <3>1, <1>1 DEF NodeAt, Separate, f
    <3> QED  BY <3>1, <3>2, <1>3
  <2>4. Chained(r, g, c[g])
    BY <2>1, <2>2, <2>3, ChainUntouched
  <2> QED  BY <2>4, <1>4
<1>10. Separate(c2)
  <2> DEFINE b(g) == IF g = new THEN old ELSE g
  <2>1. \A g \in Buckets : g # old => b(g) \in Buckets /\ c2[g] = c[b(g)]
    BY <1>4
  <2>2. \A k \in 1 .. Len(c2[old]) : FALSE
    <3>1. Len(c2[old]) = 0
      BY <1>4
    <3> QED  BY <3>1
  <2> SUFFICES ASSUME NEW h \in Buckets, NEW g \in Buckets, NEW i \in 1 .. Len(c2[h]),
                      NEW j \in 1 .. Len(c2[g]), c2[h][i] = c2[g][j]
               PROVE  h = g /\ i = j
    BY DEF Separate
  <2>3. h # old /\ g # old
    BY <2>2
  <2>4. c2[h] = c[b(h)] /\ c2[g] = c[b(g)] /\ b(h) \in Buckets /\ b(g) \in Buckets
    BY <2>1, <2>3
  <2>5. b(h) = b(g) /\ i = j
    BY <2>4, <1>1 DEF Separate
  <2> QED  BY <2>3, <2>5
<1>11. ASSUME NEW k \in Nodes, Unhashed(c2, k) PROVE Loose(r, k)
  <2>1. Unhashed(c, k)
    <3> SUFFICES ASSUME NEW g \in Buckets, NEW j \in 1 .. Len(c[g]) PROVE c[g][j] # k
      BY DEF Unhashed
    <3>1. CASE g = old
      BY <3>1, <1>4, <1>11 DEF Unhashed
    <3>2. CASE g = new
      BY <3>2
    <3>3. CASE g \notin {old, new}
      BY <3>3, <1>4, <1>11 DEF Unhashed
    <3> QED  BY <3>1, <3>2, <3>3
  <2>2. Loose(m, k)
    BY <2>1 DEF ChainsOk
  <2>3. k # f
    BY <2>1, HlistAssumption DEF NodeAt, NULL, f, Unhashed
  <2>4. r.pprev[k] = m.pprev[k] /\ r.at[next(k)] = m.at[next(k)]
    BY <2>3, <1>3, <1>5
  <2> QED  BY <2>2, <2>4 DEF Loose
<1>12. \A g \in Buckets : Chained(r, g, c2[g])
  BY <1>4, <1>7, <1>8, <1>9
<1> QED  BY <1>3, <1>4, <1>10, <1>11, <1>12 DEF ChainsOk, r
-----------------------------------------------------------------------------
(* The sets of the model, read off the chains.                             *)
LEMMA OnChainIs ==
  ASSUME chains \in [Buckets -> Seq(Nodes)], NEW h \in Buckets, NEW n
  PROVE  n \in OnChain(h) <=> \E i \in 1 .. Len(chains[h]) : chains[h][i] = n
<1>1. DOMAIN chains[h] = 1 .. Len(chains[h])
  OBVIOUS
<1> QED  BY <1>1 DEF OnChain, Range

LEMMA HashedIs ==
  ASSUME ChainsOk(hmem, chains), NEW n
  PROVE  n \in Hashed <=> \E h \in Buckets : \E i \in 1 .. Len(chains[h]) : chains[h][i] = n
<1>1. chains \in [Buckets -> Seq(Nodes)]
  BY DEF ChainsOk
<1> QED  BY <1>1, OnChainIs DEF Hashed

LEMMA UnhashedIs ==
  ASSUME ChainsOk(hmem, chains), NEW n, n \notin Hashed
  PROVE  Unhashed(chains, n) /\ ChainsWithout(n) = chains
<1>1. chains \in [Buckets -> Seq(Nodes)]
  BY DEF ChainsOk
<1>2. Unhashed(chains, n)
  BY HashedIs DEF Unhashed
<1>3. \A h \in Buckets : n \notin OnChain(h)
  BY DEF Hashed
<1>4. ChainsWithout(n) = [h \in Buckets |-> chains[h]]
  BY <1>3 DEF ChainsWithout
<1> QED  BY <1>1, <1>2, <1>4

(* A node is on one chain, at one place.                                   *)
LEMMA BucketIs ==
  ASSUME ChainsOk(hmem, chains), NEW h \in Buckets, NEW i \in 1 .. Len(chains[h])
  PROVE  LET n == chains[h][i] IN
         /\ BucketOf(n) = h /\ IndexOn(h, n) = i
         /\ ChainsWithout(n) = [chains EXCEPT ![h] = RemoveAt(chains[h], i)]
<1> DEFINE n == chains[h][i]  g == BucketOf(n)  j == IndexOn(h, n)
<1>1. chains \in [Buckets -> Seq(Nodes)] /\ Separate(chains)
      /\ DOMAIN chains[h] = 1 .. Len(chains[h])
  BY DEF ChainsOk
<1>2. \A f \in Buckets : n \in OnChain(f) <=> f = h
  BY <1>1, OnChainIs DEF Separate
<1>3. g = h
  BY <1>2 DEF BucketOf
<1>4. j \in 1 .. Len(chains[h]) /\ chains[h][j] = n
  BY <1>1 DEF IndexOn
<1>5. j = i
  BY <1>1, <1>4 DEF Separate
<1>6. ChainsWithout(n) = [chains EXCEPT ![h] = RemoveAt(chains[h], i)]
  BY <1>1, <1>2, <1>5 DEF ChainsWithout
<1> QED  BY <1>3, <1>5, <1>6

(* What the slots around a node of a chain hold.                           *)
LEMMA AroundIs ==
  ASSUME NEW m, NEW c, ChainsOk(m, c), NEW h \in Buckets, NEW i \in 1 .. Len(c[h])
  PROVE  /\ c[h][i] \in Nodes
         /\ m.pprev[c[h][i]] = SlotAt(h, c[h], i-1) /\ SlotAt(h, c[h], i-1) \in Slots
         /\ m.at[SlotAt(h, c[h], i-1)] = c[h][i]
         /\ m.at[next(c[h][i])] = NodeAt(c[h], i+1) /\ NodeAt(c[h], i+1) \in Ends
         /\ SlotAt(h, c[h], i) = next(c[h][i])
         /\ SlotAt(h, c[h], i-1) # next(c[h][i])
<1> DEFINE s == c[h]
<1>1. s \in Seq(Nodes) /\ Once(s) /\ Chained(m, h, s) /\ Len(s) \in Nat
  BY SeparateOnce DEF ChainsOk
<1>2. i-1 \in 0 .. Len(s) /\ i \in 0 .. Len(s) /\ (i-1)+1 = i /\ i-1 # i
  BY <1>1
<1>3. /\ SlotAt(h, s, i) = next(s[i]) /\ s[i] \in Nodes
      /\ SlotAt(h, s, i-1) \in Slots
      /\ SlotAt(h, s, i-1) # SlotAt(h, s, i)
  BY <1>1, <1>2, ChainSlots
<1>4. m.pprev[s[i]] = SlotAt(h, s, i-1) /\ m.at[SlotAt(h, s, i)] = NodeAt(s, i+1)
  BY <1>1, <1>2 DEF Chained
<1>5. m.at[SlotAt(h, s, i-1)] = NodeAt(s, i) /\ NodeAt(s, i) = s[i]
  BY <1>1, <1>2 DEF Chained, NodeAt
<1>6. NodeAt(s, i+1) \in Ends
  BY <1>1 DEF NodeAt, Ends
<1> QED  BY <1>3, <1>4, <1>5, <1>6

LEMMA FakedIs ==
  ASSUME ChainsOk(hmem, chains), NEW n \in Faked
  PROVE  n \in Nodes /\ n \notin Hashed /\ hmem.at[next(n)] = NULL
<1>1. n \in Nodes /\ hmem.pprev[n] = next(n)
  BY DEF Faked
<1>2. n \notin Hashed
  <2> SUFFICES ASSUME n \in Hashed PROVE FALSE
    OBVIOUS
  <2>1. PICK h \in Buckets : \E i \in 1 .. Len(chains[h]) : chains[h][i] = n
    BY HashedIs
  <2>2. PICK i \in 1 .. Len(chains[h]) : chains[h][i] = n
    BY <2>1
  <2> QED  BY <1>1, <2>2, AroundIs
<1>3. Loose(hmem, n)
  BY <1>1, <1>2, UnhashedIs DEF ChainsOk
<1>4. next(n) \notin {NoSlot, PoisonSlot}
  BY <1>1, SlotsDiffer
<1> QED  BY <1>1, <1>2, <1>3, <1>4 DEF Loose

LEMMA InsertIs ==
  ASSUME NEW s \in Seq(Nodes), NEW n \in Nodes
  PROVE  /\ <<n>> \o s = PutOne(s, 0, n)
         /\ \A i \in 1 .. Len(s) + 1 : InsertAt(s, i, n) = PutOne(s, i-1, n)
<1>1. <<n>> \o s = PutOne(s, 0, n)
  <2>1. SubSeq(s, 1, 0) = <<>> /\ SubSeq(s, 0+1, Len(s)) = s
    BY SubSeqEmpty, SubSeqFull
  <2>2. PutOne(s, 0, n) = (<<>> \o <<n>>) \o s
    BY <2>1 DEF PutOne, PutAt
  <2>3. <<n>> \in Seq(Nodes) /\ <<>> \o <<n>> = <<n>>
    BY ConcatEmptySeq
  <2> QED  BY <2>2, <2>3
<1>2. ASSUME NEW i \in 1 .. Len(s) + 1 PROVE InsertAt(s, i, n) = PutOne(s, i-1, n)
  <2>1. (i-1)+1 = i
    OBVIOUS
  <2> QED  BY <2>1 DEF InsertAt, PutOne, PutAt
<1> QED  BY <1>1, <1>2
-----------------------------------------------------------------------------
(* The calls.                                                              *)
LEMMA HAddKeeps ==
  ASSUME ChainsOk(hmem, chains), HAdd
  PROVE  ChainsOk(hmem', chains') /\ hiter' = HNoLoop
<1>1. PICK n \in Nodes \ (Hashed \union Faked) :
    \/ \E h \in Buckets :
         HCall(hlist_add_head(hmem, n, h), [chains EXCEPT ![h] = <<n>> \o @])
    \/ \E x \in Hashed :
         \/ HCall(hlist_add_before(hmem, n, x),
                  [chains EXCEPT ![BucketOf(x)] = InsertAt(@, IndexOn(BucketOf(x), x), n)])
         \/ HCall(hlist_add_behind(hmem, n, x),
                  [chains EXCEPT ![BucketOf(x)] = InsertAt(@, IndexOn(BucketOf(x), x)+1, n)])
  BY DEF HAdd
<1>2. Unhashed(chains, n) /\ n \in Nodes /\ hmem \in HMemory /\ chains \in [Buckets -> Seq(Nodes)]
      /\ n # NULL
  BY UnhashedIs, HlistAssumption DEF ChainsOk, NULL
<1>3. ASSUME NEW h \in Buckets, HCall(hlist_add_head(hmem, n, h), [chains EXCEPT ![h] = <<n>> \o @])
      PROVE  ChainsOk(hmem', chains') /\ hiter' = HNoLoop
  <2> DEFINE s == chains[h]
  <2>1. s \in Seq(Nodes) /\ Chained(hmem, h, s) /\ Len(s) \in Nat /\ 0 \in 0 .. Len(s)
    BY DEF ChainsOk
  <2>2. SlotAt(h, s, 0) = first(h) /\ NodeAt(s, 1) \in Ends /\ NodeAt(s, 1) # n
    BY <2>1, <1>2 DEF SlotAt, NodeAt, Ends, Unhashed
  <2>3. hmem.at[first(h)] = NodeAt(s, 1)
    BY <2>1, <2>2 DEF Chained
  <2>4. Entered(hmem, hlist_add_head(hmem, n, h), n, SlotAt(h, s, 0))
    BY <1>2, <2>2, <2>3, AddHeadWrites
  <2>5. ChainsOk(hlist_add_head(hmem, n, h), [chains EXCEPT ![h] = PutOne(s, 0, n)])
    BY <1>2, <2>1, <2>4, EnterOk
  <2>6. <<n>> \o s = PutOne(s, 0, n)
    BY <1>2, <2>1, InsertIs
  <2> QED  BY <1>3, <2>5, <2>6 DEF HCall
<1>4. ASSUME NEW x \in Hashed
      PROVE  LET h == BucketOf(x)  i == IndexOn(h, x) IN
             /\ ChainsOk(hlist_add_before(hmem, n, x), [chains EXCEPT ![h] = InsertAt(@, i, n)])
             /\ ChainsOk(hlist_add_behind(hmem, n, x), [chains EXCEPT ![h] = InsertAt(@, i+1, n)])
  <2>1. PICK h \in Buckets : \E i \in 1 .. Len(chains[h]) : chains[h][i] = x
    BY HashedIs
  <2>2. PICK i \in 1 .. Len(chains[h]) : chains[h][i] = x
    BY <2>1
  <2>3. BucketOf(x) = h /\ IndexOn(h, x) = i
    BY <2>2, BucketIs
  <2> DEFINE s == chains[h]  p == SlotAt(h, s, i-1)  o == NodeAt(s, i+1)
  <2>4. /\ x \in Nodes /\ hmem.pprev[x] = p /\ p \in Slots
        /\ hmem.at[p] = x
        /\ hmem.at[next(x)] = o /\ o \in Ends
        /\ SlotAt(h, s, i) = next(x)
    BY <2>2, AroundIs
  <2>5. s \in Seq(Nodes) /\ Len(s) \in Nat /\ i-1 \in 0 .. Len(s) /\ i \in 0 .. Len(s)
        /\ i+1 \in 1 .. Len(s) + 1 /\ i \in 1 .. Len(s) + 1 /\ (i+1)-1 = i
    BY <1>2
  <2>6. x # n /\ o # n /\ p # next(n)
    <3>1. x # n /\ o # n
      BY <1>2, <2>2 DEF Unhashed, NodeAt
    <3>2. SlotAt(h, chains[h], i-1) # next(n)
      BY <1>2, <2>5, SlotOfUnhashed
    <3> QED  BY <3>1, <3>2
  <2> HIDE DEF p, o
  <2>7. Entered(hmem, hlist_add_before(hmem, n, x), n, p)
    BY <1>2, <2>4, <2>6, AddBeforeWrites
  <2>8. Entered(hmem, hlist_add_behind(hmem, n, x), n, next(x))
    BY <1>2, <2>4, <2>6, AddBehindWrites
  <2>9. ChainsOk(hlist_add_before(hmem, n, x), [chains EXCEPT ![h] = PutOne(s, i-1, n)])
    BY <1>2, <2>5, <2>7, EnterOk DEF p
  <2>10. ChainsOk(hlist_add_behind(hmem, n, x), [chains EXCEPT ![h] = PutOne(s, i, n)])
    <3>1. Entered(hmem, hlist_add_behind(hmem, n, x), n, SlotAt(h, chains[h], i))
      BY <2>4, <2>8
    <3> QED  BY ONLY ChainsOk(hmem, chains), h \in Buckets, n \in Nodes, <1>2, <2>5, <3>1, EnterOk
               DEF s
  <2>11. InsertAt(s, i, n) = PutOne(s, i-1, n) /\ InsertAt(s, i+1, n) = PutOne(s, i, n)
    BY <1>2, <2>5, InsertIs
  <2> QED  BY <2>3, <2>9, <2>10, <2>11
<1> QED  BY <1>1, <1>3, <1>4 DEF HCall

LEMMA DeletedOk ==
  ASSUME ChainsOk(hmem, chains), NEW n \in Hashed \union Faked
  PROVE  /\ ChainsOk(hlist_del(hmem, n), ChainsWithout(n))
         /\ ChainsOk(hlist_del_init(hmem, n), ChainsWithout(n))
<1>1. hmem \in HMemory
  BY DEF ChainsOk
<1>2. CASE n \in Hashed
  <2>1. PICK h \in Buckets : \E i \in 1 .. Len(chains[h]) : chains[h][i] = n
    BY <1>2, HashedIs
  <2>2. PICK i \in 1 .. Len(chains[h]) : chains[h][i] = n
    BY <2>1
  <2>3. ChainsWithout(n) = [chains EXCEPT ![h] = RemoveAt(chains[h], i)]
    BY <2>2, BucketIs
  <2> DEFINE p == SlotAt(h, chains[h], i-1)  o == NodeAt(chains[h], i+1)
  <2>4. /\ n \in Nodes /\ hmem.pprev[n] = p /\ p \in Slots
        /\ hmem.at[next(n)] = o /\ o \in Ends
    BY <2>2, AroundIs
  <2> HIDE DEF p, o
  <2>5. Left(hmem, hlist_del(hmem, n), n, p, o) /\ Left(hmem, hlist_del_init(hmem, n), n, p, o)
    BY <1>1, <2>4, DelWrites
  <2>6. ASSUME NEW r, Left(hmem, r, n, p, o)
        PROVE  ChainsOk(r, [chains EXCEPT ![h] = RemoveAt(chains[h], i)])
    BY <2>2, <2>6, LeaveOk DEF p, o
  <2> QED  BY <2>3, <2>5, <2>6
<1>3. CASE n \in Faked
  <2>1. n \in Nodes /\ n \notin Hashed /\ hmem.at[next(n)] = NULL /\ hmem.pprev[n] = next(n)
    BY <1>3, FakedIs DEF Faked
  <2>2. Unhashed(chains, n) /\ ChainsWithout(n) = chains
    BY <2>1, UnhashedIs
  <2>3. next(n) \in Slots /\ NULL \in Ends /\ NULL \notin Nodes
    BY <2>1, SlotsDiffer, HlistAssumption DEF Ends, NULL
  <2>4. /\ Left(hmem, hlist_del(hmem, n), n, next(n), NULL)
        /\ Left(hmem, hlist_del_init(hmem, n), n, next(n), NULL)
    BY <1>1, <2>1, <2>3, DelWrites
  <2>5. ASSUME NEW r, Left(hmem, r, n, next(n), NULL) PROVE ChainsOk(r, chains)
    <3>1. r \in HMemory /\ Loose(r, n)
      BY <2>5 DEF Left, Loose
    <3>2. \A y \in Slots \ {next(n)} : r.at[y] = hmem.at[y]
      BY <2>5 DEF Left
    <3>3. \A k \in Nodes \ {n} : r.pprev[k] = hmem.pprev[k]
      BY <2>3, <2>5 DEF Left
    <3> QED  BY <2>1, <2>2, <3>1, <3>2, <3>3, LooseOk
  <2> QED  BY <2>2, <2>4, <2>5
<1> QED  BY <1>2, <1>3

LEMMA HDeleteKeeps ==
  ASSUME ChainsOk(hmem, chains), HDelete
  PROVE  ChainsOk(hmem', chains') /\ hiter' = HNoLoop
<1>1. CASE \E n \in Hashed \union Faked : HCall(hlist_del(hmem, n), ChainsWithout(n))
  BY <1>1, DeletedOk DEF HCall
<1>2. ASSUME NEW n \in Nodes, hmem.pprev[n] # PoisonSlot,
             HCall(hlist_del_init(hmem, n), ChainsWithout(n))
      PROVE  ChainsOk(hmem', chains') /\ hiter' = HNoLoop
  <2>1. CASE n \in Hashed \union Faked
    BY <1>2, <2>1, DeletedOk DEF HCall
  <2>2. CASE n \notin Hashed \union Faked
    <3>1. Unhashed(chains, n) /\ ChainsWithout(n) = chains
      BY <2>2, UnhashedIs
    <3>2. hmem.pprev[n] = NoSlot
      BY <1>2, <2>2, <3>1 DEF ChainsOk, Loose, Faked
    <3>3. hlist_del_init(hmem, n) = hmem
      BY <3>2 DEF hlist_del_init, hlist_unhashed
    <3> QED  BY <1>2, <3>1, <3>3 DEF HCall
  <2> QED  BY <2>1, <2>2
<1> QED  BY <1>1, <1>2 DEF HDelete

LEMMA HFakeKeeps ==
  ASSUME ChainsOk(hmem, chains), HFake
  PROVE  ChainsOk(hmem', chains') /\ hiter' = HNoLoop
<1>1. PICK n \in Nodes \ Hashed :
        hmem.at[next(n)] = NULL /\ HCall(hlist_add_fake(hmem, n), chains)
  BY DEF HFake
<1> DEFINE r == SetPprev(hmem, n, next(n))
<1>2. hmem \in HMemory /\ Unhashed(chains, n) /\ n \in Ends /\ n # NULL /\ next(n) \in Slots
      /\ next(n) \in Addresses
  BY UnhashedIs, SlotsDiffer, HlistAssumption DEF ChainsOk, Ends, NULL, Addresses
<1>3. hlist_add_fake(hmem, n) = r
  BY <1>2 DEF hlist_add_fake, SetPprev
<1>4. /\ r \in HMemory
      /\ \A y \in Slots : r.at[y] = hmem.at[y]
      /\ \A k \in Nodes : r.pprev[k] = IF k = n THEN next(n) ELSE hmem.pprev[k]
  BY <1>2, PprevWrite
<1> HIDE DEF r
<1>5. Loose(r, n)
  BY <1>1, <1>2, <1>4 DEF Loose
<1>6. ChainsOk(r, chains)
  BY <1>2, <1>4, <1>5, LooseOk
<1> QED  BY <1>1, <1>3, <1>6 DEF HCall

LEMMA HMoveListKeeps ==
  ASSUME ChainsOk(hmem, chains), HMoveList
  PROVE  ChainsOk(hmem', chains') /\ hiter' = HNoLoop
<1>1. PICK old, new \in Buckets :
    /\ old # new /\ chains[new] = <<>>
    /\ HCall(hlist_move_list(hmem, old, new),
             [chains EXCEPT ![new] = chains[old], ![old] = <<>>])
  BY DEF HMoveList
<1>2. ChainsOk(hlist_move_list(hmem, old, new), [chains EXCEPT ![new] = chains[old], ![old] = <<>>])
  BY <1>1, MoveListOk
<1> QED  BY <1>1, <1>2 DEF HCall
-----------------------------------------------------------------------------
(* The loops.                                                              *)
LEMMA FirstIs ==
  ASSUME NEW m, NEW c, ChainsOk(m, c), NEW h \in Buckets
  PROVE  m.at[first(h)] = NodeAt(c[h], 1)
<1>1. Chained(m, h, c[h]) /\ 0 \in 0 .. Len(c[h]) /\ 0+1 = 1
  BY DEF ChainsOk
<1>2. m.at[SlotAt(h, c[h], 0)] = NodeAt(c[h], 0+1)
  BY <1>1 DEF Chained
<1> QED  BY <1>1, <1>2 DEF SlotAt

LEMMA TailNode ==
  ASSUME NEW t \in Seq(Nodes), t # <<>>
  PROVE  NodeAt(Tail(t), 1) = NodeAt(t, 2)
<1> DEFINE u == Tail(t)
<1>1. u \in Seq(Nodes) /\ Len(u) = Len(t) - 1 /\ \A j \in 1 .. Len(t)-1 : u[j] = t[j+1]
  OBVIOUS
<1> HIDE DEF u
<1>2. Len(t) \in Nat /\ Len(t) >= 1
  OBVIOUS
<1>3. CASE Len(t) = 1
  <2>1. 1 \notin 1 .. Len(u) /\ 2 \notin 1 .. Len(t)
    BY <1>3, <1>1
  <2> QED  BY <2>1 DEF NodeAt, u
<1>4. CASE Len(t) # 1
  <2>1. 1 \in 1 .. Len(u) /\ 2 \in 1 .. Len(t) /\ 1 \in 1 .. Len(t)-1
    BY <1>4, <1>1, <1>2
  <2>2. u[1] = t[2]
    BY <1>1, <2>1
  <2> QED  BY <2>1, <2>2 DEF NodeAt, u
<1> QED  BY <1>3, <1>4

(* Where the rest of a chain begins.                                       *)
LEMMA RestNodes ==
  ASSUME NEW t \in Seq(Nodes), NEW d \in Seq(Nodes), Rest(t, d), t # <<>>
  PROVE  LET j == Len(d) - Len(t) + 1 IN
         j \in 1 .. Len(d) /\ t[1] = d[j] /\ NodeAt(t, 2) = NodeAt(d, j+1)
<1> DEFINE j == Len(d) - Len(t) + 1
<1>1. /\ Len(t) \in Nat /\ Len(t) >= 1 /\ Len(t) <= Len(d) /\ Len(d) \in Nat
      /\ \A k \in 1 .. Len(t) : t[k] = d[Len(d) - Len(t) + k]
  BY DEF Rest
<1>2. j \in 1 .. Len(d) /\ 1 \in 1 .. Len(t)
  BY <1>1
<1>3. t[1] = d[j]
  BY <1>1, <1>2
<1>4. NodeAt(t, 2) = NodeAt(d, j+1)
  <2>1. CASE Len(t) = 1
    <3>1. 2 \notin 1 .. Len(t) /\ j+1 \notin 1 .. Len(d)
      BY <2>1, <1>1
    <3> QED  BY <3>1 DEF NodeAt
  <2>2. CASE Len(t) # 1
    <3>1. 2 \in 1 .. Len(t) /\ j+1 \in 1 .. Len(d) /\ Len(d) - Len(t) + 2 = j+1
      <4>1. Len(t) \in Nat /\ Len(t) >= 1 /\ Len(t) <= Len(d) /\ Len(d) \in Nat
        BY <1>1
      <4> QED  BY ONLY <4>1, <2>2, SecondOfRest DEF j
    <3>2. t[2] = d[j+1]
      BY <1>1, <3>1
    <3> QED  BY <3>1, <3>2 DEF NodeAt
  <2> QED  BY <2>1, <2>2
<1> QED  BY <1>2, <1>3, <1>4

LEMMA HLoopBeginKeeps ==
  ASSUME ChainsOk(hmem, chains), HLoopBegin
  PROVE  ChainsOk(hmem', chains') /\ HLoopInv'
<1>1. PICK h \in Buckets : hiter' = [n |-> hmem.at[first(h)], todo |-> chains[h]]
                           /\ hmem' = hmem /\ chains' = chains
  BY DEF HLoopBegin
<1>2. chains[h] \in Seq(Nodes) /\ hmem.at[first(h)] = NodeAt(chains[h], 1)
  BY FirstIs DEF ChainsOk
<1>3. Rest(chains[h], chains[h])
  <2>1. Len(chains[h]) \in Nat
    BY <1>2
  <2>2. \A j \in 1 .. Len(chains[h]) : Len(chains[h]) - Len(chains[h]) + j = j
    BY <2>1
  <2> QED  BY <2>1, <2>2 DEF Rest
<1>4. hiter'.todo = chains[h] /\ hiter'.n = NodeAt(chains[h], 1)
  BY <1>1, <1>2
<1>5. HLoopInv'
  <2>1. hiter'.todo \in Seq(Nodes) /\ Rest(hiter'.todo, chains'[h]) /\ hiter'.n = NodeAt(hiter'.todo, 1)
    BY <1>1, <1>2, <1>3, <1>4
  <2> QED  BY <2>1 DEF HLoopInv
<1> QED  BY <1>1, <1>5

LEMMA HLoopBodyKeeps ==
  ASSUME ChainsOk(hmem, chains), HLoopInv, HLoopBody
  PROVE  ChainsOk(hmem', chains') /\ HLoopInv'
<1> DEFINE t == hiter.todo  n == hiter.n
<1>1. hiter # HNoLoop
  <2>1. HNoLoop.n = "none" /\ "none" \notin Nodes /\ hiter.n \in Nodes
    BY HlistAssumption DEF HNoLoop, HLoopBody
  <2> QED  BY <2>1
<1>2. PICK h \in Buckets : Rest(t, chains[h])
  BY <1>1 DEF HLoopInv
<1>3. t \in Seq(Nodes) /\ n = NodeAt(t, 1) /\ n \in Nodes
  BY <1>1 DEF HLoopInv, HLoopBody
<1>4. \/ hmem' = hmem /\ chains' = chains
      \/ hmem' = hlist_del(hmem, n) /\ chains' = ChainsWithout(n)
      \/ hmem' = hlist_del_init(hmem, n) /\ chains' = ChainsWithout(n)
  BY DEF HLoopBody
<1>5. hiter' = [n |-> hmem.at[next(n)], todo |-> Tail(t)]
  BY DEF HLoopBody, HNeighbour
<1> DEFINE s == chains[h]
<1>6. s \in Seq(Nodes) /\ Len(s) \in Nat /\ chains \in [Buckets -> Seq(Nodes)]
  BY DEF ChainsOk
<1> HIDE DEF t, n
<1>7. t # <<>> /\ n = t[1]
  <2>1. NULL \notin Nodes
    BY HlistAssumption DEF NULL
  <2>2. 1 \in 1 .. Len(t) /\ n = t[1]
    BY <1>3, <2>1 DEF NodeAt
  <2> QED  BY <1>3, <2>2
<1> DEFINE j == Len(s) - Len(t) + 1
<1>8. j \in 1 .. Len(s) /\ t[1] = s[j] /\ NodeAt(t, 2) = NodeAt(s, j+1)
  BY <1>2, <1>3, <1>6, <1>7, RestNodes
<1>9. j+1 = Len(s) - Len(t) + 2 /\ Len(t) \in Nat
  BY <1>3, <1>6
<1> HIDE DEF j
<1>10. ChainsWithout(n) = [chains EXCEPT ![h] = RemoveAt(s, j)] /\ n \in Hashed
  <2>1. ChainsWithout(chains[h][j]) = [chains EXCEPT ![h] = RemoveAt(chains[h], j)]
    BY <1>8, BucketIs
  <2>2. chains[h][j] \in Hashed
    BY <1>8, HashedIs
  <2> QED  BY <1>7, <1>8, <2>1, <2>2
<1>11. hmem.at[next(n)] = NodeAt(Tail(t), 1)
  <2>1. hmem.at[next(chains[h][j])] = NodeAt(chains[h], j+1)
    BY <1>8, AroundIs
  <2>2. NodeAt(Tail(t), 1) = NodeAt(t, 2)
    BY <1>3, <1>7, TailNode
  <2> QED  BY <1>7, <1>8, <2>1, <2>2
<1>12. ChainsOk(hmem', chains')
  <2>1. ChainsOk(hlist_del(hmem, n), ChainsWithout(n))
    BY <1>10, DeletedOk
  <2>2. ChainsOk(hlist_del_init(hmem, n), ChainsWithout(n))
    BY <1>10, DeletedOk
  <2> QED  BY <1>4, <2>1, <2>2
<1>13. Rest(Tail(t), chains'[h]) /\ Tail(t) \in Seq(Nodes)
  <2>1. chains'[h] \in Seq(Nodes)
    BY <1>12 DEF ChainsOk
  <2>2. chains'[h] = s \/ chains'[h] = RemoveAt(s, j)
    BY <1>4, <1>6, <1>10
  <2>3. CASE chains'[h] = s
    BY <2>1, <2>3, <1>2, <1>3, <1>6, <1>7, TailRest
  <2>4. CASE chains'[h] = RemoveAt(s, j)
    <3> DEFINE q == chains'[h]
    <3>1. Len(q) = Len(s) - 1 /\ \A k \in j .. Len(s)-1 : q[k] = s[k+1]
      <4>1. Len(RemoveAt(s, j)) = Len(s) - 1
        BY <1>6, <1>8, RemoveAtIs
      <4>2. \A k \in j .. Len(s)-1 : RemoveAt(s, j)[k] = s[k+1]
        BY <1>6, <1>8, RemoveAtIs
      <4> QED  BY <2>4, <4>1, <4>2
    <3> HIDE DEF q, s
    <3>2. \A k \in Len(s) - Len(t) + 2 .. Len(s) : q[k-1] = s[k]
      <4> TAKE k \in Len(s) - Len(t) + 2 .. Len(s)
      <4>1. k-1 \in j .. Len(s)-1 /\ (k-1)+1 = k
        BY <1>6, <1>8, <1>9
      <4> QED  BY <4>1, <3>1
    <3>3. q \in Seq(Nodes) /\ Rest(t, s)
      BY <2>1, <1>2 DEF q, s
    <3>4. Rest(Tail(t), q) /\ Tail(t) \in Seq(Nodes)
      BY ONLY <1>3, <1>6, <1>7, <3>1, <3>2, <3>3, TailRest
    <3> QED  BY <3>4 DEF q
  <2> QED  BY <2>2, <2>3, <2>4
<1>14. hiter'.todo = Tail(t) /\ hiter'.n = NodeAt(Tail(t), 1)
  BY <1>5, <1>11
<1>15. HLoopInv'
  <2>1. /\ hiter'.todo \in Seq(Nodes) /\ Rest(hiter'.todo, chains'[h])
        /\ hiter'.n = NodeAt(hiter'.todo, 1)
    BY <1>13, <1>14
  <2> QED  BY <2>1 DEF HLoopInv
<1> QED  BY <1>12, <1>15
-----------------------------------------------------------------------------
HStep(m, x, f, k) ==
  IF k = 0 THEN m.at[x] ELSE IF f[k-1] \in Nodes THEN m.at[next(f[k-1])] ELSE f[k-1]

HWalk(m, x) == CHOOSE f : f = [k \in 0 .. Cardinality(Nodes) |-> HStep(m, x, f, k)]

LEMMA HWalkIs ==
  ASSUME NEW m, NEW c, ChainsOk(m, c), NEW h \in Buckets, NEW j \in 0 .. Len(c[h])
  PROVE  \A k \in 0 .. Cardinality(Nodes) :
           HWalk(m, SlotAt(h, c[h], j))[k] = NodeAt(c[h], j+1+k)
<1> DEFINE d == c[h]  N == Cardinality(Nodes)  x == SlotAt(h, d, j)
           g == [k \in 0 .. N |-> NodeAt(d, j+1+k)]
           f == HWalk(m, x)
<1>1. d \in Seq(Nodes) /\ Len(d) \in Nat /\ Once(d) /\ Chained(m, h, d)
  BY SeparateOnce DEF ChainsOk
<1>2. N \in Nat
  BY HlistAssumption, FS_CardinalityType
<1>3. m.at[x] = NodeAt(d, j+1)
  BY <1>1 DEF Chained
<1>a. NULL \notin Nodes
  BY HlistAssumption DEF NULL
<1> HIDE DEF d, N, x
<1>4. \A k \in 1 .. N : NodeAt(d, j+1+k) =
         IF NodeAt(d, j+k) \in Nodes THEN m.at[next(NodeAt(d, j+k))] ELSE NodeAt(d, j+k)
  <2> SUFFICES ASSUME NEW k \in 1 .. N
      PROVE  NodeAt(d, j+1+k) =
               IF NodeAt(d, j+k) \in Nodes THEN m.at[next(NodeAt(d, j+k))] ELSE NodeAt(d, j+k)
    OBVIOUS
  <2>0. j \in Nat /\ k \in Nat /\ k >= 1
    BY <1>1, <1>2 DEF d
  <2>1. CASE j+k \in 1 .. Len(d)
    <3>1. (j+k)+1 = j+1+k /\ j+k \in 0 .. Len(d)
      BY <2>0, <2>1, <1>1
    <3>2. NodeAt(d, j+k) = d[j+k] /\ d[j+k] \in Nodes
      BY <1>1, <2>1 DEF NodeAt
    <3>3. m.at[next(d[j+k])] = NodeAt(d, (j+k)+1)
      <4>1. SlotAt(h, d, j+k) = next(d[j+k])
        BY <1>1, <2>1, ChainSlots
      <4> QED  BY <3>1, <4>1, <1>1 DEF Chained
    <3> QED  BY <3>1, <3>2, <3>3
  <2>2. CASE j+k \notin 1 .. Len(d)
    <3>1. j+1+k \notin 1 .. Len(d)
      BY <2>0, <1>1, <1>2, <2>2
    <3> QED  BY <2>2, <3>1, <1>a DEF NodeAt
  <2> QED  BY <2>1, <2>2
<1>5. \A k \in 1 .. N : k-1 \in 0 .. N /\ j+1+(k-1) = j+k /\ k # 0
  BY <1>1, <1>2 DEF d
<1>6. g = [k \in 0 .. N |-> HStep(m, x, g, k)]
  <2>1. \A k \in 1 .. N : g[k-1] = NodeAt(d, j+k)
    BY <1>5
  <2>2. ASSUME NEW k \in 0 .. N PROVE NodeAt(d, j+1+k) = HStep(m, x, g, k)
    <3>1. CASE k = 0
      BY <3>1, <1>3 DEF HStep
    <3>2. CASE k # 0
      <4>1. k \in 1 .. N
        BY <3>2, <1>2
      <4>2. g[k-1] = NodeAt(d, j+k)
        BY <2>1, <4>1
      <4> HIDE DEF g
      <4> QED  BY <1>4, <3>2, <4>1, <4>2 DEF HStep
    <3> QED  BY <3>1, <3>2
  <2> QED  BY <2>2
<1>7. f = [k \in 0 .. N |-> HStep(m, x, f, k)]
  <2> HIDE DEF g
  <2> QED  BY <1>6 DEF HWalk, N
<1> DEFINE S == {k \in Nat : k <= N => f[k] = NodeAt(d, j+1+k)}
<1> HIDE DEF f, g
<1>8. 0 \in S
  <2>1. 0 \in 0 .. N /\ j+1+0 = j+1
    BY <1>1, <1>2 DEF d
  <2>2. f[0] = HStep(m, x, f, 0)
    BY <1>7, <2>1
  <2> QED  BY <2>1, <2>2, <1>3 DEF HStep
<1>9. ASSUME NEW k \in Nat, k \in S PROVE k+1 \in S
  <2> SUFFICES ASSUME k+1 <= N PROVE f[k+1] = NodeAt(d, j+1+(k+1))
    OBVIOUS
  <2>1. k+1 \in 1 .. N /\ k+1 \in 0 .. N /\ (k+1)-1 = k /\ k+1 # 0 /\ k <= N /\ j+(k+1) = j+1+k
    BY <1>1, <1>2 DEF d
  <2>2. f[k+1] = HStep(m, x, f, k+1)
    BY <1>7, <2>1
  <2>3. f[k] = NodeAt(d, j+(k+1))
    BY <1>9, <2>1
  <2>4. HStep(m, x, f, k+1) = IF f[k] \in Nodes THEN m.at[next(f[k])] ELSE f[k]
    BY <2>1 DEF HStep
  <2>5. NodeAt(d, j+1+(k+1)) = IF NodeAt(d, j+(k+1)) \in Nodes
          THEN m.at[next(NodeAt(d, j+(k+1)))] ELSE NodeAt(d, j+(k+1))
    BY <1>4, <2>1
  <2> QED  BY <2>2, <2>3, <2>4, <2>5
<1>10. \A k \in Nat : k \in S
  <2> HIDE DEF S
  <2> QED  BY <1>8, <1>9, NatInductionOnSet
<1>11. \A k \in 0 .. N : f[k] = NodeAt(d, j+1+k)
  BY <1>2, <1>10
<1> QED  BY <1>11 DEF f, d, N, x

LEMMA ChainIsShort ==
  ASSUME NEW s \in Seq(Nodes), Once(s)
  PROVE  Len(s) <= Cardinality(Nodes) /\ Cardinality(Nodes) \in Nat
<1>1. s \in [1 .. Len(s) -> Nodes] /\ Len(s) \in Nat
  OBVIOUS
<1>2. s \in Injection(1 .. Len(s), Nodes)
  BY <1>1 DEF Injection, IsInjective, Once
<1>3. Cardinality(1 .. Len(s)) <= Cardinality(Nodes)
  BY <1>2, HlistAssumption, FS_Injection
<1>4. Cardinality(1 .. Len(s)) = Len(s)
  <2>1. Len(s) \in Int /\ Len(s) \in Nat
    OBVIOUS
  <2>2. \A n \in Int : Cardinality(1 .. n) = IF 1 > n THEN 0 ELSE n-1+1
    BY FS_Interval
  <2> QED  BY <2>1, <2>2
<1>5. Cardinality(Nodes) \in Nat
  BY HlistAssumption, FS_CardinalityType
<1> QED  BY <1>3, <1>4, <1>5

(* A loop that starts at a slot of a chain sees the nodes behind it.       *)
LEMMA HWalkSees ==
  ASSUME NEW m, NEW c, ChainsOk(m, c), NEW h \in Buckets, NEW j \in 0 .. Len(c[h])
  PROVE  hlist_walk(m, SlotAt(h, c[h], j)) = SubSeq(c[h], j+1, Len(c[h]))
<1> DEFINE d == c[h]  N == Cardinality(Nodes)  x == SlotAt(h, d, j)
           f == HWalk(m, x)
           end == {k \in 0 .. N : f[k] = NULL}
           r == hlist_walk(m, x)
<1>1. d \in Seq(Nodes) /\ Len(d) \in Nat /\ Once(d)
  BY SeparateOnce DEF ChainsOk
<1>2. Len(d) <= N /\ N \in Nat
  BY <1>1, ChainIsShort
<1>3. \A k \in 0 .. N : f[k] = NodeAt(d, j+1+k)
  BY HWalkIs
<1>a. NULL \notin Nodes
  BY HlistAssumption DEF NULL
<1>b. j \in 0 .. Len(d)
  OBVIOUS
<1>4. r = [i \in 1 .. (IF end = {} THEN N + 1 ELSE Min(end)) |-> f[i-1]]
  BY DEF hlist_walk, HWalk, HStep
<1> HIDE DEF d, N, f, r
<1> DEFINE n == Len(d) - j
<1>5. n \in Nat /\ n <= N
  BY <1>1, <1>2, <1>b
<1>6. \A k \in 0 .. N : f[k] = NULL <=> k >= n
  <2> SUFFICES ASSUME NEW k \in 0 .. N PROVE f[k] = NULL <=> k >= n
    OBVIOUS
  <2>1. CASE k >= n
    <3>1. j+1+k \notin 1 .. Len(d)
      BY <1>1, <1>b, <2>1
    <3> QED  BY <1>3, <2>1, <3>1 DEF NodeAt
  <2>2. CASE ~(k >= n)
    <3>1. j+1+k \in 1 .. Len(d)
      BY <1>1, <1>b, <2>2
    <3>2. f[k] = d[j+1+k] /\ d[j+1+k] \in Nodes
      BY <1>1, <1>3, <3>1 DEF NodeAt
    <3> QED  BY <3>2, <2>2, <1>a
  <2> QED  BY <2>1, <2>2
<1>7. n \in end /\ \A y \in end : n <= y /\ y \in Nat
  BY <1>2, <1>5, <1>6
<1>8. end # {} /\ Min(end) = n
  <2> HIDE DEF end, n
  <2>1. Min(end) \in end /\ \A y \in end : Min(end) <= y
    BY <1>7 DEF Min
  <2>2. Min(end) <= n /\ n <= Min(end) /\ Min(end) \in Nat
    BY <2>1, <1>7
  <2> QED  BY <1>5, <1>7, <2>2
<1>9. r = [i \in 1 .. n |-> f[i-1]]
  <2> HIDE DEF n, end
  <2> QED  BY <1>4, <1>8
<1>10. \A i \in 1 .. n : f[i-1] = d[j+i] /\ d[j+i] \in Nodes
  <2> SUFFICES ASSUME NEW i \in 1 .. n PROVE f[i-1] = d[j+i] /\ d[j+i] \in Nodes
    OBVIOUS
  <2>1. i-1 \in 0 .. N /\ j+1+(i-1) = j+i /\ j+i \in 1 .. Len(d)
    BY <1>1, <1>2, <1>b
  <2> QED  BY <1>1, <1>3, <2>1 DEF NodeAt
<1> DEFINE u == SubSeq(d, j+1, Len(d))
<1>11. u \in Seq(Nodes) /\ Len(u) = n /\ \A i \in 1 .. n : u[i] = d[j+i]
  <2>1. u \in Seq(Nodes) /\ Len(u) = n
    BY <1>1, <1>b
  <2>2. \A i \in 1 .. n : u[i] = d[(j+1) + i - 1] /\ (j+1) + i - 1 = j+i
    BY <1>1, <1>b
  <2> QED  BY <2>1, <2>2
<1> HIDE DEF u, n
<1>12. r \in Seq(Nodes) /\ Len(r) = n /\ \A i \in 1 .. n : r[i] = d[j+i]
  <2>1. r \in [1 .. n -> Nodes] /\ \A i \in 1 .. n : r[i] = d[j+i]
    BY <1>9, <1>10
  <2> QED  BY <1>5, <2>1
<1>13. r = u
  BY <1>11, <1>12, SeqEqual
<1> QED  BY <1>13 DEF r, u, x, d

LEMMA HLoopsSee ==
  ASSUME ChainsOk(hmem, chains)
  PROVE  ChainsAreSequences
<1>1. ASSUME NEW h \in Buckets
      PROVE  /\ hlist_for_each(hmem, h) = chains[h]
             /\ hlist_empty(hmem, h) = (chains[h] = <<>>)
             /\ \A i \in DOMAIN chains[h] :
                  hlist_for_each_entry_continue(hmem, chains[h][i])
                    = SubSeq(chains[h], i+1, Len(chains[h]))
  <2> DEFINE s == chains[h]
  <2>1. s \in Seq(Nodes) /\ Len(s) \in Nat /\ DOMAIN s = 1 .. Len(s)
    BY DEF ChainsOk
  <2>2. \A j \in 0 .. Len(s) : hlist_walk(hmem, SlotAt(h, s, j)) = SubSeq(s, j+1, Len(s))
    BY HWalkSees
  <2>3. SlotAt(h, s, 0) = first(h) /\ 0 \in 0 .. Len(s) /\ 0+1 = 1
    BY <2>1 DEF SlotAt
  <2>4. hlist_for_each(hmem, h) = s
    <3>1. hlist_for_each(hmem, h) = SubSeq(s, 1, Len(s))
      BY <2>2, <2>3 DEF hlist_for_each
    <3> QED  BY <2>1, <3>1, SubSeqFull
  <2>5. hlist_empty(hmem, h) = (s = <<>>)
    <3>1. hmem.at[first(h)] = NodeAt(s, 1) /\ NULL \notin Nodes
      BY FirstIs, HlistAssumption DEF NULL
    <3>2. NodeAt(s, 1) = NULL <=> s = <<>>
      BY <2>1, <3>1 DEF NodeAt
    <3> QED  BY <3>1, <3>2 DEF hlist_empty
  <2>6. ASSUME NEW i \in 1 .. Len(s)
        PROVE  hlist_for_each_entry_continue(hmem, s[i]) = SubSeq(s, i+1, Len(s))
    <3>1. SlotAt(h, chains[h], i) = next(chains[h][i])
      BY AroundIs
    <3> QED  BY <2>1, <2>2, <3>1 DEF hlist_for_each_entry_continue
  <2> QED  BY <2>1, <2>4, <2>5, <2>6
<1>2. ASSUME NEW n \in Hashed PROVE hmem.at[hmem.pprev[n]] = n
  <2>1. PICK h \in Buckets : \E i \in 1 .. Len(chains[h]) : chains[h][i] = n
    BY HashedIs
  <2>2. PICK i \in 1 .. Len(chains[h]) : chains[h][i] = n
    BY <2>1
  <2> QED  BY <2>2, AroundIs
<1> QED  BY <1>1, <1>2 DEF ChainsAreSequences

LEMMA HlistInvInit ==
  HlistInit => HlistInv
<1> SUFFICES ASSUME HlistInit PROVE HlistInv
  OBVIOUS
<1>1. hmem \in HMemory
  BY DEF HlistInit, HMemory, Held, Addresses
<1>2. chains \in [Buckets -> Seq(Nodes)] /\ \A h \in Buckets : chains[h] = <<>>
  BY DEF HlistInit
<1>3. Separate(chains)
  BY <1>2 DEF Separate
<1>4. ASSUME NEW h \in Buckets PROVE Chained(hmem, h, chains[h])
  <2>1. hmem.at[first(h)] = NULL
    BY SlotsDiffer DEF HlistInit
  <2>2. SlotAt(h, chains[h], 0) = first(h) /\ \A k : NodeAt(chains[h], k) = NULL
    BY <1>2 DEF SlotAt, NodeAt
  <2>3. (\A i \in 0 .. Len(chains[h]) : i = 0) /\ (\A i \in 1 .. Len(chains[h]) : FALSE)
    <3>1. Len(chains[h]) = 0
      BY <1>2
    <3> QED  BY ONLY <3>1
  <2> QED  BY <2>1, <2>2, <2>3 DEF Chained
<1>5. \A n \in Nodes : Loose(hmem, n)
  BY DEF HlistInit, Loose
<1>6. HLoopInv
  BY DEF HLoopInv, HlistInit
<1> QED  BY <1>1, <1>2, <1>3, <1>4, <1>5, <1>6 DEF HlistInv, ChainsOk

LEMMA HlistInvNext ==
  HlistInv /\ [HlistNext]_hlistVars => HlistInv'
<1> SUFFICES ASSUME HlistInv, [HlistNext]_hlistVars
             PROVE  ChainsOk(hmem', chains') /\ HLoopInv'
  BY DEF HlistInv, ChainsOk, HMemory, Chained, Separate, Unhashed, Loose, SlotAt, NodeAt, Held,
         Addresses, Slots
<1>1. ChainsOk(hmem, chains) /\ HLoopInv
  BY DEF HlistInv
<1>2. ASSUME hiter' = HNoLoop PROVE HLoopInv'
  BY <1>2 DEF HLoopInv, HNoLoop
<1>3. CASE HAdd \/ HFake \/ HDelete \/ HMoveList
  BY <1>1, <1>2, <1>3, HAddKeeps, HFakeKeeps, HDeleteKeeps, HMoveListKeeps
<1>4. CASE HLoopBegin
  BY <1>1, <1>4, HLoopBeginKeeps
<1>5. CASE HLoopBody
  BY <1>1, <1>5, HLoopBodyKeeps
<1>6. CASE HLoopEnd
  <2>1. hmem' = hmem /\ chains' = chains /\ hiter' = HNoLoop
    BY <1>6 DEF HLoopEnd
  <2> QED  BY <1>1, <1>2, <2>1
<1>7. CASE UNCHANGED hlistVars
  <2>1. hmem' = hmem /\ chains' = chains /\ hiter' = hiter
    BY <1>7 DEF hlistVars
  <2> QED  BY <1>1, <2>1 DEF HLoopInv, HNoLoop
<1> QED  BY <1>3, <1>4, <1>5, <1>6, <1>7 DEF HlistNext

(* After any sequence of calls a loop over a chain sees exactly the nodes  *)
(* put on it, every pprev is the slot that holds its node, and a safe loop *)
(* visits every node although its body deletes them, for every number of   *)
(* nodes and chains.                                                       *)
THEOREM ChainsAreRight == HlistSpec => []ChainsRight
<1>1. HlistInv => ChainsRight
  <2> SUFFICES ASSUME HlistInv PROVE ChainsAreSequences /\ SafeHloopVisitsAll
    BY DEF ChainsRight
  <2>1. ChainsAreSequences
    BY HLoopsSee DEF HlistInv
  <2>2. SafeHloopVisitsAll
    <3> SUFFICES ASSUME hiter # HNoLoop
        PROVE  hiter.n = (IF hiter.todo = <<>> THEN NULL ELSE Head(hiter.todo))
      BY DEF SafeHloopVisitsAll
    <3> DEFINE t == hiter.todo
    <3>1. t \in Seq(Nodes) /\ hiter.n = NodeAt(t, 1)
      BY DEF HlistInv, HLoopInv
    <3> HIDE DEF t
    <3>2. NodeAt(t, 1) = IF t = <<>> THEN NULL ELSE Head(t)
      BY <3>1 DEF NodeAt
    <3> QED  BY <3>1, <3>2 DEF t
  <2> QED  BY <2>1, <2>2
<1> QED  BY <1>1, HlistInvInit, HlistInvNext, PTL DEF HlistSpec
=============================================================================
