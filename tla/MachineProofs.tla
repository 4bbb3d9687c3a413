---------------------------- MODULE MachineProofs ----------------------------
(***************************************************************************)
(* Theorems about Machine, for every set of registers, words and field     *)
(* cells and every instruction: the recorder refuses no query the machine  *)
(* makes, what it logs passes the memory argument, the tables it leaves    *)
(* are the machine, and an event is found by its space and its slot.       *)
(*                                                                         *)
(* An instruction's queries are sequences put end to end.  What is proved  *)
(* of each is a Segment: its queries play, each reading what is there and  *)
(* leaving what it writes, from one memory to another, and they are in the *)
(* order the recorder needs.  Two segments make one when the sorts of      *)
(* query in them precede each other.  The invariant says that the queries  *)
(* still to be logged are such a segment, from the tables to the machine.  *)
(***************************************************************************)
EXTENDS Machine, MemoryLogProofs, SequenceTheorems

-----------------------------------------------------------------------------
(* Memories and queries *)

AllCells == Cell \cup FieldCells
Stores == [AllCells -> Value]

\* The memory of which mem and fld are the machine's two parts.
Joint(mem, fld) ==
  [c \in AllCells |-> IF c \in Chained THEN mem[c] ELSE IF c \in FieldCells THEN fld[c] ELSE Zero]

Query ==
  {q \in [cell : AllCells, delta : 0..3, read : Value, write : Value] :
     q.cell \in Anchors => q.write = Zero}

KindOf(c) == IF c \in FieldCells THEN "field" ELSE SpaceOf(c)
Sort(q) == <<KindOf(q.cell), q.delta>>

\* What the recorder needs of a query and a later one of the same cycle.
Before(p, q) ==
  /\ p.cell = q.cell => p.delta < q.delta
  /\ KindOf(p.cell) # "field" /\ KindOf(q.cell) # "field" =>
       /\ p.delta <= q.delta
       /\ Sort(p) = Sort(q) => KindOf(q.cell) = "ram" /\ q.delta \in {Slot.frame, Slot.data}

\* Queries of one sort are before all of the other.
Precedes(x, y) ==
  \/ x[2] < y[2]
  \/ x[1] # y[1] /\ (x[2] = y[2] \/ x[1] = "field" \/ y[1] = "field")

Ordered(s) == \A i, j \in 1..Len(s) : i < j => Before(s[i], s[j])

\* One after the other, the queries lead from memory a to memory b.
Plays(s, a, b) ==
  \E st \in [0..Len(s) -> Stores] :
    /\ st[0] = a /\ st[Len(s)] = b
    /\ \A j \in 1..Len(s) : /\ s[j].read = st[j - 1][s[j].cell]
                            /\ st[j] = [st[j - 1] EXCEPT ![s[j].cell] = s[j].write]

Segment(s, sorts, a, b) ==
  /\ s \in Seq(Query)
  /\ \A j \in 1..Len(s) : Sort(s[j]) \in sorts
  /\ Ordered(s)
  /\ Plays(s, a, b)

-----------------------------------------------------------------------------
(* Cells *)

LEMMA KindsOfCells ==
  /\ \A c \in Registers : c \in Chained /\ c \in AllCells /\ c \notin FieldCells /\ KindOf(c) = "reg"
  /\ \A c \in Words : c \in Chained /\ c \in AllCells /\ c \notin FieldCells /\ KindOf(c) = "ram"
  /\ Pc \in Chained /\ Pc \in AllCells /\ Pc \notin FieldCells /\ KindOf(Pc) = "pc"
  /\ \A c \in Anchors : c \notin Chained /\ c \in AllCells /\ c \notin FieldCells /\ KindOf(c) = "anchor"
  /\ \A c \in FieldCells : c \notin Chained /\ c \in AllCells /\ c \notin Anchors /\ KindOf(c) = "field"
  /\ \A c \in AllCells : KindOf(c) = "pc" => c = Pc
  /\ \A c \in AllCells : KindOf(c) = "field" <=> c \in FieldCells
BY SpacesAssumption, CellsAssumption DEF AllCells, Cell, KindOf, SpaceOf

LEMMA QueriesTyped ==
  ASSUME NEW q \in Query
  PROVE  /\ q.cell \in AllCells /\ q.delta \in 0..3 /\ q.delta \in Nat
         /\ q.read \in Value /\ q.write \in Value
         /\ q.cell \in Anchors => q.write = Zero
BY DEF Query

\* Queries whose sorts precede each other are in order.
LEMMA SortsOrder ==
  ASSUME NEW p \in Query, NEW q \in Query, Precedes(Sort(p), Sort(q))
  PROVE  Before(p, q)
<1>1. p.delta \in Nat /\ q.delta \in Nat
  BY QueriesTyped
<1>2. Sort(p)[1] = KindOf(p.cell) /\ Sort(p)[2] = p.delta
  BY DEF Sort
<1>3. Sort(q)[1] = KindOf(q.cell) /\ Sort(q)[2] = q.delta
  BY DEF Sort
<1>4. Sort(p) = Sort(q) => Sort(p)[1] = Sort(q)[1] /\ Sort(p)[2] = Sort(q)[2]
  OBVIOUS
<1>5. p.cell = q.cell => KindOf(p.cell) = KindOf(q.cell)
  OBVIOUS
<1> QED
  BY <1>1, <1>2, <1>3, <1>4, <1>5 DEF Before, Precedes

LEMMA JointTyped ==
  ASSUME NEW mem \in [Chained -> Value], NEW fld \in [FieldCells -> Value]
  PROVE  /\ Joint(mem, fld) \in Stores
         /\ \A c \in Chained : Joint(mem, fld)[c] = mem[c]
         /\ \A c \in FieldCells : Joint(mem, fld)[c] = fld[c]
         /\ \A c \in Anchors : Joint(mem, fld)[c] = Zero
<1>1. \A c \in AllCells : Joint(mem, fld)[c] = IF c \in Chained THEN mem[c] ELSE IF c \in FieldCells THEN fld[c] ELSE Zero
  BY DEF Joint
<1>2. Joint(mem, fld) \in Stores
  BY <1>1, ValueAssumption DEF Joint, Stores
<1> QED
  BY <1>1, <1>2, CellsAssumption DEF AllCells, Cell

-----------------------------------------------------------------------------
(* Segments *)

LEMMA EmptySegment ==
  ASSUME NEW a \in Stores, NEW sorts
  PROVE  Segment(<<>>, sorts, a, a)
<1> DEFINE st == [j \in 0..0 |-> a]
<1>1. Len(<<>>) = 0 /\ <<>> \in Seq(Query)
  OBVIOUS
<1>2. st \in [0..Len(<<>>) -> Stores] /\ st[0] = a
  BY <1>1
<1> HIDE DEF st
<1>3. Plays(<<>>, a, a)
  BY <1>1, <1>2 DEF Plays
<1> QED
  BY <1>1, <1>3 DEF Segment, Ordered

LEMMA OneQuerySegment ==
  ASSUME NEW a \in Stores, NEW q \in Query, NEW sorts, Sort(q) \in sorts, q.read = a[q.cell]
  PROVE  Segment(<<q>>, sorts, a, [a EXCEPT ![q.cell] = q.write])
<1> DEFINE b == [a EXCEPT ![q.cell] = q.write]
           s == <<q>>
           st == [j \in 0..1 |-> IF j = 0 THEN a ELSE b]
<1>1. Len(s) = 1 /\ s \in Seq(Query) /\ s[1] = q
  OBVIOUS
<1>2. b \in Stores
  BY QueriesTyped DEF Stores
<1> HIDE DEF b
<1>3. st \in [0..1 -> Stores] /\ st[0] = a /\ st[1] = b
  BY <1>2
<1> HIDE DEF st, s
<1>4. Plays(s, a, b)
  <2>1. ASSUME NEW j \in 1..1
        PROVE  /\ s[j].read = st[j - 1][s[j].cell]
               /\ st[j] = [st[j - 1] EXCEPT ![s[j].cell] = s[j].write]
    <3>1. j = 1 /\ j - 1 = 0
      OBVIOUS
    <3>2. b = [a EXCEPT ![q.cell] = q.write]
      BY DEF b
    <3> QED
      BY <3>1, <3>2, <1>1, <1>3
  <2> QED
    BY <2>1, <1>1, <1>3 DEF Plays
<1>5. Ordered(s)
  BY <1>1 DEF Ordered
<1> QED
  BY <1>1, <1>4, <1>5 DEF Segment, s, b

LEMMA SegmentsJoin ==
  ASSUME NEW s, NEW t, NEW x, NEW y, NEW a, NEW b, NEW c,
         Segment(s, x, a, b), Segment(t, y, b, c),
         \A u \in x, w \in y : Precedes(u, w)
  PROVE  Segment(s \o t, x \cup y, a, c)
<1> DEFINE m == Len(s)
           n == Len(t)
           r == s \o t
<1>1. s \in Seq(Query) /\ t \in Seq(Query)
  BY DEF Segment
<1>2. m \in Nat /\ n \in Nat /\ r \in Seq(Query) /\ Len(r) = m + n
  BY <1>1, ConcatProperties
<1>3. /\ \A j \in 1..m : r[j] = s[j]
      /\ \A j \in 1..n : r[m + j] = t[j]
      /\ \A j \in 1..(m + n) : j \in 1..m \/ (j - m \in 1..n /\ r[j] = t[j - m])
  BY <1>1
<1> HIDE DEF r, m, n
<1>4. \A j \in 1..Len(r) : Sort(r[j]) \in x \cup y
  BY <1>2, <1>3 DEF Segment, m, n
<1>5. Ordered(r)
  <2> SUFFICES ASSUME NEW i \in 1..(m + n), NEW j \in 1..(m + n), i < j
               PROVE  Before(r[i], r[j])
    BY <1>2 DEF Ordered
  <2>1. CASE j \in 1..m
    <3>1. i \in 1..m
      BY <2>1, <1>2
    <3> QED
      BY <2>1, <3>1, <1>3 DEF Segment, Ordered, m
  <2>2. CASE i \in 1..m /\ j \notin 1..m
    <3>1. j - m \in 1..n /\ r[j] = t[j - m] /\ r[i] = s[i]
      BY <2>2, <1>3
    <3>2. Precedes(Sort(s[i]), Sort(t[j - m])) /\ s[i] \in Query /\ t[j - m] \in Query
      BY <2>2, <3>1, <1>1 DEF Segment, m, n
    <3> QED
      BY <3>1, <3>2, SortsOrder
  <2>3. CASE i \notin 1..m
    <3>1. j \notin 1..m /\ i - m < j - m
      BY <2>3, <1>2
    <3>2. /\ i - m \in 1..n /\ r[i] = t[i - m]
          /\ j - m \in 1..n /\ r[j] = t[j - m]
      BY <2>3, <3>1, <1>3
    <3> QED
      BY <3>1, <3>2 DEF Segment, Ordered, n
  <2> QED
    BY <2>1, <2>2, <2>3
<1>6. Plays(r, a, c)
  <2>1. PICK p \in [0..m -> Stores] :
          /\ p[0] = a /\ p[m] = b
          /\ \A j \in 1..m : /\ s[j].read = p[j - 1][s[j].cell]
                             /\ p[j] = [p[j - 1] EXCEPT ![s[j].cell] = s[j].write]
    BY DEF Segment, Plays, m
  <2>2. PICK q \in [0..n -> Stores] :
          /\ q[0] = b /\ q[n] = c
          /\ \A j \in 1..n : /\ t[j].read = q[j - 1][t[j].cell]
                             /\ q[j] = [q[j - 1] EXCEPT ![t[j].cell] = t[j].write]
    BY DEF Segment, Plays, n
  <2> DEFINE st == [j \in 0..(m + n) |-> IF j <= m THEN p[j] ELSE q[j - m]]
  <2>3. st \in [0..(m + n) -> Stores]
    <3> SUFFICES ASSUME NEW j \in 0..(m + n) PROVE (IF j <= m THEN p[j] ELSE q[j - m]) \in Stores
      OBVIOUS
    <3>1. CASE j <= m
      BY <3>1, <1>2, <2>1
    <3>2. CASE ~(j <= m)
      <4>1. j - m \in 0..n
        BY <3>2, <1>2
      <4> QED
        BY <3>2, <4>1, <2>2
    <3> QED
      BY <3>1, <3>2
  <2>4. /\ \A j \in 0..m : st[j] = p[j]
        /\ \A j \in 0..n : st[m + j] = q[j]
    <3>1. ASSUME NEW j \in 0..m PROVE st[j] = p[j]
      BY <1>2
    <3>2. ASSUME NEW j \in 0..n PROVE st[m + j] = q[j]
      <4>1. m + j \in 0..(m + n) /\ (m + j) - m = j
        BY <1>2
      <4>2. CASE j = 0
        BY <4>1, <4>2, <1>2, <2>1, <2>2
      <4>3. CASE j # 0
        BY <4>1, <4>3, <1>2
      <4> QED
        BY <4>2, <4>3
    <3> QED
      BY <3>1, <3>2
  <2> HIDE DEF st
  <2>5. st[0] = a /\ st[m + n] = c
    BY <1>2, <2>1, <2>2, <2>4
  <2>6. ASSUME NEW j \in 1..(m + n)
        PROVE  /\ r[j].read = st[j - 1][r[j].cell]
               /\ st[j] = [st[j - 1] EXCEPT ![r[j].cell] = r[j].write]
    <3>1. CASE j \in 1..m
      <4>1. j - 1 \in 0..m /\ j \in 0..m
        BY <3>1, <1>2
      <4> QED
        BY <3>1, <4>1, <1>3, <2>1, <2>4
    <3>2. CASE j \notin 1..m
      <4> DEFINE k == j - m
      <4>1. k \in 1..n /\ r[j] = t[k]
        BY <3>2, <1>3
      <4>2. k - 1 \in 0..n /\ k \in 0..n /\ m + k = j /\ m + (k - 1) = j - 1
        BY <4>1, <1>2
      <4> HIDE DEF k
      <4>3. st[j] = q[k] /\ st[j - 1] = q[k - 1]
        BY <4>2, <2>4
      <4> QED
        BY <4>1, <4>3, <2>2
    <3> QED
      BY <3>1, <3>2
  <2> QED
    BY <1>2, <2>3, <2>5, <2>6 DEF Plays
<1> QED
  BY <1>2, <1>4, <1>5, <1>6 DEF Segment, r

\* Queries of one slot, of cells of one kind, no two of the same: each reads
\* what is there, and they write new.
LEMMA EachSegment ==
  ASSUME NEW a \in Stores, NEW s, NEW S \in SUBSET AllCells, DistinctIn(s, S),
         NEW delta \in 0..3, NEW new \in [1..Len(s) -> Value], NEW kind,
         \A c \in S : KindOf(c) = kind /\ c \notin Anchors,
         kind = "field" \/ (kind = "ram" /\ delta \in {Slot.frame, Slot.data})
  PROVE  Segment([j \in 1..Len(s) |-> QueryOf(s[j], delta, a[s[j]], new[j])],
                 {<<kind, delta>>}, a, WrittenOver(a, s, new))
<1> DEFINE n == Len(s)
           qs == [j \in 1..n |-> QueryOf(s[j], delta, a[s[j]], new[j])]
           at(k) == [c \in AllCells |-> IF \E j \in 1..k : s[j] = c
                                       THEN new[CHOOSE j \in 1..n : s[j] = c] ELSE a[c]]
           st == [k \in 0..n |-> at(k)]
<1>1. /\ s \in Seq(S) /\ n \in Nat /\ \A j \in 1..n : s[j] \in S /\ s[j] \in AllCells
      /\ \A i, j \in 1..n : s[i] = s[j] => i = j
  BY DEF DistinctIn
<1>2. \A j \in 1..n : (CHOOSE i \in 1..n : s[i] = s[j]) = j
  BY <1>1
<1>3. /\ qs \in Seq(Query) /\ Len(qs) = n
      /\ \A j \in 1..n : /\ qs[j].cell = s[j] /\ qs[j].delta = delta
                         /\ qs[j].read = a[s[j]] /\ qs[j].write = new[j]
  <2>1. ASSUME NEW j \in 1..n PROVE qs[j] \in Query
    <3>1. a[s[j]] \in Value /\ new[j] \in Value /\ s[j] \notin Anchors
      BY <1>1 DEF Stores
    <3> QED
      BY <3>1, <1>1 DEF Query, QueryOf
  <2>2. \A j \in 1..n : qs[j] = [cell |-> s[j], delta |-> delta, read |-> a[s[j]], write |-> new[j]]
    BY DEF QueryOf
  <2>3. qs \in [1..n -> Query] /\ DOMAIN qs = 1..n
    BY <2>1
  <2> HIDE DEF qs
  <2> QED
    BY <2>2, <2>3, <1>1
<1>4. \A k \in 0..n : at(k) \in Stores
  <2> SUFFICES ASSUME NEW k \in 0..n, NEW c \in AllCells
               PROVE  (IF \E j \in 1..k : s[j] = c
                       THEN new[CHOOSE j \in 1..n : s[j] = c] ELSE a[c]) \in Value
    BY DEF Stores
  <2>1. CASE \E j \in 1..k : s[j] = c
    <3>1. PICK j \in 1..n : s[j] = c
      BY <2>1, <1>1
    <3> QED
      BY <2>1, <3>1, <1>2
  <2>2. CASE ~ \E j \in 1..k : s[j] = c
    BY <2>2 DEF Stores
  <2> QED
    BY <2>1, <2>2
<1>5. st \in [0..n -> Stores] /\ \A k \in 0..n : st[k] = at(k)
  BY <1>4
<1>6. at(0) = a
  <2>1. ~ \E j \in 1..0 : TRUE
    OBVIOUS
  <2>2. a = [c \in AllCells |-> a[c]]
    BY DEF Stores
  <2> QED
    BY <2>1, <2>2
<1>7. at(n) = WrittenOver(a, s, new)
  <2>1. DOMAIN a = AllCells
    BY DEF Stores
  <2> QED
    BY <2>1 DEF WrittenOver
<1>8. ASSUME NEW j \in 1..n
      PROVE  /\ a[s[j]] = at(j - 1)[s[j]]
             /\ at(j) = [at(j - 1) EXCEPT ![s[j]] = new[j]]
  <2>1. ~ \E i \in 1..j - 1 : s[i] = s[j]
    BY <1>1
  <2>2. a[s[j]] = at(j - 1)[s[j]]
    BY <2>1, <1>1
  <2>3. ASSUME NEW c \in AllCells
        PROVE  at(j)[c] = [at(j - 1) EXCEPT ![s[j]] = new[j]][c]
    <3>1. CASE c = s[j]
      BY <3>1, <1>1, <1>2
    <3>2. CASE c # s[j]
      <4>1. (\E i \in 1..j : s[i] = c) <=> \E i \in 1..j - 1 : s[i] = c
        <5>1. \A i \in 1..j : i = j \/ i \in 1..j - 1
          BY <1>1
        <5>2. \A i \in 1..j - 1 : i \in 1..j
          BY <1>1
        <5> QED
          BY <5>1, <5>2, <3>2
      <4> QED
        BY <3>2, <4>1
    <3> QED
      BY <3>1, <3>2
  <2> QED
    BY <2>2, <2>3
<1> HIDE DEF at, st, qs
<1>9. Plays(qs, a, WrittenOver(a, s, new))
  <2>1. \A j \in 1..n : /\ qs[j].read = st[j - 1][qs[j].cell]
                       /\ st[j] = [st[j - 1] EXCEPT ![qs[j].cell] = qs[j].write]
    <3> TAKE j \in 1..n
    <3>1. j \in 0..n /\ j - 1 \in 0..n
      BY <1>1
    <3> QED
      BY <3>1, <1>3, <1>5, <1>8
  <2>2. st[0] = a /\ st[n] = WrittenOver(a, s, new)
    BY <1>1, <1>5, <1>6, <1>7
  <2>3. Len(qs) = n /\ st \in [0..n -> Stores]
    BY <1>3, <1>5
  <2> HIDE DEF n
  <2> QED
    BY <2>1, <2>2, <2>3 DEF Plays
<1>10. \A j \in 1..n : Sort(qs[j]) = <<kind, delta>>
  BY <1>1, <1>3 DEF Sort
<1>11. Ordered(qs)
  <2> SUFFICES ASSUME NEW i \in 1..n, NEW j \in 1..n, i < j PROVE Before(qs[i], qs[j])
    BY <1>3 DEF Ordered
  <2>1. qs[i].cell # qs[j].cell
    BY <1>1, <1>3
  <2>2. KindOf(qs[i].cell) = kind /\ KindOf(qs[j].cell) = kind
    BY <1>1, <1>3
  <2> QED
    BY <2>1, <2>2, <1>3 DEF Before
<1> QED
  BY <1>3, <1>9, <1>10, <1>11 DEF Segment, qs

\* Writing back what is there changes nothing, and a part of a store is written
\* by writing the store.
LEMMA WrittenStores ==
  ASSUME NEW mem \in [Chained -> Value], NEW fld \in [FieldCells -> Value], NEW s,
         NEW new \in [1..Len(s) -> Value]
  PROVE  /\ DistinctIn(s, Chained) =>
              /\ WrittenOver(mem, s, new) \in [Chained -> Value]
              /\ WrittenOver(Joint(mem, fld), s, new) = Joint(WrittenOver(mem, s, new), fld)
              /\ (\A j \in 1..Len(s) : new[j] = mem[s[j]]) => WrittenOver(mem, s, new) = mem
         /\ DistinctIn(s, FieldCells) =>
              /\ WrittenOver(fld, s, new) \in [FieldCells -> Value]
              /\ WrittenOver(Joint(mem, fld), s, new) = Joint(mem, WrittenOver(fld, s, new))
              /\ (\A j \in 1..Len(s) : new[j] = fld[s[j]]) => WrittenOver(fld, s, new) = fld
<1> DEFINE n == Len(s)
           at(c) == CHOOSE j \in 1..n : s[j] = c
           in(c) == \E j \in 1..n : s[j] = c
<1>1. \A c : in(c) => at(c) \in 1..n /\ s[at(c)] = c
  OBVIOUS
<1>2. /\ WrittenOver(mem, s, new) = [c \in Chained |-> IF in(c) THEN new[at(c)] ELSE mem[c]]
      /\ WrittenOver(fld, s, new) = [c \in FieldCells |-> IF in(c) THEN new[at(c)] ELSE fld[c]]
      /\ WrittenOver(Joint(mem, fld), s, new) =
           [c \in AllCells |-> IF in(c) THEN new[at(c)] ELSE Joint(mem, fld)[c]]
  BY DEF WrittenOver, Joint
<1> HIDE DEF at, in
<1>3. ASSUME NEW T, DistinctIn(s, T) PROVE \A c : in(c) => c \in T
  <2>1. s \in Seq(T)
    BY <1>3 DEF DistinctIn
  <2>2. \A j \in 1..n : s[j] \in T
    BY <2>1
  <2> QED
    BY <2>2 DEF in
<1>4. /\ WrittenOver(mem, s, new) \in [Chained -> Value]
      /\ WrittenOver(fld, s, new) \in [FieldCells -> Value]
  BY <1>1, <1>2
<1>5. \A c \in AllCells : Joint(mem, fld)[c] = IF c \in Chained THEN mem[c] ELSE IF c \in FieldCells THEN fld[c] ELSE Zero
  BY DEF Joint
<1>6. ASSUME DistinctIn(s, Chained)
      PROVE  WrittenOver(Joint(mem, fld), s, new) = Joint(WrittenOver(mem, s, new), fld)
  <2> SUFFICES ASSUME NEW c \in AllCells
               PROVE  (IF in(c) THEN new[at(c)] ELSE Joint(mem, fld)[c])
                        = (IF c \in Chained THEN WrittenOver(mem, s, new)[c]
                           ELSE IF c \in FieldCells THEN fld[c] ELSE Zero)
    BY <1>2 DEF Joint
  <2> QED
    BY <1>2, <1>3, <1>5, <1>6
<1>7. ASSUME DistinctIn(s, FieldCells)
      PROVE  WrittenOver(Joint(mem, fld), s, new) = Joint(mem, WrittenOver(fld, s, new))
  <2> SUFFICES ASSUME NEW c \in AllCells
               PROVE  (IF in(c) THEN new[at(c)] ELSE Joint(mem, fld)[c])
                        = (IF c \in Chained THEN mem[c]
                           ELSE IF c \in FieldCells THEN WrittenOver(fld, s, new)[c] ELSE Zero)
    BY <1>2 DEF Joint
  <2> QED
    BY <1>2, <1>3, <1>5, <1>7, CellsAssumption
<1>8. (\A j \in 1..n : new[j] = mem[s[j]]) => WrittenOver(mem, s, new) = mem
  BY <1>1, <1>2
<1>9. (\A j \in 1..n : new[j] = fld[s[j]]) => WrittenOver(fld, s, new) = fld
  BY <1>1, <1>2
<1> QED
  BY <1>4, <1>6, <1>7, <1>8, <1>9

-----------------------------------------------------------------------------
(* The queries of rows *)

MemoryTyped == memory \in [Chained -> Value] /\ field \in [FieldCells -> Value]

LEMMA SlotNumbers ==
  /\ Slot.rs1 = 1 /\ Slot.rs2 = 2 /\ Slot.load = 2 /\ Slot.ram = 3 /\ Slot.rd = 3
  /\ Slot.delegate = 3 /\ Slot.frame = 0 /\ Slot.data = 1
BY DEF Slot

\* A cell read and a cell written, in a memory that has there what the machine has.
LEMMA ChainedSegments ==
  ASSUME NEW c \in Chained, NEW delta \in 0..3, NEW v \in Value,
         NEW mem \in [Chained -> Value], NEW fld \in [FieldCells -> Value], memory[c] = mem[c]
  PROVE  /\ Segment(Reading(c, delta), {<<KindOf(c), delta>>}, Joint(mem, fld), Joint(mem, fld))
         /\ Segment(Writing(c, delta, v), {<<KindOf(c), delta>>},
                    Joint(mem, fld), Joint([mem EXCEPT ![c] = v], fld))
<1> DEFINE a == Joint(mem, fld)
           r == QueryOf(c, delta, memory[c], memory[c])
           w == QueryOf(c, delta, memory[c], v)
<1>1. a \in Stores /\ a[c] = mem[c] /\ mem[c] \in Value
  BY JointTyped
<1>2. c \in AllCells /\ c \notin Anchors
  BY CellsAssumption DEF AllCells, Cell
<1>3. /\ r \in Query /\ r.cell = c /\ r.delta = delta /\ r.read = mem[c] /\ r.write = mem[c]
      /\ w \in Query /\ w.cell = c /\ w.delta = delta /\ w.read = mem[c] /\ w.write = v
  BY <1>1, <1>2 DEF Query, QueryOf
<1>4. Sort(r) = <<KindOf(c), delta>> /\ Sort(w) = <<KindOf(c), delta>>
  BY <1>3 DEF Sort
<1>5. [a EXCEPT ![c] = mem[c]] = a
  BY <1>1 DEF Stores
<1>6. [a EXCEPT ![c] = v] = Joint([mem EXCEPT ![c] = v], fld)
  BY CellsAssumption DEF Joint, AllCells, Cell
<1> HIDE DEF a, r, w
<1>7. Segment(<<r>>, {<<KindOf(c), delta>>}, a, a)
  BY <1>1, <1>3, <1>4, <1>5, OneQuerySegment
<1>8. Segment(<<w>>, {<<KindOf(c), delta>>}, a, Joint([mem EXCEPT ![c] = v], fld))
  BY <1>1, <1>3, <1>4, <1>6, OneQuerySegment
<1> QED
  BY <1>7, <1>8 DEF Reading, Writing, a, r, w

LEMMA RegReadSegment ==
  ASSUME MemoryTyped, NEW r \in RegOrNone, NEW delta \in 0..3
  PROVE  Segment(RegRead(r, delta), {<<"reg", delta>>}, Joint(memory, field), Joint(memory, field))
<1>1. CASE r = None
  BY <1>1, JointTyped, EmptySegment DEF RegRead, MemoryTyped
<1>2. CASE r # None
  <2>1. r \in Chained /\ KindOf(r) = "reg"
    BY <1>2, KindsOfCells DEF RegOrNone
  <2> QED
    BY <1>2, <2>1, ValueAssumption, ChainedSegments DEF RegRead, MemoryTyped
<1> QED
  BY <1>1, <1>2

LEMMA RegWriteSegment ==
  ASSUME NEW rd \in RegOrNone, NEW v \in Value,
         NEW mem \in [Chained -> Value], NEW fld \in [FieldCells -> Value],
         \A r \in Registers : memory[r] = mem[r]
  PROVE  /\ Segment(RegWrite(rd, v), {<<"reg", 3>>}, Joint(mem, fld), Joint(SetReg(mem, rd, v), fld))
         /\ SetReg(mem, rd, v) \in [Chained -> Value]
<1>1. CASE rd = None
  BY <1>1, JointTyped, EmptySegment DEF RegWrite, SetReg
<1>2. CASE rd # None
  <2>1. rd \in Registers /\ rd \in Chained /\ KindOf(rd) = "reg"
    BY <1>2, KindsOfCells DEF RegOrNone
  <2>2. Kept(rd, v) \in Value
    BY ValueAssumption DEF Kept
  <2>3. Segment(Writing(rd, 3, Kept(rd, v)), {<<KindOf(rd), 3>>},
                Joint(mem, fld), Joint([mem EXCEPT ![rd] = Kept(rd, v)], fld))
    <3>1. memory[rd] = mem[rd] /\ 3 \in 0..3
      BY <2>1
    <3> QED
      BY <2>1, <2>2, <3>1, ChainedSegments
  <2> QED
    BY <1>2, <2>1, <2>2, <2>3, SlotNumbers DEF RegWrite, SetReg
<1> QED
  BY <1>1, <1>2

LEMMA FieldSegments ==
  ASSUME MemoryTyped, NEW mem \in [Chained -> Value], NEW s, DistinctIn(s, FieldCells),
         NEW delta \in 0..3, NEW new \in [1..Len(s) -> Value]
  PROVE  /\ Segment(FieldReading(s, delta), {<<"field", delta>>}, Joint(mem, field), Joint(mem, field))
         /\ Segment(FieldWriting(s, delta, new), {<<"field", delta>>},
                    Joint(mem, field), Joint(mem, WrittenOver(field, s, new)))
         /\ WrittenOver(field, s, new) \in [FieldCells -> Value]
<1> DEFINE a == Joint(mem, field)
           old == [j \in 1..Len(s) |-> field[s[j]]]
<1>1. a \in Stores /\ \A c \in FieldCells : a[c] = field[c]
  BY JointTyped DEF MemoryTyped
<1>2. s \in Seq(FieldCells) /\ Len(s) \in Nat /\ \A j \in 1..Len(s) : s[j] \in FieldCells
  BY DEF DistinctIn
<1>3. old \in [1..Len(s) -> Value] /\ \A j \in 1..Len(s) : old[j] = field[s[j]]
  BY <1>2 DEF MemoryTyped
<1>4. FieldCells \in SUBSET AllCells /\ \A c \in FieldCells : KindOf(c) = "field" /\ c \notin Anchors
  BY KindsOfCells
<1>5. /\ WrittenOver(field, s, new) \in [FieldCells -> Value]
      /\ WrittenOver(a, s, new) = Joint(mem, WrittenOver(field, s, new))
  BY WrittenStores DEF MemoryTyped
<1>6. /\ WrittenOver(a, s, old) = Joint(mem, WrittenOver(field, s, old))
      /\ WrittenOver(field, s, old) = field
  <2>1. field \in [FieldCells -> Value]
    BY DEF MemoryTyped
  <2> HIDE DEF old
  <2> QED
    BY <1>3, <2>1, WrittenStores
<1>7. /\ FieldReading(s, delta) = [j \in 1..Len(s) |-> QueryOf(s[j], delta, a[s[j]], old[j])]
      /\ FieldWriting(s, delta, new) = [j \in 1..Len(s) |-> QueryOf(s[j], delta, a[s[j]], new[j])]
  BY <1>1, <1>2 DEF FieldReading, FieldWriting, Each
<1> HIDE DEF a, old
<1>8. Segment([j \in 1..Len(s) |-> QueryOf(s[j], delta, a[s[j]], old[j])], {<<"field", delta>>},
              a, WrittenOver(a, s, old))
  BY <1>1, <1>3, <1>4, EachSegment
<1>9. Segment([j \in 1..Len(s) |-> QueryOf(s[j], delta, a[s[j]], new[j])], {<<"field", delta>>},
              a, WrittenOver(a, s, new))
  BY <1>1, <1>4, EachSegment
<1> QED
  BY <1>5, <1>6, <1>7, <1>8, <1>9 DEF a

\* A frame and a block of data words.
LEMMA WordsSegment ==
  ASSUME MemoryTyped, NEW s, DistinctIn(s, Words), NEW delta \in {Slot.frame, Slot.data},
         NEW new \in [1..Len(s) -> Value]
  PROVE  /\ Segment(Each(s, LAMBDA j : QueryOf(s[j], delta, memory[s[j]], new[j])),
                    {<<"ram", delta>>}, Joint(memory, field), Joint(WrittenOver(memory, s, new), field))
         /\ WrittenOver(memory, s, new) \in [Chained -> Value]
         /\ \A r \in Registers : WrittenOver(memory, s, new)[r] = memory[r]
         /\ (\A j \in 1..Len(s) : new[j] = memory[s[j]]) => WrittenOver(memory, s, new) = memory
<1> DEFINE a == Joint(memory, field)
<1>1. a \in Stores /\ \A c \in Chained : a[c] = memory[c]
  BY JointTyped DEF MemoryTyped
<1>2. s \in Seq(Words) /\ Len(s) \in Nat /\ \A j \in 1..Len(s) : s[j] \in Words
  BY DEF DistinctIn
<1>3. Words \in SUBSET AllCells /\ \A c \in Words : KindOf(c) = "ram" /\ c \notin Anchors /\ c \in Chained
  BY KindsOfCells
<1>4. DistinctIn(s, Chained)
  <2>1. s \in Seq(Chained)
    BY <1>2, <1>3
  <2> QED
    BY <2>1 DEF DistinctIn
<1>5. /\ WrittenOver(memory, s, new) \in [Chained -> Value]
      /\ WrittenOver(a, s, new) = Joint(WrittenOver(memory, s, new), field)
      /\ (\A j \in 1..Len(s) : new[j] = memory[s[j]]) => WrittenOver(memory, s, new) = memory
  BY <1>4, WrittenStores DEF MemoryTyped
<1>6. Each(s, LAMBDA j : QueryOf(s[j], delta, memory[s[j]], new[j]))
        = [j \in 1..Len(s) |-> QueryOf(s[j], delta, a[s[j]], new[j])]
  BY <1>1, <1>2, <1>3 DEF Each
<1>7. delta \in 0..3
  BY SlotNumbers
<1>8. \A r \in Registers : WrittenOver(memory, s, new)[r] = memory[r]
  <2>1. \A r \in Registers : r \in Chained /\ ~ \E j \in 1..Len(s) : s[j] = r
    BY <1>2, SpacesAssumption
  <2> QED
    BY <2>1 DEF WrittenOver, MemoryTyped
<1> HIDE DEF a
<1>9. Segment([j \in 1..Len(s) |-> QueryOf(s[j], delta, a[s[j]], new[j])], {<<"ram", delta>>},
              a, WrittenOver(a, s, new))
  BY <1>1, <1>3, <1>7, EachSegment
<1> QED
  BY <1>5, <1>6, <1>8, <1>9 DEF a

\* One field cell.
LEMMA FieldCellSegment ==
  ASSUME NEW c \in FieldCells, NEW delta \in 0..3, NEW old, NEW v \in Value,
         NEW mem \in [Chained -> Value], NEW fld \in [FieldCells -> Value], old = fld[c]
  PROVE  /\ Segment(<<QueryOf(c, delta, old, v)>>, {<<"field", delta>>},
                    Joint(mem, fld), Joint(mem, [fld EXCEPT ![c] = v]))
         /\ [fld EXCEPT ![c] = v] \in [FieldCells -> Value]
<1> DEFINE a == Joint(mem, fld)
           q == QueryOf(c, delta, old, v)
<1>1. a \in Stores /\ a[c] = fld[c] /\ fld[c] \in Value
  BY JointTyped
<1>2. c \in AllCells /\ c \notin Anchors /\ KindOf(c) = "field"
  BY KindsOfCells
<1>3. q \in Query /\ q.cell = c /\ q.delta = delta /\ q.read = a[c] /\ q.write = v
  BY <1>1, <1>2 DEF Query, QueryOf
<1>4. Sort(q) = <<"field", delta>>
  BY <1>2, <1>3 DEF Sort
<1>5. [a EXCEPT ![c] = v] = Joint(mem, [fld EXCEPT ![c] = v])
  BY CellsAssumption DEF Joint, AllCells, Cell
<1> HIDE DEF a, q
<1>6. Segment(<<q>>, {<<"field", delta>>}, a, Joint(mem, [fld EXCEPT ![c] = v]))
  BY <1>1, <1>3, <1>4, <1>5, OneQuerySegment
<1> QED
  BY <1>6 DEF a, q

\* A request's mirror query.
LEMMA AnchorSegment ==
  ASSUME NEW c \in Anchors, NEW mem \in [Chained -> Value], NEW fld \in [FieldCells -> Value]
  PROVE  Segment(<<QueryOf(c, Slot.delegate, Zero, Zero)>>, {<<"anchor", 3>>},
                 Joint(mem, fld), Joint(mem, fld))
<1> DEFINE a == Joint(mem, fld)
           q == QueryOf(c, 3, Zero, Zero)
<1>1. a \in Stores /\ a[c] = Zero
  BY JointTyped
<1>2. c \in AllCells /\ KindOf(c) = "anchor"
  BY KindsOfCells
<1>3. q \in Query /\ q.cell = c /\ q.delta = 3 /\ q.read = a[c] /\ q.write = Zero
  BY <1>1, <1>2, ValueAssumption DEF Query, QueryOf
<1>4. Sort(q) = <<"anchor", 3>>
  BY <1>2, <1>3 DEF Sort
<1>5. [a EXCEPT ![c] = Zero] = a
  BY <1>1 DEF Stores
<1> HIDE DEF a, q
<1>6. Segment(<<q>>, {<<"anchor", 3>>}, a, a)
  BY <1>1, <1>3, <1>4, <1>5, OneQuerySegment
<1> QED
  BY <1>6, SlotNumbers DEF a, q

LEMMA CallRowSegment ==
  ASSUME MemoryTyped, NEW result \in Value,
         NEW mem \in [Chained -> Value], NEW fld \in [FieldCells -> Value],
         \A r \in Registers : memory[r] = mem[r]
  PROVE  /\ Segment(CallRow(result), {<<"reg", 1>>, <<"reg", 2>>, <<"reg", 3>>},
                    Joint(mem, fld), Joint([mem EXCEPT ![A0] = result], fld))
         /\ [mem EXCEPT ![A0] = result] \in [Chained -> Value]
<1>1. /\ A0 \in Chained /\ KindOf(A0) = "reg" /\ memory[A0] = mem[A0]
      /\ A7 \in Chained /\ KindOf(A7) = "reg" /\ memory[A7] = mem[A7]
  BY SpacesAssumption, KindsOfCells
<1> DEFINE J == Joint(mem, fld)
           K == Joint([mem EXCEPT ![A0] = result], fld)
<1>2. Segment(Reading(A7, 1), {<<"reg", 1>>}, J, J)
  <2>1. 1 \in 0..3
    OBVIOUS
  <2> QED
    BY <1>1, <2>1, ChainedSegments
<1>3. Segment(Reading(A0, 2), {<<"reg", 2>>}, J, J)
  <2>1. 2 \in 0..3
    OBVIOUS
  <2> QED
    BY <1>1, <2>1, ValueAssumption, ChainedSegments
<1>4. Segment(Writing(A0, 3, result), {<<"reg", 3>>}, J, K)
  <2>1. 3 \in 0..3
    OBVIOUS
  <2> QED
    BY <1>1, <2>1, ChainedSegments
<1> HIDE DEF J, K
<1>5. Segment(Reading(A7, 1) \o Reading(A0, 2), {<<"reg", 1>>} \cup {<<"reg", 2>>}, J, J)
  <2>1. \A u \in {<<"reg", 1>>}, w \in {<<"reg", 2>>} : Precedes(u, w)
    BY DEF Precedes
  <2> QED
    BY <1>2, <1>3, <2>1, SegmentsJoin
<1>6. Segment((Reading(A7, 1) \o Reading(A0, 2)) \o Writing(A0, 3, result),
              ({<<"reg", 1>>} \cup {<<"reg", 2>>}) \cup {<<"reg", 3>>}, J, K)
  <2>1. \A u \in {<<"reg", 1>>} \cup {<<"reg", 2>>}, w \in {<<"reg", 3>>} : Precedes(u, w)
    BY DEF Precedes
  <2> QED
    BY <1>4, <1>5, <2>1, SegmentsJoin
<1>7. ({<<"reg", 1>>} \cup {<<"reg", 2>>}) \cup {<<"reg", 3>>} = {<<"reg", 1>>, <<"reg", 2>>, <<"reg", 3>>}
  OBVIOUS
<1> QED
  BY <1>6, <1>7, SlotNumbers DEF CallRow, J, K

-----------------------------------------------------------------------------
(* Instructions *)

\* What an instruction leaves to be logged: the pc's query and no other of the
\* pc, from the machine as it was to a machine of memory m and field f.
Stages(qs, m, f) ==
  /\ m \in [Chained -> Value] /\ f \in [FieldCells -> Value]
  /\ qs \in Seq(Query) /\ qs # <<>>
  /\ \A j \in 1..Len(qs) : qs[j].cell = Pc <=> j = 1
  /\ qs[1].delta = 0
  /\ Ordered(qs)
  /\ Plays(qs, Joint(memory, field), Joint(m, f))

\* Queries elsewhere play whatever the pc is.
LEMMA SegmentsElsewhere ==
  ASSUME NEW s, NEW sorts, NEW a \in Stores, NEW b \in Stores, NEW v \in Value,
         Segment(s, sorts, a, b), \A x \in sorts : x[1] # "pc"
  PROVE  /\ Segment(s, sorts, [a EXCEPT ![Pc] = v], [b EXCEPT ![Pc] = v])
         /\ \A j \in 1..Len(s) : s[j].cell # Pc
<1> DEFINE n == Len(s)
<1>1. s \in Seq(Query) /\ n \in Nat /\ \A j \in 1..n : s[j] \in Query
  BY DEF Segment
<1>2. \A j \in 1..n : s[j].cell # Pc /\ s[j].cell \in AllCells
  BY <1>1, KindsOfCells, QueriesTyped DEF Segment, Sort
<1>3. PICK st \in [0..n -> Stores] :
        /\ st[0] = a /\ st[n] = b
        /\ \A j \in 1..n : /\ s[j].read = st[j - 1][s[j].cell]
                           /\ st[j] = [st[j - 1] EXCEPT ![s[j].cell] = s[j].write]
  BY DEF Segment, Plays
<1> DEFINE at == [j \in 0..n |-> [st[j] EXCEPT ![Pc] = v]]
<1>4. at \in [0..n -> Stores] /\ \A j \in 0..n : at[j] = [st[j] EXCEPT ![Pc] = v]
  <2>1. \A j \in 0..n : [st[j] EXCEPT ![Pc] = v] \in Stores
    BY DEF Stores
  <2> QED
    BY <2>1
<1>5. at[0] = [a EXCEPT ![Pc] = v] /\ at[n] = [b EXCEPT ![Pc] = v]
  BY <1>1, <1>3, <1>4
<1> HIDE DEF at, n
<1>6. ASSUME NEW j \in 1..n
      PROVE  /\ s[j].read = at[j - 1][s[j].cell]
             /\ at[j] = [at[j - 1] EXCEPT ![s[j].cell] = s[j].write]
  <2> DEFINE p == st[j - 1]
             c == s[j].cell
             w == s[j].write
  <2>1. j \in 0..n /\ j - 1 \in 0..n
    BY <1>1
  <2>2. p \in [AllCells -> Value] /\ c \in AllCells /\ c # Pc
    BY <1>2, <2>1 DEF Stores
  <2>3. s[j].read = p[c] /\ st[j] = [p EXCEPT ![c] = w]
    BY <1>3
  <2>4. at[j - 1] = [p EXCEPT ![Pc] = v] /\ at[j] = [st[j] EXCEPT ![Pc] = v]
    BY <1>4, <2>1
  <2> HIDE DEF p, c, w
  <2>5. [p EXCEPT ![Pc] = v][c] = p[c]
    BY <2>2
  <2>6. [[p EXCEPT ![c] = w] EXCEPT ![Pc] = v] = [[p EXCEPT ![Pc] = v] EXCEPT ![c] = w]
    BY <2>2
  <2>7. s[j].read = at[j - 1][c] /\ at[j] = [at[j - 1] EXCEPT ![c] = w]
    BY <2>3, <2>4, <2>5, <2>6
  <2> QED
    BY <2>7 DEF c, w
<1>7. Plays(s, [a EXCEPT ![Pc] = v], [b EXCEPT ![Pc] = v])
  BY <1>4, <1>5, <1>6 DEF Plays, n
<1> QED
  BY <1>2, <1>7 DEF Segment, n

LEMMA ExecuteStages ==
  ASSUME MemoryTyped, NEW next \in Value, NEW queries, NEW sorts,
         NEW m \in [Chained -> Value], NEW f \in [FieldCells -> Value],
         Segment(queries, sorts, Joint(memory, field), Joint(m, f)),
         \A x \in sorts : x[1] # "pc" /\ x[2] \in Nat
  PROVE  Stages(PcQuery(next) \o queries, [m EXCEPT ![Pc] = next], f)
<1> DEFINE a == Joint(memory, field)
           b == Joint(m, f)
           one == PcQuery(next)
           qs == one \o queries
<1>1. Pc \in Chained /\ Pc \in AllCells /\ KindOf(Pc) = "pc" /\ 0 \in 0..3
  BY KindsOfCells
<1>2. Segment(one, {<<"pc", 0>>}, a, Joint([memory EXCEPT ![Pc] = next], field))
  BY <1>1, ChainedSegments DEF PcQuery, MemoryTyped
<1>3. /\ [a EXCEPT ![Pc] = next] = Joint([memory EXCEPT ![Pc] = next], field)
      /\ [b EXCEPT ![Pc] = next] = Joint([m EXCEPT ![Pc] = next], f)
  BY <1>1, CellsAssumption DEF Joint, AllCells, Cell, MemoryTyped
<1>4. a \in Stores /\ b \in Stores
  BY JointTyped DEF MemoryTyped
<1>5. \A u \in {<<"pc", 0>>}, w \in sorts : Precedes(u, w)
  BY DEF Precedes
<1>6. /\ one = <<QueryOf(Pc, 0, memory[Pc], next)>> /\ Len(one) = 1
      /\ one[1].cell = Pc /\ one[1].delta = 0
  BY DEF PcQuery, Writing, QueryOf
<1> HIDE DEF a, b, one, qs
<1>7. /\ Segment(queries, sorts, [a EXCEPT ![Pc] = next], [b EXCEPT ![Pc] = next])
      /\ \A j \in 1..Len(queries) : queries[j].cell # Pc
  <2>1. Segment(queries, sorts, a, b)
    BY DEF a, b
  <2> QED
    BY <1>4, <2>1, SegmentsElsewhere
<1>8. Segment(qs, {<<"pc", 0>>} \cup sorts, a, Joint([m EXCEPT ![Pc] = next], f))
  <2>1. Segment(queries, sorts, Joint([memory EXCEPT ![Pc] = next], field), Joint([m EXCEPT ![Pc] = next], f))
    BY <1>3, <1>7
  <2> QED
    BY <1>2, <1>5, <2>1, SegmentsJoin DEF qs
<1>9. (\A j \in 1..Len(qs) : qs[j].cell = Pc <=> j = 1) /\ qs[1].delta = 0
  <2>1. one \in Seq(Query) /\ queries \in Seq(Query)
    BY <1>2 DEF Segment
  <2>2. /\ Len(qs) = 1 + Len(queries) /\ Len(queries) \in Nat /\ qs[1] = one[1]
        /\ \A j \in 1..Len(qs) : j # 1 => qs[j] = queries[j - 1]
    BY <1>6, <2>1 DEF qs
  <2>3. \A j \in 1..Len(qs) : j # 1 => j - 1 \in 1..Len(queries)
    BY <2>2
  <2> QED
    BY <1>6, <1>7, <2>2, <2>3
<1>10. qs # <<>>
  <2>1. one \in Seq(Query) /\ queries \in Seq(Query)
    BY <1>2 DEF Segment
  <2> QED
    BY <1>6, <2>1 DEF qs
<1>11. [m EXCEPT ![Pc] = next] \in [Chained -> Value]
  OBVIOUS
<1> QED
  BY <1>8, <1>9, <1>10, <1>11 DEF Stages, Segment, a, qs, one

LEMMA ComputeStages ==
  ASSUME MemoryTyped, NEW rs1 \in RegOrNone, NEW rs2 \in RegOrNone, NEW rd \in RegOrNone,
         NEW v \in Value, NEW next \in Value, Compute(rs1, rs2, rd, v, next)
  PROVE  Stages(pending', memory', field')
<1> DEFINE J == Joint(memory, field)
           m == SetReg(memory, rd, v)
           qs == RegRead(rs1, 1) \o RegRead(rs2, 2) \o RegWrite(rd, v)
           sorts == ({<<"reg", 1>>} \cup {<<"reg", 2>>}) \cup {<<"reg", 3>>}
<1>1. Segment(RegRead(rs1, 1), {<<"reg", 1>>}, J, J)
  BY RegReadSegment, 1 \in 0..3
<1>2. Segment(RegRead(rs2, 2), {<<"reg", 2>>}, J, J)
  BY RegReadSegment, 2 \in 0..3
<1>3. Segment(RegWrite(rd, v), {<<"reg", 3>>}, J, Joint(m, field)) /\ m \in [Chained -> Value]
  BY RegWriteSegment DEF MemoryTyped
<1> HIDE DEF J, m
<1>4. Segment(RegRead(rs1, 1) \o RegRead(rs2, 2), {<<"reg", 1>>} \cup {<<"reg", 2>>}, J, J)
  <2>1. \A u \in {<<"reg", 1>>}, w \in {<<"reg", 2>>} : Precedes(u, w)
    BY DEF Precedes
  <2> QED
    BY <1>1, <1>2, <2>1, SegmentsJoin
<1>5. Segment(qs, sorts, J, Joint(m, field))
  <2>1. \A u \in {<<"reg", 1>>} \cup {<<"reg", 2>>}, w \in {<<"reg", 3>>} : Precedes(u, w)
    BY DEF Precedes
  <2> QED
    BY <1>3, <1>4, <2>1, SegmentsJoin
<1>6. \A x \in sorts : x[1] # "pc" /\ x[2] \in Nat
  OBVIOUS
<1> HIDE DEF sorts
<1>7. pending' = PcQuery(next) \o qs /\ memory' = [m EXCEPT ![Pc] = next] /\ field' = field
  BY SlotNumbers DEF Compute, Execute, m
<1> HIDE DEF qs
<1>8. Stages(PcQuery(next) \o qs, [m EXCEPT ![Pc] = next], field)
  BY <1>3, <1>5, <1>6, ExecuteStages DEF J, MemoryTyped
<1> QED
  BY <1>7, <1>8

LEMMA LoadStages ==
  ASSUME MemoryTyped, NEW rs1 \in Registers, NEW w \in Words, NEW rd \in RegOrNone,
         NEW v \in Value, Load(rs1, w, rd, v)
  PROVE  Stages(pending', memory', field')
<1> DEFINE J == Joint(memory, field)
           m == SetReg(memory, rd, v)
           qs == Reading(rs1, 1) \o Reading(w, 2) \o RegWrite(rd, v)
           sorts == ({<<"reg", 1>>} \cup {<<"ram", 2>>}) \cup {<<"reg", 3>>}
<1>1. /\ rs1 \in Chained /\ KindOf(rs1) = "reg" /\ w \in Chained /\ KindOf(w) = "ram"
      /\ 1 \in 0..3 /\ 2 \in 0..3 /\ Fall \in Value
  BY KindsOfCells, SpacesAssumption
<1>2. Segment(Reading(rs1, 1), {<<"reg", 1>>}, J, J) /\ Segment(Reading(w, 2), {<<"ram", 2>>}, J, J)
  BY <1>1, ChainedSegments DEF MemoryTyped
<1>3. Segment(RegWrite(rd, v), {<<"reg", 3>>}, J, Joint(m, field)) /\ m \in [Chained -> Value]
  BY RegWriteSegment DEF MemoryTyped
<1> HIDE DEF J, m
<1>4. Segment(Reading(rs1, 1) \o Reading(w, 2), {<<"reg", 1>>} \cup {<<"ram", 2>>}, J, J)
  <2>1. \A x \in {<<"reg", 1>>}, y \in {<<"ram", 2>>} : Precedes(x, y)
    BY DEF Precedes
  <2> QED
    BY <1>2, <2>1, SegmentsJoin
<1>5. Segment(qs, sorts, J, Joint(m, field))
  <2>1. \A x \in {<<"reg", 1>>} \cup {<<"ram", 2>>}, y \in {<<"reg", 3>>} : Precedes(x, y)
    BY DEF Precedes
  <2> QED
    BY <1>3, <1>4, <2>1, SegmentsJoin
<1>6. \A x \in sorts : x[1] # "pc" /\ x[2] \in Nat
  OBVIOUS
<1> HIDE DEF sorts
<1>7. pending' = PcQuery(Fall) \o qs /\ memory' = [m EXCEPT ![Pc] = Fall] /\ field' = field
  BY SlotNumbers DEF Load, Execute, m
<1> HIDE DEF qs
<1>8. Stages(PcQuery(Fall) \o qs, [m EXCEPT ![Pc] = Fall], field)
  BY <1>1, <1>3, <1>5, <1>6, ExecuteStages DEF J, MemoryTyped
<1> QED
  BY <1>7, <1>8

LEMMA StoreStages ==
  ASSUME MemoryTyped, NEW rs1 \in Registers, NEW rs2 \in Registers, NEW w \in Words,
         NEW v \in Value, Store(rs1, rs2, w, v)
  PROVE  Stages(pending', memory', field')
<1> DEFINE J == Joint(memory, field)
           m == [memory EXCEPT ![w] = v]
           qs == Reading(rs1, 1) \o Reading(rs2, 2) \o Writing(w, 3, v)
           sorts == ({<<"reg", 1>>} \cup {<<"reg", 2>>}) \cup {<<"ram", 3>>}
<1>1. /\ rs1 \in Chained /\ KindOf(rs1) = "reg" /\ rs2 \in Chained /\ KindOf(rs2) = "reg"
      /\ w \in Chained /\ KindOf(w) = "ram"
      /\ 1 \in 0..3 /\ 2 \in 0..3 /\ 3 \in 0..3 /\ Fall \in Value
  BY KindsOfCells, SpacesAssumption
<1>2. /\ Segment(Reading(rs1, 1), {<<"reg", 1>>}, J, J)
      /\ Segment(Reading(rs2, 2), {<<"reg", 2>>}, J, J)
      /\ Segment(Writing(w, 3, v), {<<"ram", 3>>}, J, Joint(m, field))
  BY <1>1, ChainedSegments DEF MemoryTyped
<1>3. m \in [Chained -> Value]
  BY DEF MemoryTyped
<1> HIDE DEF J, m
<1>4. Segment(Reading(rs1, 1) \o Reading(rs2, 2), {<<"reg", 1>>} \cup {<<"reg", 2>>}, J, J)
  <2>1. \A x \in {<<"reg", 1>>}, y \in {<<"reg", 2>>} : Precedes(x, y)
    BY DEF Precedes
  <2> QED
    BY <1>2, <2>1, SegmentsJoin
<1>5. Segment(qs, sorts, J, Joint(m, field))
  <2>1. \A x \in {<<"reg", 1>>} \cup {<<"reg", 2>>}, y \in {<<"ram", 3>>} : Precedes(x, y)
    BY DEF Precedes
  <2> QED
    BY <1>2, <1>4, <2>1, SegmentsJoin
<1>6. \A x \in sorts : x[1] # "pc" /\ x[2] \in Nat
  OBVIOUS
<1> HIDE DEF sorts
<1>7. pending' = PcQuery(Fall) \o qs /\ memory' = [m EXCEPT ![Pc] = Fall] /\ field' = field
  BY SlotNumbers DEF Store, Execute, m
<1> HIDE DEF qs
<1>8. Stages(PcQuery(Fall) \o qs, [m EXCEPT ![Pc] = Fall], field)
  BY <1>1, <1>3, <1>5, <1>6, ExecuteStages DEF J, MemoryTyped
<1> QED
  BY <1>7, <1>8

LEMMA AtomicStages ==
  ASSUME MemoryTyped, NEW rs1 \in Registers, NEW rs2 \in RegOrNone, NEW rd \in RegOrNone,
         NEW w \in Words, NEW v \in Value, NEW result \in {memory[w], Zero},
         Atomic(rs1, rs2, w, rd, v, result)
  PROVE  Stages(pending', memory', field')
<1> DEFINE J == Joint(memory, field)
           mid == [memory EXCEPT ![w] = v]
           m == SetReg(mid, rd, result)
           qs == Reading(rs1, 1) \o RegRead(rs2, 2) \o Writing(w, 3, v) \o RegWrite(rd, result)
           sorts == (({<<"reg", 1>>} \cup {<<"reg", 2>>}) \cup {<<"ram", 3>>}) \cup {<<"reg", 3>>}
<1>1. /\ rs1 \in Chained /\ KindOf(rs1) = "reg" /\ w \in Chained /\ KindOf(w) = "ram"
      /\ 1 \in 0..3 /\ 2 \in 0..3 /\ 3 \in 0..3 /\ Fall \in Value
  BY KindsOfCells, SpacesAssumption
<1>2. result \in Value
  BY <1>1, ValueAssumption DEF MemoryTyped
<1>3. /\ Segment(Reading(rs1, 1), {<<"reg", 1>>}, J, J)
      /\ Segment(Writing(w, 3, v), {<<"ram", 3>>}, J, Joint(mid, field))
  BY <1>1, ChainedSegments DEF MemoryTyped
<1>4. Segment(RegRead(rs2, 2), {<<"reg", 2>>}, J, J)
  BY <1>1, RegReadSegment
<1>5. mid \in [Chained -> Value] /\ \A r \in Registers : memory[r] = mid[r]
  BY SpacesAssumption DEF MemoryTyped
<1> HIDE DEF mid
<1>6. Segment(RegWrite(rd, result), {<<"reg", 3>>}, Joint(mid, field), Joint(m, field)) /\ m \in [Chained -> Value]
  BY <1>2, <1>5, RegWriteSegment DEF MemoryTyped
<1> HIDE DEF J, m
<1>7. Segment(Reading(rs1, 1) \o RegRead(rs2, 2), {<<"reg", 1>>} \cup {<<"reg", 2>>}, J, J)
  <2>1. \A x \in {<<"reg", 1>>}, y \in {<<"reg", 2>>} : Precedes(x, y)
    BY DEF Precedes
  <2> QED
    BY <1>3, <1>4, <2>1, SegmentsJoin
<1>8. Segment((Reading(rs1, 1) \o RegRead(rs2, 2)) \o Writing(w, 3, v),
              ({<<"reg", 1>>} \cup {<<"reg", 2>>}) \cup {<<"ram", 3>>}, J, Joint(mid, field))
  <2>1. \A x \in {<<"reg", 1>>} \cup {<<"reg", 2>>}, y \in {<<"ram", 3>>} : Precedes(x, y)
    BY DEF Precedes
  <2> QED
    BY <1>3, <1>7, <2>1, SegmentsJoin
<1>9. Segment(qs, sorts, J, Joint(m, field))
  <2>1. \A x \in ({<<"reg", 1>>} \cup {<<"reg", 2>>}) \cup {<<"ram", 3>>}, y \in {<<"reg", 3>>} : Precedes(x, y)
    BY DEF Precedes
  <2> QED
    BY <1>6, <1>8, <2>1, SegmentsJoin
<1>10. \A x \in sorts : x[1] # "pc" /\ x[2] \in Nat
  OBVIOUS
<1> HIDE DEF sorts
<1>11. pending' = PcQuery(Fall) \o qs /\ memory' = [m EXCEPT ![Pc] = Fall] /\ field' = field
  BY SlotNumbers DEF Atomic, Execute, m, mid
<1> HIDE DEF qs
<1>12. Stages(PcQuery(Fall) \o qs, [m EXCEPT ![Pc] = Fall], field)
  BY <1>1, <1>6, <1>9, <1>10, ExecuteStages DEF J, MemoryTyped
<1> QED
  BY <1>11, <1>12

LEMMA ExitStages ==
  ASSUME MemoryTyped, Exit
  PROVE  Stages(pending', memory', field')
<1> DEFINE sorts == {<<"reg", 1>>, <<"reg", 2>>, <<"reg", 3>>}
<1>1. memory[A0] \in Value /\ Halt \in Value
  BY SpacesAssumption DEF MemoryTyped
<1>2. Segment(CallRow(memory[A0]), sorts, Joint(memory, field),
              Joint([memory EXCEPT ![A0] = memory[A0]], field))
  BY <1>1, CallRowSegment DEF MemoryTyped
<1>3. [memory EXCEPT ![A0] = memory[A0]] = memory
  BY DEF MemoryTyped
<1>4. \A x \in sorts : x[1] # "pc" /\ x[2] \in Nat
  OBVIOUS
<1> HIDE DEF sorts
<1>5. Stages(PcQuery(Halt) \o CallRow(memory[A0]), [memory EXCEPT ![Pc] = Halt], field)
  BY <1>1, <1>2, <1>3, <1>4, ExecuteStages DEF MemoryTyped
<1> QED
  BY <1>5 DEF Exit, Execute

LEMMA UnknownCallStages ==
  ASSUME MemoryTyped, NEW v \in Value, UnknownCall(v)
  PROVE  Stages(pending', memory', field')
<1> DEFINE J == Joint(memory, field)
           m == [memory EXCEPT ![A0] = v]
           qs == Reading(A7, 1) \o Writing(A0, 3, v)
           sorts == {<<"reg", 1>>} \cup {<<"reg", 3>>}
<1>1. /\ A0 \in Chained /\ KindOf(A0) = "reg" /\ A7 \in Chained /\ KindOf(A7) = "reg"
      /\ 1 \in 0..3 /\ 3 \in 0..3 /\ Fall \in Value
  BY KindsOfCells, SpacesAssumption
<1>2. /\ Segment(Reading(A7, 1), {<<"reg", 1>>}, J, J)
      /\ Segment(Writing(A0, 3, v), {<<"reg", 3>>}, J, Joint(m, field))
  BY <1>1, ChainedSegments DEF MemoryTyped
<1>3. m \in [Chained -> Value]
  BY DEF MemoryTyped
<1> HIDE DEF J, m
<1>4. Segment(qs, sorts, J, Joint(m, field))
  <2>1. \A x \in {<<"reg", 1>>}, y \in {<<"reg", 3>>} : Precedes(x, y)
    BY DEF Precedes
  <2> QED
    BY <1>2, <2>1, SegmentsJoin
<1>5. \A x \in sorts : x[1] # "pc" /\ x[2] \in Nat
  OBVIOUS
<1> HIDE DEF sorts
<1>6. pending' = PcQuery(Fall) \o qs /\ memory' = [m EXCEPT ![Pc] = Fall] /\ field' = field
  BY SlotNumbers DEF UnknownCall, Execute, m
<1> HIDE DEF qs
<1>7. Stages(PcQuery(Fall) \o qs, [m EXCEPT ![Pc] = Fall], field)
  BY <1>1, <1>3, <1>4, <1>5, ExecuteStages DEF J, MemoryTyped
<1> QED
  BY <1>6, <1>7

-----------------------------------------------------------------------------
(* Delegations *)

\* The sorts of an invocation's accesses past its frame.
Extras == {<<"ram", 1>>} \cup {<<"field", d>> : d \in 0..3}

LEMMA DelegateStages ==
  ASSUME MemoryTyped, NEW f \in Frames, NEW frame, NEW extra, NEW result \in Value,
         NEW mid \in [Chained -> Value], NEW m \in [Chained -> Value], NEW fld \in [FieldCells -> Value],
         Segment(frame, {<<"ram", 0>>}, Joint(memory, field), Joint(mid, field)),
         NEW sorts \in SUBSET Extras, Segment(extra, sorts, Joint(mid, field), Joint(m, fld)),
         \A r \in Registers : memory[r] = m[r],
         Delegate(f, frame, extra, m, result), field' = fld
  PROVE  Stages(pending', memory', field')
<1> DEFINE a == Joint(memory, field)
           b == Joint(mid, field)
           c == Joint(m, fld)
           m2 == [m EXCEPT ![A0] = result]
           d == Joint(m2, fld)
           mirror == <<QueryOf(AnchorOf[f], Slot.delegate, Zero, Zero)>>
           regs == {<<"reg", 1>>, <<"reg", 2>>, <<"reg", 3>>}
           all == (({<<"ram", 0>>} \cup sorts) \cup regs) \cup {<<"anchor", 3>>}
           qs == frame \o extra \o CallRow(result) \o mirror
<1>1. /\ Segment(CallRow(result), regs, c, d)
      /\ m2 \in [Chained -> Value]
  BY CallRowSegment
<1>2. Fall \in Value /\ AnchorOf[f] \in Anchors
  BY SpacesAssumption, OperandsAssumption
<1> HIDE DEF m2
<1>3. Segment(mirror, {<<"anchor", 3>>}, d, d)
  BY <1>1, <1>2, AnchorSegment
<1>4. \A x \in sorts : (x[1] = "ram" /\ x[2] = 1) \/ (x[1] = "field" /\ x[2] \in 0..3)
  BY DEF Extras
<1> HIDE DEF a, b, c, d, mirror
<1>5. Segment(frame \o extra, {<<"ram", 0>>} \cup sorts, a, c)
  <2>1. \A x \in {<<"ram", 0>>}, y \in sorts : Precedes(x, y)
    BY <1>4 DEF Precedes
  <2>2. Segment(frame, {<<"ram", 0>>}, a, b) /\ Segment(extra, sorts, b, c)
    BY DEF a, b, c
  <2> QED
    BY <2>1, <2>2, SegmentsJoin
<1>6. Segment((frame \o extra) \o CallRow(result), ({<<"ram", 0>>} \cup sorts) \cup regs, a, d)
  <2>1. \A x \in {<<"ram", 0>>} \cup sorts, y \in regs : Precedes(x, y)
    BY <1>4 DEF Precedes
  <2> QED
    BY <1>1, <1>5, <2>1, SegmentsJoin
<1>7. Segment(qs, all, a, d)
  <2>1. \A x \in ({<<"ram", 0>>} \cup sorts) \cup regs, y \in {<<"anchor", 3>>} : Precedes(x, y)
    BY <1>4 DEF Precedes
  <2> QED
    BY <1>3, <1>6, <2>1, SegmentsJoin
<1>8. \A x \in all : x[1] # "pc" /\ x[2] \in Nat
  BY <1>4
<1> HIDE DEF all
<1>9. pending' = PcQuery(Fall) \o qs /\ memory' = [m2 EXCEPT ![Pc] = Fall] /\ field' = fld
  BY DEF Delegate, Execute, m2, mirror
<1> HIDE DEF qs
<1>10. Stages(PcQuery(Fall) \o qs, [m2 EXCEPT ![Pc] = Fall], fld)
  BY <1>1, <1>2, <1>7, <1>8, ExecuteStages DEF a, d
<1> QED
  BY <1>9, <1>10

LEMMA FrameSegments ==
  ASSUME MemoryTyped, NEW f \in Frames, NEW new \in [1..Len(f) -> Value]
  PROVE  /\ Segment(FrameWriting(f, new), {<<"ram", 0>>}, Joint(memory, field),
                    Joint(WrittenOver(memory, f, new), field))
         /\ WrittenOver(memory, f, new) \in [Chained -> Value]
         /\ \A r \in Registers : WrittenOver(memory, f, new)[r] = memory[r]
         /\ Segment(FrameReading(f), {<<"ram", 0>>}, Joint(memory, field), Joint(memory, field))
<1> DEFINE old == [j \in 1..Len(f) |-> memory[f[j]]]
<1>1. DistinctIn(f, Words)
  BY OperandsAssumption
<1>2. f \in Seq(Words) /\ \A j \in 1..Len(f) : f[j] \in Words /\ f[j] \in Chained
  BY <1>1, SpacesAssumption DEF DistinctIn
<1>3. old \in [1..Len(f) -> Value] /\ \A j \in 1..Len(f) : old[j] = memory[f[j]]
  BY <1>2 DEF MemoryTyped
<1>4. Slot.frame \in {Slot.frame, Slot.data}
  OBVIOUS
<1> HIDE DEF old
<1>5. \A t \in [1..Len(f) -> Value] :
        /\ Segment(FrameWriting(f, t), {<<"ram", Slot.frame>>}, Joint(memory, field), Joint(WrittenOver(memory, f, t), field))
        /\ WrittenOver(memory, f, t) \in [Chained -> Value]
        /\ \A r \in Registers : WrittenOver(memory, f, t)[r] = memory[r]
        /\ (\A j \in 1..Len(f) : t[j] = memory[f[j]]) => WrittenOver(memory, f, t) = memory
  BY <1>1, <1>4, WordsSegment DEF FrameWriting
<1>6. \A t \in [1..Len(f) -> Value] :
        Segment(FrameWriting(f, t), {<<"ram", 0>>}, Joint(memory, field), Joint(WrittenOver(memory, f, t), field))
  BY <1>5, SlotNumbers
<1>7. WrittenOver(memory, f, old) = memory /\ FrameReading(f) = FrameWriting(f, old)
  BY <1>3, <1>5 DEF FrameReading, old
<1> QED
  BY <1>3, <1>5, <1>6, <1>7

LEMMA AnswerInPlaceStages ==
  ASSUME MemoryTyped, NEW f \in Frames, NEW result \in Value, NEW new \in [1..Len(f) -> Value],
         AnswerInPlace(f, new, result)
  PROVE  Stages(pending', memory', field')
<1> DEFINE m == WrittenOver(memory, f, new)
<1>1. /\ Segment(FrameWriting(f, new), {<<"ram", 0>>}, Joint(memory, field), Joint(m, field))
      /\ m \in [Chained -> Value]
      /\ \A r \in Registers : memory[r] = m[r]
  BY FrameSegments
<1>2. Delegate(f, FrameWriting(f, new), <<>>, m, result) /\ field' = field /\ field \in [FieldCells -> Value]
  BY DEF AnswerInPlace, MemoryTyped
<1> HIDE DEF m
<1>3. Segment(<<>>, {}, Joint(m, field), Joint(m, field))
  BY <1>1, <1>2, JointTyped, EmptySegment
<1> QED
  BY <1>1, <1>2, <1>3, DelegateStages

\* A delegation that only reads its frame.
LEMMA FieldDelegateStages ==
  ASSUME MemoryTyped, NEW f \in Frames, NEW extra, NEW result \in Value,
         NEW m \in [Chained -> Value], NEW fld \in [FieldCells -> Value],
         NEW sorts \in SUBSET Extras,
         Segment(extra, sorts, Joint(memory, field), Joint(m, fld)),
         \A r \in Registers : memory[r] = m[r],
         Delegate(f, FrameReading(f), extra, m, result), field' = fld
  PROVE  Stages(pending', memory', field')
<1> DEFINE old == [j \in 1..Len(f) |-> Zero]
<1>1. old \in [1..Len(f) -> Value]
  BY ValueAssumption
<1> HIDE DEF old
<1>2. Segment(FrameReading(f), {<<"ram", 0>>}, Joint(memory, field), Joint(memory, field))
  BY <1>1, FrameSegments
<1>3. memory \in [Chained -> Value]
  BY DEF MemoryTyped
<1> QED
  BY <1>2, <1>3, DelegateStages

\* Three operands read and a fourth written.
LEMMA OperandSegments ==
  ASSUME MemoryTyped, NEW x, NEW y, NEW z, NEW d,
         DistinctIn(x, FieldCells), DistinctIn(y, FieldCells), DistinctIn(z, FieldCells),
         DistinctIn(d, FieldCells), NEW new \in [1..Len(d) -> Value]
  PROVE  LET J == Joint(memory, field)
             K == Joint(memory, WrittenOver(field, d, new))
         IN  /\ Segment(FieldReading(x, 0) \o FieldReading(y, 1), {<<"field", 0>>, <<"field", 1>>}, J, J)
             /\ Segment(FieldReading(x, 0) \o FieldReading(y, 1) \o FieldWriting(d, 2, new),
                        {<<"field", 0>>, <<"field", 1>>, <<"field", 2>>}, J, K)
             /\ Segment(FieldReading(x, 0) \o FieldReading(y, 1) \o FieldReading(z, 2) \o FieldWriting(d, 3, new),
                        {<<"field", 0>>, <<"field", 1>>, <<"field", 2>>, <<"field", 3>>}, J, K)
<1> DEFINE J == Joint(memory, field)
           K == Joint(memory, WrittenOver(field, d, new))
<1>1. memory \in [Chained -> Value] /\ 0 \in 0..3 /\ 1 \in 0..3 /\ 2 \in 0..3 /\ 3 \in 0..3
  BY DEF MemoryTyped
<1>2. \A s, delta : DistinctIn(s, FieldCells) /\ delta \in 0..3 =>
        Segment(FieldReading(s, delta), {<<"field", delta>>}, J, J)
  <2> SUFFICES ASSUME NEW s, NEW delta, DistinctIn(s, FieldCells), delta \in 0..3
               PROVE  Segment(FieldReading(s, delta), {<<"field", delta>>}, J, J)
    OBVIOUS
  <2> DEFINE any == [j \in 1..Len(s) |-> Zero]
  <2>1. any \in [1..Len(s) -> Value]
    BY ValueAssumption
  <2> HIDE DEF any
  <2> QED
    BY <1>1, <2>1, FieldSegments
<1>3. Segment(FieldWriting(d, 2, new), {<<"field", 2>>}, J, K) /\ Segment(FieldWriting(d, 3, new), {<<"field", 3>>}, J, K)
  BY <1>1, FieldSegments
<1> HIDE DEF J, K
<1>4. /\ Segment(FieldReading(x, 0), {<<"field", 0>>}, J, J)
      /\ Segment(FieldReading(y, 1), {<<"field", 1>>}, J, J)
      /\ Segment(FieldReading(z, 2), {<<"field", 2>>}, J, J)
  BY <1>1, <1>2
<1>5. Segment(FieldReading(x, 0) \o FieldReading(y, 1), {<<"field", 0>>, <<"field", 1>>}, J, J)
  <2>1. \A u \in {<<"field", 0>>}, w \in {<<"field", 1>>} : Precedes(u, w)
    BY DEF Precedes
  <2>2. {<<"field", 0>>} \cup {<<"field", 1>>} = {<<"field", 0>>, <<"field", 1>>}
    OBVIOUS
  <2> QED
    BY <1>4, <2>1, <2>2, SegmentsJoin
<1>6. Segment((FieldReading(x, 0) \o FieldReading(y, 1)) \o FieldWriting(d, 2, new),
              {<<"field", 0>>, <<"field", 1>>, <<"field", 2>>}, J, K)
  <2>1. \A u \in {<<"field", 0>>, <<"field", 1>>}, w \in {<<"field", 2>>} : Precedes(u, w)
    BY DEF Precedes
  <2>2. {<<"field", 0>>, <<"field", 1>>} \cup {<<"field", 2>>} = {<<"field", 0>>, <<"field", 1>>, <<"field", 2>>}
    OBVIOUS
  <2> QED
    BY <1>3, <1>5, <2>1, <2>2, SegmentsJoin
<1>7. Segment((FieldReading(x, 0) \o FieldReading(y, 1)) \o FieldReading(z, 2),
              {<<"field", 0>>, <<"field", 1>>, <<"field", 2>>}, J, J)
  <2>1. \A u \in {<<"field", 0>>, <<"field", 1>>}, w \in {<<"field", 2>>} : Precedes(u, w)
    BY DEF Precedes
  <2>2. {<<"field", 0>>, <<"field", 1>>} \cup {<<"field", 2>>} = {<<"field", 0>>, <<"field", 1>>, <<"field", 2>>}
    OBVIOUS
  <2> QED
    BY <1>4, <1>5, <2>1, <2>2, SegmentsJoin
<1>8. Segment(((FieldReading(x, 0) \o FieldReading(y, 1)) \o FieldReading(z, 2)) \o FieldWriting(d, 3, new),
              {<<"field", 0>>, <<"field", 1>>, <<"field", 2>>, <<"field", 3>>}, J, K)
  <2>1. \A u \in {<<"field", 0>>, <<"field", 1>>, <<"field", 2>>}, w \in {<<"field", 3>>} : Precedes(u, w)
    BY DEF Precedes
  <2>2. {<<"field", 0>>, <<"field", 1>>, <<"field", 2>>} \cup {<<"field", 3>>}
          = {<<"field", 0>>, <<"field", 1>>, <<"field", 2>>, <<"field", 3>>}
    OBVIOUS
  <2> QED
    BY <1>3, <1>7, <2>1, <2>2, SegmentsJoin
<1> QED
  BY <1>5, <1>6, <1>8 DEF J, K

LEMMA OperandsAreDistinct ==
  /\ \A c \in Cells \cup {<<>>} : DistinctIn(c, FieldCells)
  /\ \A v \in Operand : DistinctIn(v, FieldCells)
<1>1. DistinctIn(<<>>, FieldCells)
  BY DEF DistinctIn
<1>2. ASSUME NEW c \in Cells PROVE DistinctIn(c, FieldCells)
  <2>1. c \in Seq(FieldCells) /\ Len(c) = 1
    BY DEF Cells
  <2> QED
    BY <2>1 DEF DistinctIn
<1>3. \A v \in Vectors : DistinctIn(v, FieldCells)
  BY OperandsAssumption
<1> QED
  BY <1>1, <1>2, <1>3 DEF Operand

LEMMA FrOpStages ==
  ASSUME MemoryTyped, NEW f \in Frames, NEW a \in Cells \cup {<<>>}, NEW b \in Cells \cup {<<>>},
         NEW d \in Cells \cup {<<>>}, NEW v \in Value, NEW result \in Value,
         FrOp(f, a, b, d, v, result)
  PROVE  Stages(pending', memory', field')
<1> DEFINE new == [j \in 1..Len(d) |-> v]
           fld == WrittenOver(field, d, new)
           extra == FieldReading(a, 0) \o FieldReading(b, 1) \o FieldWriting(d, 2, new)
           sorts == {<<"field", 0>>, <<"field", 1>>, <<"field", 2>>}
<1>1. DistinctIn(a, FieldCells) /\ DistinctIn(b, FieldCells) /\ DistinctIn(d, FieldCells)
  BY OperandsAreDistinct
<1>2. new \in [1..Len(d) -> Value] /\ 2 \in 0..3 /\ memory \in [Chained -> Value]
  BY DEF MemoryTyped
<1>3. Delegate(f, FrameReading(f), extra, memory, result) /\ field' = fld
  BY DEF FrOp
<1> HIDE DEF new
<1>4. Segment(extra, sorts, Joint(memory, field), Joint(memory, fld))
  BY <1>1, <1>2, OperandSegments
<1>5. fld \in [FieldCells -> Value]
  BY <1>1, <1>2, FieldSegments
<1> HIDE DEF fld, extra
<1>6. sorts \in SUBSET Extras
  BY DEF Extras
<1> QED
  BY <1>2, <1>3, <1>4, <1>5, <1>6, FieldDelegateStages

LEMMA FrDigitStages ==
  ASSUME MemoryTyped, NEW f \in Frames, NEW a \in FieldCells, NEW b \in FieldCells,
         NEW d \in FieldCells, NEW rest \in Value, NEW digit \in Value, NEW result \in Value,
         FrDigit(f, a, b, d, rest, digit, result)
  PROVE  Stages(pending', memory', field')
<1> DEFINE mid == [field EXCEPT ![b] = rest]
           fld == [mid EXCEPT ![d] = digit]
           qa == QueryOf(a, 0, field[a], field[a])
           qb == QueryOf(b, 1, field[b], rest)
           qd == QueryOf(d, 2, mid[d], digit)
           extra == <<qa, qb, qd>>
           sorts == {<<"field", 0>>, <<"field", 1>>, <<"field", 2>>}
<1>1. Delegate(f, FrameReading(f), extra, memory, result) /\ field' = fld
  BY DEF FrDigit
<1>2. /\ memory \in [Chained -> Value] /\ field \in [FieldCells -> Value] /\ field[a] \in Value
      /\ 0 \in 0..3 /\ 1 \in 0..3 /\ 2 \in 0..3
  BY DEF MemoryTyped
<1>3. [field EXCEPT ![a] = field[a]] = field
  BY <1>2
<1>4. Segment(<<qa>>, {<<"field", 0>>}, Joint(memory, field), Joint(memory, field))
  <2>1. Segment(<<qa>>, {<<"field", 0>>}, Joint(memory, field), Joint(memory, [field EXCEPT ![a] = field[a]]))
    BY <1>2, FieldCellSegment
  <2> QED
    BY <1>3, <2>1
<1>5. /\ Segment(<<qb>>, {<<"field", 1>>}, Joint(memory, field), Joint(memory, mid))
      /\ mid \in [FieldCells -> Value]
  BY <1>2, FieldCellSegment
<1> HIDE DEF mid
<1>6. /\ Segment(<<qd>>, {<<"field", 2>>}, Joint(memory, mid), Joint(memory, fld))
      /\ fld \in [FieldCells -> Value]
  BY <1>2, <1>5, FieldCellSegment
<1> HIDE DEF fld, qa, qb, qd
<1>7. Segment(<<qa>> \o <<qb>>, {<<"field", 0>>} \cup {<<"field", 1>>}, Joint(memory, field), Joint(memory, mid))
  <2>1. \A u \in {<<"field", 0>>}, w \in {<<"field", 1>>} : Precedes(u, w)
    BY DEF Precedes
  <2> QED
    BY <1>4, <1>5, <2>1, SegmentsJoin
<1>8. Segment((<<qa>> \o <<qb>>) \o <<qd>>, ({<<"field", 0>>} \cup {<<"field", 1>>}) \cup {<<"field", 2>>},
              Joint(memory, field), Joint(memory, fld))
  <2>1. \A u \in {<<"field", 0>>} \cup {<<"field", 1>>}, w \in {<<"field", 2>>} : Precedes(u, w)
    BY DEF Precedes
  <2> QED
    BY <1>6, <1>7, <2>1, SegmentsJoin
<1>9. (<<qa>> \o <<qb>>) \o <<qd>> = extra
  <2> DEFINE S == {qa, qb, qd}
             l == (<<qa>> \o <<qb>>) \o <<qd>>
  <2>1. /\ <<qa>> \in Seq(S) /\ <<qb>> \in Seq(S) /\ <<qd>> \in Seq(S) /\ extra \in Seq(S)
        /\ Len(<<qa>>) = 1 /\ Len(<<qb>>) = 1 /\ Len(<<qd>>) = 1 /\ Len(extra) = 3
        /\ <<qa>>[1] = qa /\ <<qb>>[1] = qb /\ <<qd>>[1] = qd
        /\ extra[1] = qa /\ extra[2] = qb /\ extra[3] = qd
    OBVIOUS
  <2> HIDE DEF S, extra
  <2>2. /\ <<qa>> \o <<qb>> \in Seq(S) /\ Len(<<qa>> \o <<qb>>) = 2
        /\ (<<qa>> \o <<qb>>)[1] = qa /\ (<<qa>> \o <<qb>>)[2] = qb
    BY <2>1, ConcatProperties
  <2>3. l \in Seq(S) /\ Len(l) = 3 /\ l[1] = qa /\ l[2] = qb /\ l[3] = qd
    BY <2>1, <2>2, ConcatProperties
  <2> HIDE DEF l
  <2>4. \A i \in 1..3 : l[i] = extra[i]
    <3>1. \A i \in 1..3 : i = 1 \/ i = 2 \/ i = 3
      OBVIOUS
    <3> QED
      BY <2>1, <2>3, <3>1
  <2>5. l = extra
    BY <2>1, <2>3, <2>4, SeqEqual
  <2> QED
    BY <2>5 DEF l
<1>10. Segment(extra, sorts, Joint(memory, field), Joint(memory, fld))
  <2>1. ({<<"field", 0>>} \cup {<<"field", 1>>}) \cup {<<"field", 2>>} = sorts
    OBVIOUS
  <2> HIDE DEF extra, sorts
  <2> QED
    BY <1>8, <1>9, <2>1
<1>11. sorts \in SUBSET Extras
  BY DEF Extras
<1> HIDE DEF extra
<1> QED
  BY <1>1, <1>2, <1>6, <1>10, <1>11, FieldDelegateStages

LEMMA VectorOpStages ==
  ASSUME MemoryTyped, NEW f \in Frames, NEW first \in Operand, NEW second \in Operand,
         NEW third \in Operand, NEW d \in Vectors, NEW new \in [1..Len(d) -> Value],
         NEW result \in Value, VectorOp(f, first, second, third, d, new, result)
  PROVE  Stages(pending', memory', field')
<1> DEFINE fld == WrittenOver(field, d, new)
           extra == FieldReading(first, 0) \o FieldReading(second, 1) \o FieldReading(third, 2)
                      \o FieldWriting(d, 3, new)
           sorts == {<<"field", 0>>, <<"field", 1>>, <<"field", 2>>, <<"field", 3>>}
<1>1. /\ DistinctIn(first, FieldCells) /\ DistinctIn(second, FieldCells)
      /\ DistinctIn(third, FieldCells) /\ DistinctIn(d, FieldCells)
  BY OperandsAreDistinct DEF Operand
<1>2. 3 \in 0..3 /\ memory \in [Chained -> Value]
  BY DEF MemoryTyped
<1>3. Delegate(f, FrameReading(f), extra, memory, result) /\ field' = fld
  BY DEF VectorOp
<1>4. Segment(extra, sorts, Joint(memory, field), Joint(memory, fld))
  BY <1>1, OperandSegments
<1>5. fld \in [FieldCells -> Value]
  BY <1>1, <1>2, FieldSegments
<1> HIDE DEF fld, extra
<1>6. sorts \in SUBSET Extras
  BY DEF Extras
<1> QED
  BY <1>2, <1>3, <1>4, <1>5, <1>6, FieldDelegateStages

LEMMA FieldIoStages ==
  ASSUME MemoryTyped, NEW f \in Frames, NEW block \in Blocks, NEW words \in [1..Len(block) -> Value],
         NEW c \in FieldCells, NEW v \in Value, NEW result \in Value,
         FieldIo(f, block, words, c, v, result)
  PROVE  Stages(pending', memory', field')
<1> DEFINE m == WrittenOver(memory, block, words)
           fld == [field EXCEPT ![c] = v]
           data == Each(block, LAMBDA j : QueryOf(block[j], Slot.data, memory[block[j]], words[j]))
           cell == <<QueryOf(c, 0, field[c], v)>>
           extra == data \o cell
           sorts == {<<"ram", 1>>} \cup {<<"field", 0>>}
<1>1. Delegate(f, FrameReading(f), extra, m, result) /\ field' = fld
  BY DEF FieldIo
<1>2. DistinctIn(block, Words) /\ Slot.data \in {Slot.frame, Slot.data} /\ 0 \in 0..3
  BY OperandsAssumption
<1>3. /\ Segment(data, {<<"ram", Slot.data>>}, Joint(memory, field), Joint(m, field))
      /\ m \in [Chained -> Value]
      /\ \A r \in Registers : m[r] = memory[r]
  BY <1>2, WordsSegment
<1> HIDE DEF m, data
<1>4. /\ Segment(cell, {<<"field", 0>>}, Joint(m, field), Joint(m, fld))
      /\ fld \in [FieldCells -> Value]
  BY <1>2, <1>3, FieldCellSegment DEF MemoryTyped
<1> HIDE DEF fld, cell
<1>5. Segment(extra, sorts, Joint(memory, field), Joint(m, fld))
  <2>1. \A x \in {<<"ram", 1>>}, y \in {<<"field", 0>>} : Precedes(x, y)
    BY DEF Precedes
  <2> QED
    BY <1>3, <1>4, <2>1, SlotNumbers, SegmentsJoin
<1>6. sorts \in SUBSET Extras
  BY DEF Extras
<1> HIDE DEF extra, sorts
<1> QED
  BY <1>1, <1>3, <1>4, <1>5, <1>6, FieldDelegateStages

LEMMA FieldImportStages ==
  ASSUME MemoryTyped, NEW f \in Frames, NEW b \in Blocks, NEW c \in FieldCells, NEW v \in Value,
         NEW result \in Value, FieldImport(f, b, c, v, result)
  PROVE  Stages(pending', memory', field')
<1> DEFINE words == [j \in 1..Len(b) |-> memory[b[j]]]
<1>1. b \in Seq(Words)
  BY OperandsAssumption DEF DistinctIn
<1>2. \A j \in 1..Len(b) : b[j] \in Chained
  BY <1>1, SpacesAssumption
<1>3. words \in [1..Len(b) -> Value]
  BY <1>2 DEF MemoryTyped
<1>4. FieldIo(f, b, words, c, v, result)
  BY DEF FieldImport
<1> HIDE DEF words
<1> QED
  BY <1>3, <1>4, FieldIoStages

LEMMA FieldExportStages ==
  ASSUME MemoryTyped, NEW f \in Frames, NEW b \in Blocks, NEW c \in FieldCells,
         NEW words \in [1..Len(b) -> Value], NEW result \in Value,
         FieldExport(f, b, words, c, result)
  PROVE  Stages(pending', memory', field')
<1>1. field[c] \in Value
  BY DEF MemoryTyped
<1>2. FieldIo(f, b, words, c, field[c], result)
  BY DEF FieldExport
<1> QED
  BY <1>1, <1>2, FieldIoStages

\* Whatever the instruction, its queries lead from the machine to the machine.
LEMMA InstructionsStage ==
  ASSUME MemoryTyped, ExecuteNext \/ DelegateNext
  PROVE  /\ Stages(pending', memory', field')
         /\ MayExecute /\ UNCHANGED <<logVars, cycle>>
<1>1. MayExecute /\ UNCHANGED <<logVars, cycle>>
  <2>1. CASE ExecuteNext
    BY <2>1 DEF ExecuteNext, Compute, Load, Store, Atomic, Exit, UnknownCall, Execute
  <2>2. ASSUME NEW f, NEW frame, NEW extra, NEW m, NEW result, Delegate(f, frame, extra, m, result)
        PROVE  MayExecute /\ UNCHANGED <<logVars, cycle>>
    BY <2>2 DEF Delegate, Execute
  <2>3. CASE BaseDelegateNext
    BY <2>2, <2>3 DEF BaseDelegateNext, AnswerInPlace
  <2>4. ASSUME NEW f \in Frames, NEW result \in Value, FieldDelegate(f, result)
        PROVE  MayExecute /\ UNCHANGED <<logVars, cycle>>
    BY <2>2, <2>4 DEF FieldDelegate, FrOp, FrDigit, VectorOp, FieldImport, FieldExport, FieldIo
  <2> QED
    BY <2>1, <2>3, <2>4 DEF DelegateNext
<1> SUFFICES Stages(pending', memory', field')
  BY <1>1
<1>2. CASE ExecuteNext
  <2>1. ASSUME NEW rs1 \in RegOrNone, NEW rs2 \in RegOrNone, NEW rd \in RegOrNone,
               NEW v \in Value, NEW next \in Value, Compute(rs1, rs2, rd, v, next)
        PROVE  Stages(pending', memory', field')
    BY <2>1, ComputeStages
  <2>2. ASSUME NEW rs1 \in Registers, NEW w \in Words, NEW rd \in RegOrNone, NEW v \in Value,
               Load(rs1, w, rd, v)
        PROVE  Stages(pending', memory', field')
    BY <2>2, LoadStages
  <2>3. ASSUME NEW rs1 \in Registers, NEW rs2 \in Registers, NEW w \in Words, NEW v \in Value,
               Store(rs1, rs2, w, v)
        PROVE  Stages(pending', memory', field')
    BY <2>3, StoreStages
  <2>4. ASSUME NEW rs1 \in Registers, NEW rs2 \in RegOrNone, NEW rd \in RegOrNone,
               NEW w \in Words, NEW v \in Value, NEW result \in {memory[w], Zero},
               Atomic(rs1, rs2, w, rd, v, result)
        PROVE  Stages(pending', memory', field')
    BY <2>4, AtomicStages
  <2>5. CASE Exit
    BY <2>5, ExitStages
  <2>6. ASSUME NEW v \in Value, UnknownCall(v)
        PROVE  Stages(pending', memory', field')
    BY <2>6, UnknownCallStages
  <2> QED
    BY <1>2, <2>1, <2>2, <2>3, <2>4, <2>5, <2>6 DEF ExecuteNext
<1>3. CASE BaseDelegateNext
  BY <1>3, AnswerInPlaceStages DEF BaseDelegateNext
<1>4. ASSUME NEW f \in Frames, NEW result \in Value, FieldDelegate(f, result)
      PROVE  Stages(pending', memory', field')
  <2>1. ASSUME NEW a \in Cells \cup {<<>>}, NEW b \in Cells \cup {<<>>}, NEW d \in Cells \cup {<<>>},
               NEW v \in Value, FrOp(f, a, b, d, v, result)
        PROVE  Stages(pending', memory', field')
    BY <2>1, FrOpStages
  <2>2. ASSUME NEW a \in FieldCells, NEW b \in FieldCells, NEW d \in FieldCells,
               NEW rest \in Value, NEW digit \in Value, FrDigit(f, a, b, d, rest, digit, result)
        PROVE  Stages(pending', memory', field')
    BY <2>2, FrDigitStages
  <2>3. ASSUME NEW first \in Operand, NEW second \in Operand, NEW third \in Operand, NEW d \in Vectors,
               NEW new \in [1..Len(d) -> Value], VectorOp(f, first, second, third, d, new, result)
        PROVE  Stages(pending', memory', field')
    BY <2>3, VectorOpStages
  <2>4. ASSUME NEW b \in Blocks, NEW c \in FieldCells, NEW v \in Value, FieldImport(f, b, c, v, result)
        PROVE  Stages(pending', memory', field')
    BY <2>4, FieldImportStages
  <2>5. ASSUME NEW b \in Blocks, NEW c \in FieldCells, NEW words \in [1..Len(b) -> Value],
               FieldExport(f, b, words, c, result)
        PROVE  Stages(pending', memory', field')
    BY <2>5, FieldExportStages
  <2> QED
    BY <1>4, <2>1, <2>2, <2>3, <2>4, <2>5 DEF FieldDelegate
<1> QED
  BY <1>2, <1>3, <1>4 DEF DelegateNext

-----------------------------------------------------------------------------
(* What the tables say *)

ValueOf(c) ==
  IF c \in Chained THEN (IF c \in DOMAIN lastAccess THEN lastAccess[c].value ELSE Initial[c])
  ELSE IF c \in DOMAIN fieldAccess THEN fieldAccess[c].value ELSE Zero
TsOf(c) ==
  IF c \in DOMAIN lastAccess THEN lastAccess[c].ts
  ELSE IF c \in DOMAIN fieldAccess THEN fieldAccess[c].ts ELSE 0
Stored == [c \in AllCells |-> ValueOf(c)]

LEMMA TablesTyped ==
  ASSUME LogTypeOK
  PROVE  Stored \in Stores /\ \A c \in AllCells : Stored[c] = ValueOf(c) /\ TsOf(c) \in Nat
<1>1. ASSUME NEW c \in AllCells PROVE ValueOf(c) \in Value /\ TsOf(c) \in Nat
  <2>1. c \in DOMAIN lastAccess => lastAccess[c].value \in Value /\ lastAccess[c].ts \in Nat
    BY DEF LogTypeOK, Access
  <2>2. c \in DOMAIN fieldAccess => fieldAccess[c].value \in Value /\ fieldAccess[c].ts \in Nat
    BY DEF LogTypeOK, Access
  <2>3. Zero \in Value /\ (c \in Chained => Initial[c] \in Value)
    BY ValueAssumption
  <2> QED
    BY <2>1, <2>2, <2>3 DEF ValueOf, TsOf
<1> QED
  BY <1>1 DEF Stored, Stores

\* What a query of the machine's value reads is what the tables say.
LEMMA ReadsOfTheTables ==
  ASSUME LogTypeOK
  PROVE  /\ \A c \in Cell : /\ ReadOf(c, ValueOf(c)).value = ValueOf(c)
                            /\ ReadOf(c, ValueOf(c)).ts = TsOf(c)
         /\ \A c \in FieldCells : FieldReadOf(c).value = ValueOf(c) /\ FieldReadOf(c).ts = TsOf(c)
<1>1. DOMAIN lastAccess \subseteq Chained /\ DOMAIN fieldAccess \subseteq FieldCells
  BY DEF LogTypeOK
<1>2. ASSUME NEW c \in Cell
      PROVE  ReadOf(c, ValueOf(c)).value = ValueOf(c) /\ ReadOf(c, ValueOf(c)).ts = TsOf(c)
  <2>1. c \notin DOMAIN fieldAccess
    BY <1>1, CellsAssumption DEF Cell
  <2>2. CASE c \in DOMAIN lastAccess
    BY <1>1, <2>2 DEF ReadOf, ValueOf, TsOf
  <2>3. CASE c \notin DOMAIN lastAccess
    BY <2>1, <2>3 DEF ReadOf, ValueOf, TsOf
  <2> QED
    BY <2>2, <2>3
<1>3. ASSUME NEW c \in FieldCells
      PROVE  FieldReadOf(c).value = ValueOf(c) /\ FieldReadOf(c).ts = TsOf(c)
  <2>1. c \notin Chained /\ c \notin DOMAIN lastAccess
    BY <1>1, CellsAssumption
  <2> QED
    BY <2>1 DEF FieldReadOf, ValueOf, TsOf
<1> QED
  BY <1>2, <1>3

\* Recording writes the tables in one cell.
LEMMA RecordStores ==
  ASSUME LogTypeOK, NEW c \in Cell, NEW ts, NEW v, NEW w, Record(c, ts, v, w),
         c \in Anchors => w = Zero
  PROVE  /\ Stored' = [Stored EXCEPT ![c] = w]
         /\ \A d \in AllCells : TsOf(d)' = IF d = c /\ c \in Chained THEN ts ELSE TsOf(d)
<1>1. DOMAIN lastAccess \subseteq Chained /\ DOMAIN fieldAccess \subseteq FieldCells
  BY DEF LogTypeOK
<1>2. /\ fieldAccess' = fieldAccess
      /\ lastAccess' = IF c \in Chained THEN Remember(lastAccess, c, [ts |-> ts, value |-> w]) ELSE lastAccess
  BY DEF Record, Remembered
<1>3. CASE c \in Chained
  <2>1. /\ DOMAIN lastAccess' = DOMAIN lastAccess \cup {c}
        /\ \A d \in DOMAIN lastAccess' : lastAccess'[d] = IF d = c THEN [ts |-> ts, value |-> w] ELSE lastAccess[d]
    BY <1>2, <1>3 DEF Remember
  <2>2. \A d \in AllCells : /\ ValueOf(d)' = IF d = c THEN w ELSE ValueOf(d)
                            /\ TsOf(d)' = IF d = c THEN ts ELSE TsOf(d)
    BY <1>2, <1>3, <2>1 DEF ValueOf, TsOf
  <2> QED
    BY <1>3, <2>2 DEF Stored
<1>4. CASE c \notin Chained
  <2>1. lastAccess' = lastAccess /\ c \in Anchors
    BY <1>2, <1>4 DEF Cell
  <2>2. c \notin DOMAIN fieldAccess /\ ValueOf(c) = Zero
    BY <1>1, <1>4, <2>1, CellsAssumption DEF ValueOf
  <2>3. \A d \in AllCells : ValueOf(d)' = ValueOf(d) /\ TsOf(d)' = TsOf(d)
    BY <1>2, <2>1 DEF ValueOf, TsOf
  <2> QED
    BY <1>4, <2>1, <2>2, <2>3 DEF Stored
<1> QED
  BY <1>3, <1>4

LEMMA RecordFieldStores ==
  ASSUME LogTypeOK, NEW c \in FieldCells, NEW ts, NEW v, NEW w, RecordField(c, ts, v, w)
  PROVE  /\ Stored' = [Stored EXCEPT ![c] = w]
         /\ \A d \in AllCells : TsOf(d)' = IF d = c THEN ts ELSE TsOf(d)
<1>1. DOMAIN lastAccess \subseteq Chained /\ c \notin Chained
  BY CellsAssumption DEF LogTypeOK
<1>2. /\ lastAccess' = lastAccess
      /\ DOMAIN fieldAccess' = DOMAIN fieldAccess \cup {c}
      /\ \A d \in DOMAIN fieldAccess' : fieldAccess'[d] = IF d = c THEN [ts |-> ts, value |-> w] ELSE fieldAccess[d]
  BY DEF RecordField, Remember
<1>3. \A d \in AllCells : /\ ValueOf(d)' = IF d = c THEN w ELSE ValueOf(d)
                          /\ TsOf(d)' = IF d = c THEN ts ELSE TsOf(d)
  BY <1>1, <1>2 DEF ValueOf, TsOf
<1> QED
  BY <1>3 DEF Stored

\* The first of the queries that lead from a to b reads a.
LEMMA PlaysOn ==
  ASSUME NEW s \in Seq(Query), NEW a, NEW b, Plays(s, a, b)
  PROVE  /\ s = <<>> => a = b
         /\ s # <<>> => /\ Head(s).read = a[Head(s).cell]
                        /\ Plays(Tail(s), [a EXCEPT ![Head(s).cell] = Head(s).write], b)
<1> DEFINE n == Len(s)
<1>1. n \in Nat
  OBVIOUS
<1>2. PICK st \in [0..n -> Stores] :
        /\ st[0] = a /\ st[n] = b
        /\ \A j \in 1..n : /\ s[j].read = st[j - 1][s[j].cell]
                           /\ st[j] = [st[j - 1] EXCEPT ![s[j].cell] = s[j].write]
  BY DEF Plays
<1>3. s = <<>> => a = b
  BY <1>2
<1>4. ASSUME s # <<>>
      PROVE  /\ Head(s).read = a[Head(s).cell]
             /\ Plays(Tail(s), [a EXCEPT ![Head(s).cell] = Head(s).write], b)
  <2> DEFINE t == Tail(s)
             at == [j \in 0..(n - 1) |-> st[j + 1]]
  <2>1. /\ n >= 1 /\ Head(s) = s[1] /\ t \in Seq(Query) /\ Len(t) = n - 1
        /\ \A j \in 1..(n - 1) : t[j] = s[j + 1]
    BY <1>4
  <2>2. 1 \in 1..n /\ 1 - 1 = 0
    BY <1>1, <2>1
  <2>3. s[1].read = a[s[1].cell] /\ st[1] = [a EXCEPT ![s[1].cell] = s[1].write]
    BY <1>2, <2>2
  <2> HIDE DEF n, t
  <2>4. \A j \in 0..(n - 1) : j + 1 \in 0..n
    BY <1>1, <2>1
  <2>5. at \in [0..(n - 1) -> Stores] /\ \A j \in 0..(n - 1) : at[j] = st[j + 1]
    BY <1>2, <2>4
  <2> HIDE DEF at
  <2>6. at[0] = st[1] /\ at[n - 1] = b
    <3>1. 0 \in 0..(n - 1) /\ n - 1 \in 0..(n - 1) /\ 0 + 1 = 1 /\ (n - 1) + 1 = n
      BY <1>1, <2>1
    <3> QED
      BY <1>2, <2>5, <3>1
  <2>7. ASSUME NEW j \in 1..(n - 1)
        PROVE  /\ t[j].read = at[j - 1][t[j].cell]
               /\ at[j] = [at[j - 1] EXCEPT ![t[j].cell] = t[j].write]
    <3>1. /\ j + 1 \in 1..n /\ (j + 1) - 1 = j /\ (j - 1) + 1 = j
          /\ j \in 0..(n - 1) /\ j - 1 \in 0..(n - 1)
      BY <1>1
    <3>2. at[j - 1] = st[j] /\ at[j] = st[j + 1] /\ t[j] = s[j + 1]
      BY <2>1, <2>5, <3>1
    <3>3. /\ s[j + 1].read = st[j][s[j + 1].cell]
          /\ st[j + 1] = [st[j] EXCEPT ![s[j + 1].cell] = s[j + 1].write]
      BY <1>2, <3>1
    <3> QED
      BY <3>2, <3>3
  <2>8. Plays(t, st[1], b)
    <3>1. at \in [0..Len(t) -> Stores] /\ at[0] = st[1] /\ at[Len(t)] = b
      BY <2>1, <2>5, <2>6
    <3>2. \A j \in 1..Len(t) : /\ t[j].read = at[j - 1][t[j].cell]
                               /\ at[j] = [at[j - 1] EXCEPT ![t[j].cell] = t[j].write]
      BY <2>1, <2>7
    <3> QED
      BY <3>1, <3>2 DEF Plays
  <2> QED
    BY <2>1, <2>3, <2>8 DEF t
<1> QED
  BY <1>3, <1>4

-----------------------------------------------------------------------------
(* The invariant *)

MachineTypeOK == MemoryTyped /\ cycle \in Nat \ {0} /\ pending \in Seq(Query)

\* What is left to log leads from what the tables say to what the machine holds.
PendingPlays == Ordered(pending) /\ Plays(pending, Stored, Joint(memory, field))

\* The first timestamp past what may have been logged.
CycleEnd == IF pending = <<>> THEN 4 * cycle ELSE 4 * cycle + 4

\* Everything logged is of this cycle or an earlier one, and the pc's last write
\* of this one or the one before.
OnTheClock ==
  /\ pending # <<>> => 4 * cycle + 3 < ClockEnd
  /\ lastTs < CycleEnd
  /\ \A c \in AllCells : TsOf(c) < CycleEnd
  /\ \A j \in 1..Len(pending) : pending[j].cell = Pc => j = 1 /\ pending[j].delta = 0
  /\ TsOf(Pc) = IF pending = <<>> \/ pending[1].cell = Pc THEN 4 * (cycle - 1) ELSE 4 * cycle

\* A query not logged yet: its cell was last written before, nothing after it is
\* logged, and nothing in its slot but what may share it.
Fresh(q) ==
  /\ TsOf(q.cell) < 4 * cycle + q.delta
  /\ KindOf(q.cell) # "field" =>
       /\ lastTs <= 4 * cycle + q.delta
       /\ \A i \in 1..Len(events) :
            events[i].ts = 4 * cycle + q.delta /\ KindOf(events[i].cell) = KindOf(q.cell) =>
              KindOf(q.cell) = "ram" /\ q.delta \in {Slot.frame, Slot.data}

PendingAreFresh == \A j \in 1..Len(pending) : Fresh(pending[j])

MachineInv ==
  /\ LogInv
  /\ MachineTypeOK
  /\ PendingPlays
  /\ OnTheClock
  /\ PendingAreFresh
  /\ EventsRouteByTheirSlot
  /\ StartsFromTheMemory(events)

LEMMA MachineStarts == MachineInit => MachineInv
<1> SUFFICES ASSUME MachineInit PROVE MachineInv
  OBVIOUS
<1>1. /\ LogInit /\ memory = Initial /\ field = [c \in FieldCells |-> Zero]
      /\ cycle = 1 /\ pending = <<>>
  BY DEF MachineInit
<1>2. LogInv
  BY <1>1, EmptyLogInv
<1>3. MachineTypeOK
  BY <1>1, ValueAssumption DEF MachineTypeOK, MemoryTyped
<1>4. Len(pending) = 0 /\ Len(events) = 0 /\ events = <<>> /\ lastTs = 0
  BY <1>1 DEF LogInit
<1>5. DOMAIN lastAccess = {} /\ DOMAIN fieldAccess = {}
  BY <1>1 DEF LogInit
<1>6. Stored = Joint(memory, field)
  <2>1. \A c \in AllCells :
          ValueOf(c) = IF c \in Chained THEN memory[c] ELSE IF c \in FieldCells THEN field[c] ELSE Zero
    BY <1>1, <1>5 DEF ValueOf
  <2> QED
    BY <2>1 DEF Stored, Joint
<1>7. PendingPlays
  <2>1. Stored \in Stores
    BY <1>2, TablesTyped DEF LogInv
  <2>2. Segment(<<>>, {}, Stored, Stored)
    BY <2>1, EmptySegment
  <2> QED
    BY <1>1, <1>6, <2>2 DEF PendingPlays, Segment
<1>8. OnTheClock
  <2>1. CycleEnd = 4
    BY <1>1 DEF CycleEnd
  <2>2. \A c \in AllCells : TsOf(c) = 0
    BY <1>5 DEF TsOf
  <2>3. Pc \in AllCells /\ 4 * (1 - 1) = 0
    BY KindsOfCells
  <2> QED
    BY <1>1, <1>4, <2>1, <2>2, <2>3 DEF OnTheClock
<1>9. PendingAreFresh /\ EventsRouteByTheirSlot /\ StartsFromTheMemory(events)
  BY <1>4 DEF PendingAreFresh, EventsRouteByTheirSlot, StartsFromTheMemory
<1> QED
  BY <1>2, <1>3, <1>7, <1>8, <1>9 DEF MachineInv

\* An instruction keeps the invariant.
LEMMA InstructionsKeep ==
  ASSUME MachineInv, ExecuteNext \/ DelegateNext
  PROVE  MachineInv'
<1>1. MemoryTyped
  BY DEF MachineInv, MachineTypeOK
<1>2. Stages(pending', memory', field') /\ MayExecute /\ UNCHANGED <<logVars, cycle>>
  BY <1>1, InstructionsStage
<1>3. /\ pending = <<>> /\ 4 * cycle + 3 < ClockEnd
      /\ events' = events /\ lastAccess' = lastAccess /\ lastTs' = lastTs /\ fieldAccess' = fieldAccess
      /\ cycle' = cycle
  BY <1>2 DEF MayExecute, logVars
<1>4. LogInv'
  BY <1>3 DEF MachineInv, LogInv, LogTypeOK, TablesAreTheLastWrites
<1>5. /\ memory' \in [Chained -> Value] /\ field' \in [FieldCells -> Value]
      /\ pending' \in Seq(Query) /\ pending' # <<>>
      /\ \A j \in 1..Len(pending') : pending'[j].cell = Pc <=> j = 1
      /\ pending'[1].delta = 0
      /\ Ordered(pending')
      /\ Plays(pending', Joint(memory, field), Joint(memory', field'))
  BY <1>2 DEF Stages
<1>6. cycle \in Nat \ {0} /\ lastTs \in Nat /\ \A c \in AllCells : TsOf(c) \in Nat
  BY TablesTyped DEF MachineInv, MachineTypeOK, LogInv, LogTypeOK
<1>7. /\ MachineTypeOK'
      /\ \A c \in AllCells : TsOf(c)' = TsOf(c)
      /\ Stored' = Stored
  BY <1>3, <1>5, <1>6 DEF MachineTypeOK, MemoryTyped, TsOf, Stored, ValueOf
<1>8. PendingPlays'
  <2>1. Stored = Joint(memory, field)
    BY <1>3, PlaysOn DEF MachineInv, MachineTypeOK, PendingPlays
  <2> QED
    BY <2>1, <1>5, <1>7 DEF PendingPlays
<1>9. /\ lastTs < 4 * cycle
      /\ \A c \in AllCells : TsOf(c) < 4 * cycle
      /\ TsOf(Pc) = 4 * (cycle - 1)
  BY <1>3 DEF MachineInv, OnTheClock, CycleEnd
<1>10. Pc \in AllCells /\ 1 \in 1..Len(pending') /\ pending'[1].cell = Pc
  <2>1. Pc \in AllCells /\ 1 \in 1..Len(pending')
    BY <1>5, KindsOfCells
  <2> QED
    BY <1>5, <2>1
<1>11. OnTheClock'
  <2>1. CycleEnd' = 4 * cycle + 4
    BY <1>3, <1>5 DEF CycleEnd
  <2>2. lastTs < 4 * cycle + 4 /\ \A c \in AllCells : TsOf(c) < 4 * cycle + 4
    BY <1>6, <1>9
  <2>3. TsOf(Pc)' = 4 * (cycle - 1)
    BY <1>7, <1>9, <1>10
  <2> QED
    BY <1>3, <1>5, <1>7, <1>10, <2>1, <2>2, <2>3 DEF OnTheClock
<1>12. PendingAreFresh'
  <2> SUFFICES ASSUME NEW j \in 1..Len(pending') PROVE Fresh(pending[j])'
    BY DEF PendingAreFresh
  <2> DEFINE q == pending'[j]
  <2>1. q \in Query
    BY <1>5
  <2>2. q.cell \in AllCells /\ q.delta \in Nat
    BY <2>1, QueriesTyped
  <2> HIDE DEF q
  <2>3. TsOf(q.cell) < 4 * cycle + q.delta /\ lastTs < 4 * cycle + q.delta
    BY <1>6, <1>9, <2>2
  <2>4. ASSUME NEW i \in 1..Len(events) PROVE events[i].ts # 4 * cycle + q.delta
    <3>1. events[i].ts <= lastTs /\ events \in Seq(Event)
      BY DEF MachineInv, LogInv, InOrder, LogTypeOK
    <3>2. events[i].ts \in Nat
      BY <3>1, EventsTyped
    <3> QED
      BY <3>1, <3>2, <2>2, <2>3, <1>6
  <2>5. lastTs <= 4 * cycle + q.delta
    BY <2>2, <2>3, <1>6
  <2>6. TsOf(pending[j].cell)' = TsOf(q.cell)
    BY <1>3 DEF TsOf, q
  <2> QED
    BY <1>3, <2>3, <2>4, <2>5, <2>6 DEF Fresh, q
<1>13. EventsRouteByTheirSlot' /\ StartsFromTheMemory(events')
  BY <1>3 DEF MachineInv, EventsRouteByTheirSlot
<1> QED
  BY <1>4, <1>7, <1>8, <1>11, <1>12, <1>13 DEF MachineInv

\* The query the recorder is given is one its assertions let through.
LEMMA NextQuery ==
  ASSUME MachineInv, pending # <<>>
  PROVE  LET q  == Head(pending)
             ts == 4 * cycle + q.delta
         IN  /\ q = pending[1] /\ q \in Query /\ 1 \in 1..Len(pending)
             /\ ts \in 0..(ClockEnd - 1) /\ ts \in Nat /\ ts < 4 * cycle + 4
             /\ q.read = ValueOf(q.cell) /\ TsOf(q.cell) < ts /\ TsOf(q.cell) \in Nat
             /\ q.cell \in FieldCells => AcceptsField(q.cell, ts, q.read)
             /\ q.cell \notin FieldCells => q.cell \in Cell /\ Accepts(q.cell, ts, q.read)
<1> DEFINE q == Head(pending)
           ts == 4 * cycle + q.delta
<1>1. pending \in Seq(Query) /\ cycle \in Nat \ {0} /\ LogTypeOK /\ lastTs \in Nat
  BY DEF MachineInv, MachineTypeOK, LogInv, LogTypeOK
<1>2. q = pending[1] /\ q \in Query /\ 1 \in 1..Len(pending)
  BY <1>1
<1>3. q.cell \in AllCells /\ q.delta \in 0..3 /\ q.delta \in Nat
  BY <1>2, QueriesTyped
<1>4. 4 * cycle + 3 < ClockEnd /\ ClockEnd \in Nat
  BY ClockAssumption DEF MachineInv, OnTheClock
<1>5. q.read = ValueOf(q.cell)
  <2>1. q.read = Stored[q.cell]
    BY <1>1, PlaysOn DEF MachineInv, PendingPlays
  <2> QED
    BY <1>3, <2>1 DEF Stored
<1>6. Fresh(q)
  BY <1>2 DEF MachineInv, PendingAreFresh
<1>7. TsOf(q.cell) \in Nat
  BY <1>1, <1>3, TablesTyped
<1> HIDE DEF q
<1>8. ts \in 0..(ClockEnd - 1) /\ ts \in Nat /\ ts < 4 * cycle + 4 /\ ts < ClockEnd
  BY <1>1, <1>3, <1>4
<1>9. TsOf(q.cell) < ts
  BY <1>6 DEF Fresh
<1> HIDE DEF ts
<1>10. ASSUME q.cell \in FieldCells PROVE AcceptsField(q.cell, ts, q.read)
  BY <1>1, <1>5, <1>9, <1>10, ReadsOfTheTables DEF AcceptsField
<1>11. ASSUME q.cell \notin FieldCells PROVE q.cell \in Cell /\ Accepts(q.cell, ts, q.read)
  <2>1. q.cell \in Cell /\ KindOf(q.cell) # "field"
    BY <1>3, <1>11, KindsOfCells DEF AllCells
  <2>2. lastTs <= ts
    BY <1>6, <2>1 DEF Fresh, ts
  <2>3. ts >= lastTs
    BY <1>1, <1>8, <2>2
  <2> QED
    BY <1>1, <1>5, <1>8, <1>9, <2>1, <2>3, ReadsOfTheTables DEF Accepts
<1> QED
  BY <1>2, <1>5, <1>7, <1>8, <1>9, <1>10, <1>11 DEF q, ts

\* What logging it does to the log and its tables.
LEMMA QueryLogged ==
  ASSUME MachineInv, LogQuery
  PROVE  LET q  == Head(pending)
             ts == 4 * cycle + q.delta
         IN  /\ LogInv' /\ LogNext
             /\ Stored' = [Stored EXCEPT ![q.cell] = q.write]
             /\ \A d \in AllCells : TsOf(d)' = IF d = q.cell /\ d \notin Anchors THEN ts ELSE TsOf(d)
             /\ q.cell \in FieldCells => events' = events /\ lastTs' = lastTs
             /\ q.cell \notin FieldCells =>
                  /\ lastTs' = ts
                  /\ \E e \in Event : /\ events' = Append(events, e)
                                      /\ e.cell = q.cell /\ e.ts = ts /\ e.readTs = TsOf(q.cell)
                                      /\ e.read = q.read
<1> DEFINE q == Head(pending)
           ts == 4 * cycle + q.delta
<1>1. /\ q \in Query /\ ts \in 0..(ClockEnd - 1) /\ q.read = ValueOf(q.cell)
      /\ q.cell \notin FieldCells => q.cell \in Cell
  BY NextQuery DEF LogQuery
<1>2. q.read \in Value /\ q.write \in Value /\ (q.cell \in Anchors => q.write = Zero)
  BY <1>1, QueriesTyped
<1>3. IF q.cell \in FieldCells THEN RecordField(q.cell, ts, q.read, q.write)
      ELSE Record(q.cell, ts, q.read, q.write)
  BY DEF LogQuery, Logged
<1>4. LogInv /\ LogTypeOK
  BY DEF MachineInv, LogInv
<1> HIDE DEF q, ts
<1>5. CASE q.cell \in FieldCells
  <2>1. RecordField(q.cell, ts, q.read, q.write)
    BY <1>3, <1>5
  <2>2. LogInv' /\ LogNext
    BY <1>1, <1>2, <1>4, <1>5, <2>1, RecordFieldKeeps DEF LogNext
  <2>3. /\ Stored' = [Stored EXCEPT ![q.cell] = q.write]
        /\ \A d \in AllCells : TsOf(d)' = IF d = q.cell THEN ts ELSE TsOf(d)
    BY <1>4, <1>5, <2>1, RecordFieldStores
  <2>4. q.cell \notin Anchors
    BY <1>5, CellsAssumption
  <2>5. events' = events /\ lastTs' = lastTs
    BY <2>1 DEF RecordField
  <2> QED
    BY <1>5, <2>2, <2>3, <2>4, <2>5 DEF q, ts
<1>6. CASE q.cell \notin FieldCells
  <2>1. Record(q.cell, ts, q.read, q.write) /\ q.cell \in Cell
    BY <1>1, <1>3, <1>6
  <2>2. LogInv' /\ LogNext
    BY <1>1, <1>2, <1>4, <2>1, RecordKeeps DEF LogNext
  <2>3. /\ Stored' = [Stored EXCEPT ![q.cell] = q.write]
        /\ \A d \in AllCells : TsOf(d)' = IF d = q.cell /\ q.cell \in Chained THEN ts ELSE TsOf(d)
    BY <1>2, <1>4, <2>1, RecordStores
  <2>4. q.cell \in Chained <=> q.cell \notin Anchors
    BY <2>1, CellsAssumption DEF Cell
  <2>5. lastTs' = ts
    BY <2>1 DEF Record
  <2>6. \E e \in Event : /\ events' = Append(events, e)
                         /\ e.cell = q.cell /\ e.ts = ts /\ e.readTs = TsOf(q.cell) /\ e.read = q.read
    <3>1. ReadOf(q.cell, q.read).ts = TsOf(q.cell)
      BY <1>1, <1>4, <2>1, ReadsOfTheTables
    <3> QED
      BY <1>1, <1>2, <1>4, <2>1, <3>1, RecordedEvent
  <2> QED
    BY <1>6, <2>2, <2>3, <2>4, <2>5, <2>6 DEF q, ts
<1> QED
  BY <1>5, <1>6

\* Logging a query keeps the invariant.
LEMMA LogQueryKeeps ==
  ASSUME MachineInv, LogQuery
  PROVE  MachineInv'
<1> DEFINE q == Head(pending)
           n == Len(pending)
           ts == 4 * cycle + q.delta
<1>1. /\ pending \in Seq(Query) /\ pending # <<>> /\ cycle \in Nat \ {0} /\ MemoryTyped
      /\ memory' = memory /\ field' = field
      /\ pending' = Tail(pending) /\ cycle' = IF n = 1 THEN cycle + 1 ELSE cycle
  BY DEF LogQuery, MachineInv, MachineTypeOK
<1>2. /\ n \in Nat \ {0} /\ pending' \in Seq(Query) /\ Len(pending') = n - 1
      /\ \A j \in 1..(n - 1) : pending'[j] = pending[j + 1]
      /\ pending' = <<>> <=> n = 1
  <2>1. n \in Nat \ {0}
    BY <1>1
  <2>2. pending' \in Seq(Query) /\ Len(pending') = n - 1 /\ \A j \in 1..(n - 1) : pending'[j] = pending[j + 1]
    BY <1>1
  <2>3. pending' = <<>> <=> Len(pending') = 0
    BY <2>2
  <2> HIDE DEF n
  <2> QED
    BY <2>1, <2>2, <2>3
<1>3. \A j \in 1..(n - 1) : j + 1 \in 1..n /\ 1 \in 1..n /\ 1 < j + 1 /\ j + 1 # 1
  BY <1>2
<1>4. /\ q = pending[1] /\ q \in Query /\ ts \in Nat /\ ts < 4 * cycle + 4
      /\ q.read = ValueOf(q.cell) /\ TsOf(q.cell) < ts /\ TsOf(q.cell) \in Nat
      /\ q.cell \notin FieldCells => q.cell \in Cell
  BY <1>1, NextQuery
<1>5. q.cell \in AllCells /\ q.delta \in 0..3 /\ q.delta \in Nat
  BY <1>4, QueriesTyped
<1>6. LogInv' /\ Stored' = [Stored EXCEPT ![q.cell] = q.write]
  BY QueryLogged
<1>7. \A d \in AllCells : TsOf(d)' = IF d = q.cell /\ d \notin Anchors THEN ts ELSE TsOf(d)
  BY QueryLogged
<1>8. q.cell \in FieldCells => events' = events /\ lastTs' = lastTs
  BY QueryLogged
<1>9. q.cell \notin FieldCells =>
        /\ lastTs' = ts
        /\ \E e \in Event : /\ events' = Append(events, e)
                            /\ e.cell = q.cell /\ e.ts = ts /\ e.readTs = TsOf(q.cell) /\ e.read = q.read
  BY QueryLogged
<1>10. /\ events \in Seq(Event) /\ lastTs \in Nat /\ LogTypeOK
       /\ \A i \in 1..Len(events) : events[i].ts <= lastTs /\ events[i] \in Event
  BY EventsTyped DEF MachineInv, LogInv, LogTypeOK, InOrder
<1>11. \A d \in AllCells : TsOf(d) \in Nat
  BY <1>10, TablesTyped
<1>12. \A j \in 1..(n - 1) : Before(q, pending[j + 1])
  <2>1. Ordered(pending)
    BY DEF MachineInv, PendingPlays
  <2> QED
    BY <2>1, <1>3, <1>4 DEF Ordered
<1>13. MachineTypeOK'
  BY <1>1, <1>2 DEF MachineTypeOK, MemoryTyped
<1>14. PendingPlays'
  <2>1. Ordered(pending')
    <3> SUFFICES ASSUME NEW i \in 1..(n - 1), NEW j \in 1..(n - 1), i < j
                 PROVE  Before(pending[i + 1], pending[j + 1])
      BY <1>2 DEF Ordered
    <3>1. i + 1 \in 1..n /\ j + 1 \in 1..n /\ i + 1 < j + 1
      BY <1>2
    <3> QED
      BY <3>1 DEF MachineInv, PendingPlays, Ordered
  <2>2. Plays(pending', [Stored EXCEPT ![q.cell] = q.write], Joint(memory, field))
    BY <1>1, PlaysOn DEF MachineInv, PendingPlays
  <2> QED
    BY <2>1, <2>2, <1>1, <1>6 DEF PendingPlays
<1> HIDE DEF q, n
<1>15. CycleEnd' = 4 * cycle + 4
  BY <1>1, <1>2 DEF CycleEnd
<1>16. OnTheClock'
  <2>1. 4 * cycle + 3 < ClockEnd /\ lastTs < 4 * cycle + 4 /\ \A c \in AllCells : TsOf(c) < 4 * cycle + 4
    BY <1>1 DEF MachineInv, OnTheClock, CycleEnd
  <2>2. pending' # <<>> => 4 * cycle' + 3 < ClockEnd
    BY <2>1, <1>1, <1>2
  <2>3. lastTs' < 4 * cycle + 4
    BY <2>1, <1>4, <1>8, <1>9
  <2>4. \A c \in AllCells : TsOf(c)' < 4 * cycle + 4
    BY <2>1, <1>4, <1>7
  <2>5. \A j \in 1..(n - 1) : pending[j + 1].cell # Pc
    BY <1>3 DEF MachineInv, OnTheClock, n
  <2>6. \A j \in 1..Len(pending') : pending'[j].cell # Pc
    BY <2>5, <1>2
  <2>7. pending' = <<>> \/ pending'[1].cell # Pc
    <3>1. CASE n = 1
      BY <3>1, <1>2
    <3>2. CASE n # 1
      <4>1. 1 \in 1..Len(pending')
        BY <3>2, <1>2
      <4> QED
        BY <4>1, <2>6
    <3> QED
      BY <3>1, <3>2
  <2>8. Pc \in AllCells /\ Pc \notin Anchors
    BY KindsOfCells, CellsAssumption
  <2>9. TsOf(Pc)' = 4 * cycle
    <3>1. CASE q.cell = Pc
      <4>1. q.delta = 0
        BY <3>1, <1>2, <1>4 DEF MachineInv, OnTheClock, n
      <4> QED
        BY <3>1, <4>1, <2>8, <1>1, <1>7
    <3>2. CASE q.cell # Pc
      <4>1. TsOf(Pc) = 4 * cycle
        BY <3>2, <1>1, <1>4 DEF MachineInv, OnTheClock
      <4> QED
        BY <3>2, <4>1, <2>8, <1>7
    <3> QED
      BY <3>1, <3>2
  <2>10. TsOf(Pc)' = IF pending' = <<>> \/ pending'[1].cell = Pc THEN 4 * (cycle' - 1) ELSE 4 * cycle'
    <3>1. pending' = <<>> => cycle' - 1 = cycle
      BY <1>1, <1>2
    <3>2. pending' # <<>> => cycle' = cycle
      BY <1>1, <1>2
    <3> QED
      BY <2>7, <2>9, <3>1, <3>2
  <2> QED
    BY <2>2, <2>3, <2>4, <2>6, <2>10, <1>15 DEF OnTheClock
<1>17. PendingAreFresh'
  <2> SUFFICES ASSUME NEW j \in 1..Len(pending') PROVE Fresh(pending[j])'
    BY DEF PendingAreFresh
  <2> DEFINE p == pending[j + 1]
  <2>1. j \in 1..(n - 1) /\ pending'[j] = p /\ cycle' = cycle /\ j + 1 \in 1..n
    BY <1>1, <1>2, <1>3
  <2>2. p \in Query /\ Before(q, p) /\ Fresh(p)
    BY <2>1, <1>1, <1>12 DEF MachineInv, PendingAreFresh, n
  <2>3. p.cell \in AllCells /\ p.delta \in Nat
    BY <2>2, QueriesTyped
  <2> HIDE DEF p
  <2>4. TsOf(pending[j].cell)' = IF p.cell = q.cell /\ p.cell \notin Anchors THEN ts ELSE TsOf(p.cell)
    <3>1. \A d \in AllCells : d = pending'[j].cell => TsOf(pending[j].cell)' = IF d = q.cell /\ d \notin Anchors THEN ts ELSE TsOf(d)
      BY <1>7 DEF TsOf
    <3> QED
      BY <2>1, <2>3, <3>1
  <2>5. TsOf(pending[j].cell)' < 4 * cycle + p.delta
    <3>1. CASE p.cell = q.cell /\ p.cell \notin Anchors
      <4>1. q.delta < p.delta
        BY <3>1, <2>2 DEF Before
      <4> QED
        BY <3>1, <4>1, <2>3, <2>4, <1>1, <1>5
    <3>2. CASE ~(p.cell = q.cell /\ p.cell \notin Anchors)
      BY <3>2, <2>2, <2>4 DEF Fresh
    <3> QED
      BY <3>1, <3>2
  <2>6. ASSUME KindOf(p.cell) # "field"
        PROVE  /\ lastTs' <= 4 * cycle + p.delta
               /\ \A i \in 1..Len(events') :
                    events'[i].ts = 4 * cycle + p.delta /\ KindOf(events'[i].cell) = KindOf(p.cell) =>
                      KindOf(p.cell) = "ram" /\ p.delta \in {Slot.frame, Slot.data}
    <3>1. /\ lastTs <= 4 * cycle + p.delta
          /\ \A i \in 1..Len(events) :
               events[i].ts = 4 * cycle + p.delta /\ KindOf(events[i].cell) = KindOf(p.cell) =>
                 KindOf(p.cell) = "ram" /\ p.delta \in {Slot.frame, Slot.data}
      BY <2>2, <2>6 DEF Fresh
    <3>2. CASE q.cell \in FieldCells
      BY <3>1, <3>2, <1>8
    <3>3. CASE q.cell \notin FieldCells
      <4>1. KindOf(q.cell) # "field"
        BY <3>3, <1>5, KindsOfCells
      <4>2. /\ q.delta <= p.delta
            /\ q.delta = p.delta /\ KindOf(q.cell) = KindOf(p.cell) =>
                 KindOf(p.cell) = "ram" /\ p.delta \in {Slot.frame, Slot.data}
        BY <4>1, <2>2, <2>6 DEF Before, Sort
      <4>3. lastTs' <= 4 * cycle + p.delta
        BY <3>3, <4>2, <2>3, <1>1, <1>5, <1>9
      <4>4. PICK e \in Event : events' = Append(events, e) /\ e.cell = q.cell /\ e.ts = ts
        BY <3>3, <1>9
      <4>5. \A i \in 1..Len(events') : events'[i] = e \/ (i \in 1..Len(events) /\ events'[i] = events[i])
        BY <4>4, <1>10, OneEventMore
      <4>6. ts = 4 * cycle + p.delta => q.delta = p.delta
        BY <2>3, <1>1, <1>5
      <4> QED
        BY <3>1, <4>2, <4>3, <4>4, <4>5, <4>6
    <3> QED
      BY <3>2, <3>3
  <2>7. pending[j]' = p
    BY <2>1
  <2> QED
    BY <2>1, <2>5, <2>6, <2>7 DEF Fresh
<1>18. EventsRouteByTheirSlot'
  <2>1. CASE q.cell \in FieldCells
    BY <2>1, <1>8 DEF MachineInv, EventsRouteByTheirSlot
  <2>2. CASE q.cell \notin FieldCells
    <3>1. PICK e \in Event : /\ events' = Append(events, e)
                             /\ e.cell = q.cell /\ e.ts = ts /\ e.readTs = TsOf(q.cell)
      BY <2>2, <1>9
    <3>2. \A i \in 1..Len(events') : events'[i] = e \/ (i \in 1..Len(events) /\ events'[i] = events[i])
      BY <3>1, <1>10, OneEventMore
    <3>3. \A i, j \in 1..Len(events') : i # j => i \in 1..Len(events) \/ j \in 1..Len(events)
      BY <3>1, <1>10
    <3>4. \A i \in 1..Len(events') : i \in 1..Len(events) => events'[i] = events[i]
      BY <3>1, <1>10, OneEventMore
    <3>5. \A c \in Cell : KindOf(c) = SpaceOf(c)
      BY CellsAssumption DEF KindOf, Cell
    <3>6. \A i \in 1..Len(events) : events[i].ts = ts /\ SpaceOf(events[i].cell) = SpaceOf(q.cell) =>
            SpaceOf(q.cell) = "ram" /\ q.delta \in {Slot.frame, Slot.data}
      <4>1. Fresh(q) /\ KindOf(q.cell) # "field"
        BY <1>2, <1>4, <1>5, <2>2, KindsOfCells DEF MachineInv, PendingAreFresh, n
      <4>2. \A i \in 1..Len(events) : events[i].cell \in Cell
        BY <1>10 DEF Event
      <4> QED
        BY <2>2, <3>5, <4>1, <4>2, <1>4 DEF Fresh
    <3>7. ts % 4 = q.delta
      <4>1. q.delta \in 0..3 /\ cycle \in Nat
        BY <1>1, <1>5
      <4> QED
        BY <4>1
    <3>8. ASSUME NEW i \in 1..Len(events'), NEW j \in 1..Len(events'), i # j,
                 events'[i].ts = events'[j].ts, SpaceOf(events'[i].cell) = SpaceOf(events'[j].cell)
          PROVE  SpaceOf(events'[i].cell) = "ram" /\ events'[i].ts % 4 \in {Slot.frame, Slot.data}
      <4>1. CASE i \in 1..Len(events) /\ j \in 1..Len(events)
        BY <3>4, <3>8, <4>1 DEF MachineInv, EventsRouteByTheirSlot
      <4>2. CASE i \in 1..Len(events) /\ j \notin 1..Len(events)
        <5>1. events'[j] = e /\ events'[i] = events[i]
          BY <4>2, <3>2, <3>4
        <5> QED
          BY <4>2, <5>1, <3>1, <3>6, <3>7, <3>8
      <4>3. CASE i \notin 1..Len(events)
        <5>1. j \in 1..Len(events) /\ events'[i] = e /\ events'[j] = events[j]
          BY <4>3, <3>2, <3>3, <3>4, <3>8
        <5> QED
          BY <5>1, <3>1, <3>6, <3>7, <3>8
      <4> QED
        BY <4>1, <4>2, <4>3
    <3>9. ASSUME NEW i \in 1..Len(events'), events'[i].cell = Pc
          PROVE  events'[i].readTs = events'[i].ts - 4
      <4>1. CASE i \in 1..Len(events)
        BY <3>4, <3>9, <4>1 DEF MachineInv, EventsRouteByTheirSlot
      <4>2. CASE i \notin 1..Len(events)
        <5>1. events'[i] = e /\ q.cell = Pc
          BY <4>2, <3>1, <3>2, <3>9
        <5>2. q.delta = 0
          BY <5>1, <1>2, <1>3, <1>4 DEF MachineInv, OnTheClock, n
        <5>3. TsOf(Pc) = 4 * (cycle - 1)
          BY <5>1, <1>1, <1>4 DEF MachineInv, OnTheClock
        <5>4. ts - 4 = 4 * (cycle - 1)
          BY <5>2, <1>1
        <5> QED
          BY <5>1, <5>3, <5>4, <3>1
      <4> QED
        BY <4>1, <4>2
    <3> QED
      BY <3>8, <3>9 DEF EventsRouteByTheirSlot
  <2> QED
    BY <2>1, <2>2
<1>19. StartsFromTheMemory(events')
  <2>1. CASE q.cell \in FieldCells
    BY <2>1, <1>8 DEF MachineInv
  <2>2. CASE q.cell \notin FieldCells
    <3>1. PICK e \in Event : events' = Append(events, e) /\ e.cell = q.cell /\ e.read = q.read
      BY <2>2, <1>9
    <3> DEFINE m == Len(events)
    <3>2. /\ m \in Nat /\ Len(events') = m + 1 /\ events'[m + 1] = e
          /\ \A i \in 1..m : events'[i] = events[i]
          /\ \A i \in 1..(m + 1) : i \in 1..m \/ i = m + 1
          /\ \A d : QueriesAt(events, d) \subseteq QueriesAt(events', d)
      BY <3>1, <1>10, OneEventMore
    <3>3. \A d : QueriesAt(events, d) \in SUBSET (1..m)
      BY QueriesArePlaces DEF QueriesAt
    <3> HIDE DEF m
    <3> SUFFICES ASSUME NEW i \in 1..(m + 1), events'[i].cell \in Chained,
                        \A j \in QueriesAt(events', events'[i].cell) : ~(j < i)
                 PROVE  events'[i].read = Initial[events'[i].cell]
      BY <3>2 DEF StartsFromTheMemory
    <3> DEFINE c == events'[i].cell
    <3>4. \A j \in QueriesAt(events, c) : ~(j < i)
      BY <3>2
    <3>5. CASE i \in 1..m
      BY <3>2, <3>4, <3>5 DEF MachineInv, StartsFromTheMemory, m
    <3>6. CASE i = m + 1
      <4>1. events'[i] = e /\ c = q.cell /\ c \in Chained
        BY <3>1, <3>2, <3>6
      <4>2. QueriesAt(events, c) = {}
        <5> SUFFICES ASSUME NEW j \in QueriesAt(events, c) PROVE FALSE
          OBVIOUS
        <5>1. ~(j < i) /\ j \in 1..m
          BY <3>3, <3>4
        <5> QED
          BY <5>1, <3>2, <3>6
      <4>3. c \notin DOMAIN lastAccess
        BY <4>2 DEF MachineInv, LogInv, TablesAreTheLastWrites, Touched
      <4>4. q.read = Initial[c]
        BY <1>4, <4>1, <4>3 DEF ValueOf
      <4> QED
        BY <3>1, <4>1, <4>4
    <3> QED
      BY <3>2, <3>5, <3>6
  <2> QED
    BY <2>1, <2>2
<1> QED
  BY <1>6, <1>13, <1>14, <1>16, <1>17, <1>18, <1>19 DEF MachineInv

-----------------------------------------------------------------------------
(* Theorems *)

\* The machine and its recorder: in every state what is left to log leads from
\* the tables to the machine, on the clock and in its slots.
THEOREM MachineInvariance == MachineSpec => []MachineInv
<1>1. MachineInv /\ [MachineNext]_machineVars => MachineInv'
  <2> SUFFICES ASSUME MachineInv, [MachineNext]_machineVars PROVE MachineInv'
    OBVIOUS
  <2>1. CASE ExecuteNext \/ DelegateNext
    BY <2>1, InstructionsKeep
  <2>2. CASE LogQuery
    BY <2>2, LogQueryKeeps
  <2>3. CASE UNCHANGED machineVars
    <3>1. /\ events' = events /\ lastAccess' = lastAccess /\ lastTs' = lastTs /\ fieldAccess' = fieldAccess
          /\ memory' = memory /\ field' = field /\ cycle' = cycle /\ pending' = pending
      BY <2>3 DEF machineVars, logVars
    <3>2. LogInv' /\ MachineTypeOK' /\ EventsRouteByTheirSlot' /\ StartsFromTheMemory(events')
      BY <3>1 DEF MachineInv, LogInv, LogTypeOK, TablesAreTheLastWrites, MachineTypeOK, MemoryTyped,
                  EventsRouteByTheirSlot
    <3>3. PendingPlays' /\ OnTheClock'
      BY <3>1 DEF MachineInv, PendingPlays, OnTheClock, CycleEnd, Stored, ValueOf, TsOf
    <3>4. PendingAreFresh'
      BY <3>1 DEF MachineInv, PendingAreFresh, Fresh, TsOf
    <3> QED
      BY <3>2, <3>3, <3>4 DEF MachineInv
  <2> QED
    BY <2>1, <2>2, <2>3 DEF MachineNext
<1> QED
  BY <1>1, MachineStarts, PTL DEF MachineSpec

\* record and record_field never panic on a query the machine made.
THEOREM RecordingNeverPanics == MachineSpec => []NoQueryIsRefused
<1>1. MachineInv => NoQueryIsRefused
  <2> SUFFICES ASSUME MachineInv, pending # <<>>
               PROVE  IF Head(pending).cell \in FieldCells
                      THEN AcceptsField(Head(pending).cell, 4 * cycle + Head(pending).delta, Head(pending).read)
                      ELSE Accepts(Head(pending).cell, 4 * cycle + Head(pending).delta, Head(pending).read)
    BY DEF NoQueryIsRefused
  <2> QED
    BY NextQuery
<1> QED
  BY <1>1, MachineInvariance, PTL

\* After every cycle the tables hold what the machine holds.
THEOREM TeardownBindsTheMachine == MachineSpec => []TheTablesAreTheMachine
<1>1. MachineInv => TheTablesAreTheMachine
  <2> SUFFICES ASSUME MachineInv, pending = <<>>
               PROVE  /\ \A c \in Chained :
                           memory[c] = IF c \in DOMAIN lastAccess THEN lastAccess[c].value ELSE Initial[c]
                      /\ \A c \in FieldCells :
                           field[c] = IF c \in DOMAIN fieldAccess THEN fieldAccess[c].value ELSE Zero
    BY DEF TheTablesAreTheMachine
  <2>1. Stored = Joint(memory, field)
    BY PlaysOn DEF MachineInv, MachineTypeOK, PendingPlays
  <2>2. /\ \A c \in Chained : c \in AllCells /\ Joint(memory, field)[c] = memory[c]
        /\ \A c \in FieldCells : c \in AllCells /\ c \notin Chained /\ Joint(memory, field)[c] = field[c]
    BY JointTyped, CellsAssumption DEF MachineInv, MachineTypeOK, MemoryTyped, AllCells, Cell
  <2>3. \A c \in AllCells : Stored[c] = ValueOf(c)
    BY DEF Stored
  <2> QED
    BY <2>1, <2>2, <2>3 DEF ValueOf
<1> QED
  BY <1>1, MachineInvariance, PTL

\* An event is found by its cycle, its space and its slot, and the pc's read is
\* of the cycle before.
THEOREM RoutingIsBySlot == MachineSpec => []EventsRouteByTheirSlot
BY MachineInvariance, PTL DEF MachineInv

\* The log of an honest execution passes the memory argument.
THEOREM HonestExecutionsPass == MachineSpec => []HonestLogsPassTheCheck
<1>1. MachineInv => HonestLogsPassTheCheck
  <2> SUFFICES ASSUME MachineInv PROVE SelfCheck(events)
    BY DEF HonestLogsPassTheCheck
  <2>1. events \in Seq(Event) /\ SelfCheckAcceptsRecorded
    BY RecordedLogsPass DEF MachineInv, LogInv, LogTypeOK
  <2>2. FirstRead(events) = Initial
    BY <2>1, FirstReadsAreTheMemory DEF MachineInv
  <2>3. AnchorsAreAskedOnceATick
    <3> SUFFICES ASSUME NEW i \in 1..Len(events), NEW j \in 1..Len(events), events[i].cell \in Anchors,
                        events[i].cell = events[j].cell, events[i].ts = events[j].ts, i # j
                 PROVE  FALSE
      BY DEF AnchorsAreAskedOnceATick
    <3>1. SpaceOf(events[i].cell) = "ram"
      BY DEF MachineInv, EventsRouteByTheirSlot
    <3>2. events[i].cell \in Words /\ Words \subseteq Chained
      BY <3>1, SpacesAssumption DEF SpaceOf
    <3> QED
      BY <3>2, CellsAssumption
  <2> QED
    BY <2>1, <2>2, <2>3 DEF SelfCheckAcceptsRecorded
<1> QED
  BY <1>1, MachineInvariance, PTL

\* The machine is a caller of record and record_field and nothing more: what it
\* logs is a log of MemoryLog's specification.
THEOREM MachinesRecord == MachineSpec => LogSpec
<1>1. MachineInit => LogInit
  BY DEF MachineInit
<1>2. MachineInv /\ [MachineNext]_machineVars => [LogNext]_logVars
  <2> SUFFICES ASSUME MachineInv, [MachineNext]_machineVars PROVE [LogNext]_logVars
    OBVIOUS
  <2>1. CASE ExecuteNext \/ DelegateNext
    <3>1. UNCHANGED logVars
      BY <2>1, InstructionsStage DEF MachineInv, MachineTypeOK
    <3> QED
      BY <3>1
  <2>2. CASE LogQuery
    BY <2>2, QueryLogged
  <2>3. CASE UNCHANGED machineVars
    BY <2>3 DEF machineVars
  <2> QED
    BY <2>1, <2>2, <2>3 DEF MachineNext
<1> QED
  BY <1>1, <1>2, MachineInvariance, PTL DEF MachineSpec, LogSpec

=============================================================================
