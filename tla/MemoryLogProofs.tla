--------------------------- MODULE MemoryLogProofs ---------------------------
(***************************************************************************)
(* Theorems about MemoryLog, for every set of cells and values, every      *)
(* clock and every log.                                                    *)
(*                                                                         *)
(* The first part is the offline memory argument: under the timestamp      *)
(* rules, the multisets of self_check balance exactly when every query     *)
(* reads the last write before it.  The second is an invariant of          *)
(* recording: whatever record accepts is a memory's log.                   *)
(***************************************************************************)
EXTENDS MemoryLog, FiniteSetTheorems, WellFoundedInduction, TLAPS

-----------------------------------------------------------------------------
(* Numbers and small sets *)

\* A set of naturals that is not empty has a least element.
LEMMA LeastOf ==
  ASSUME NEW S \in SUBSET Nat, S # {}
  PROVE  \E m \in S : \A x \in S : m <= x
<1> DEFINE R == {ss \in Nat \X Nat : ss[1] < ss[2]}
<1>1. IsWellFoundedOn(R, Nat)
  BY NatLessThanWellFounded DEF OpToRel
<1>2. \A x, y \in Nat : x < y => <<x, y>> \in R
  OBVIOUS
<1> HIDE DEF R
<1>3. PICK m \in S : \A x \in S : ~(<<x, m>> \in R)
  BY <1>1, WFMin
<1>4. \A x \in S : ~(x < m)
  BY <1>2, <1>3
<1> QED
  BY <1>4

\* A set of places of a sequence that is not empty has a last one.
LEMMA GreatestOf ==
  ASSUME NEW n \in Nat, NEW S \in SUBSET (1..n), S # {}
  PROVE  \E m \in S : \A x \in S : x <= m
<1> DEFINE T == {n - x : x \in S}
<1>0. \A x \in S : n - x \in Nat
  OBVIOUS
<1>1. T \in SUBSET Nat /\ T # {}
  BY <1>0
<1>2. PICK t \in T : \A x \in T : t <= x
  BY <1>1, LeastOf
<1>3. PICK m \in S : t = n - m
  BY <1>2
<1>4. ASSUME NEW x \in S PROVE x <= m
  <2>1. n - x \in T
    OBVIOUS
  <2>2. n - m <= n - x
    BY <2>1, <1>2, <1>3
  <2> QED
    BY <2>2
<1> QED
  BY <1>4

\* A set of places is finite; it counts 0 when empty, 1 with one element, and
\* never more than 1 when no two elements differ.
LEMMA PlacesCount ==
  ASSUME NEW n \in Nat, NEW S \in SUBSET (1..n)
  PROVE  /\ Cardinality(S) \in Nat
         /\ S = {} => Cardinality(S) = 0
         /\ \A x \in S : S = {x} => Cardinality(S) = 1
         /\ Cardinality(S) = 0 => S = {}
         /\ Cardinality(S) <= 1 => \A x, y \in S : x = y
         /\ (\A x, y \in S : x = y) => Cardinality(S) <= 1
<1>0. IsFiniteSet(1..n)
  BY FS_Interval
<1>1. IsFiniteSet(S)
  BY <1>0, FS_Subset
<1>2. Cardinality(S) \in Nat
  BY <1>1, FS_CardinalityType
<1>3. Cardinality(S) = 0 <=> S = {}
  BY <1>1, FS_EmptySet
<1>4. Cardinality(S) = 1 <=> \E x : S = {x}
  BY <1>1, FS_Singleton
<1>5. ASSUME Cardinality(S) <= 1 PROVE \A x, y \in S : x = y
  <2>1. Cardinality(S) = 0 \/ Cardinality(S) = 1
    BY <1>2, <1>5
  <2> QED
    BY <2>1, <1>3, <1>4
<1>6. ASSUME \A x, y \in S : x = y PROVE Cardinality(S) <= 1
  <2>1. CASE S = {}
    BY <2>1, <1>3
  <2>2. CASE S # {}
    <3>1. PICK x : x \in S
      BY <2>2
    <3>2. S = {x}
      BY <3>1, <1>6
    <3> QED
      BY <3>2, <1>4
  <2> QED
    BY <2>1, <2>2
<1> QED
  BY <1>2, <1>3, <1>4, <1>5, <1>6

-----------------------------------------------------------------------------
(* The timestamp rules *)

\* The fields of a log's events.
LEMMA EventsTyped ==
  ASSUME NEW log \in Seq(Event)
  PROVE  /\ Len(log) \in Nat
         /\ \A i \in 1..Len(log) : /\ log[i].cell \in Chained \cup Anchors
                                  /\ log[i].ts \in Nat
                                  /\ log[i].readTs \in Nat
<1>1. Len(log) \in Nat /\ \A i \in 1..Len(log) : log[i] \in Event
  OBVIOUS
<1>2. \A e \in Event : e.cell \in Chained \cup Anchors /\ e.ts \in Nat /\ e.readTs \in Nat
  BY DEF Event, Cell
<1> QED
  BY <1>1, <1>2

\* What the rules give: order, reads before writes, and one query of a cell in
\* a tick.
LEMMA RulesHold ==
  ASSUME NEW log \in Seq(Event), TimestampRules(log)
  PROVE  /\ \A i \in 1..Len(log) : log[i].readTs < log[i].ts /\ 0 < log[i].ts
         /\ \A i, j \in 1..Len(log) : log[i].ts < log[j].ts => i < j
         /\ \A i, j \in 1..Len(log) :
              log[i].cell = log[j].cell /\ log[i].ts = log[j].ts => i = j
         /\ \A i, j \in 1..Len(log) :
              log[i].cell = log[j].cell /\ i < j => log[i].ts < log[j].ts
<1>0. Len(log) \in Nat /\ \A i \in 1..Len(log) : log[i].ts \in Nat /\ log[i].readTs \in Nat
  BY EventsTyped
<1>1. \A i \in 1..Len(log) :
        /\ \A j \in 1..(i - 1) : log[j].ts <= log[i].ts
        /\ log[i].readTs < log[i].ts
        /\ \A j \in 1..(i - 1) : log[j].cell = log[i].cell => log[j].ts # log[i].ts
  BY DEF TimestampRules, TimestampRulesAt
<1>2. ASSUME NEW i \in 1..Len(log), NEW j \in 1..Len(log), i < j
      PROVE  /\ log[i].ts <= log[j].ts
             /\ log[i].cell = log[j].cell => log[i].ts # log[j].ts
  <2>1. i \in 1..(j - 1)
    BY <1>0, <1>2
  <2> QED
    BY <2>1, <1>1
<1>3. \A i \in 1..Len(log) : log[i].readTs < log[i].ts /\ 0 < log[i].ts
  BY <1>0, <1>1
<1>4. ASSUME NEW i \in 1..Len(log), NEW j \in 1..Len(log), log[i].ts < log[j].ts
      PROVE  i < j
  <2>1. ~(j < i)
    BY <1>0, <1>2, <1>4
  <2>2. i # j
    BY <1>0, <1>4
  <2> QED
    BY <2>1, <2>2, <1>0
<1>5. ASSUME NEW i \in 1..Len(log), NEW j \in 1..Len(log),
             log[i].cell = log[j].cell, log[i].ts = log[j].ts
      PROVE  i = j
  <2>1. ~(j < i) /\ ~(i < j)
    BY <1>2, <1>5
  <2> QED
    BY <2>1, <1>0
<1>6. ASSUME NEW i \in 1..Len(log), NEW j \in 1..Len(log),
             log[i].cell = log[j].cell, i < j
      PROVE  log[i].ts < log[j].ts
  BY <1>0, <1>2, <1>6
<1> QED
  BY <1>3, <1>4, <1>5, <1>6

\* The queries at a cell are places of the log.
LEMMA QueriesArePlaces ==
  ASSUME NEW log \in Seq(Event), NEW c
  PROVE  QueriesAt(log, c) \in SUBSET (1..Len(log))
BY DEF QueriesAt

\* Before a query that is not its cell's first comes a last one, and after a
\* query that is not its cell's last comes a first.
LEMMA Neighbours ==
  ASSUME NEW log \in Seq(Event), NEW c, NEW i \in QueriesAt(log, c)
  PROVE  /\ {j \in QueriesAt(log, c) : j < i} # {} =>
              \E p \in QueriesAt(log, c) :
                p < i /\ \A j \in QueriesAt(log, c) : j < i => j <= p
         /\ \A x \in QueriesAt(log, c) : i < x =>
              \E s \in QueriesAt(log, c) :
                i < s /\ s <= x /\ \A j \in QueriesAt(log, c) : i < j => s <= j
<1> DEFINE Q == QueriesAt(log, c)
           before == {j \in Q : j < i}
           after == {j \in Q : i < j}
<1>0. Len(log) \in Nat /\ Q \in SUBSET (1..Len(log))
  BY EventsTyped, QueriesArePlaces
<1> HIDE DEF Q
<1>1. ASSUME before # {}
      PROVE  \E p \in Q : p < i /\ \A j \in Q : j < i => j <= p
  <2>1. before \in SUBSET (1..Len(log))
    BY <1>0
  <2>2. PICK p \in before : \A j \in before : j <= p
    BY <1>0, <1>1, <2>1, GreatestOf
  <2> QED
    BY <2>2
<1>2. ASSUME NEW x \in Q, i < x
      PROVE  \E s \in Q : i < s /\ s <= x /\ \A j \in Q : i < j => s <= j
  <2>0. Q \in SUBSET Nat
    BY <1>0
  <2>1. after \in SUBSET Nat /\ after # {}
    BY <2>0, <1>2
  <2>2. PICK s \in after : \A j \in after : s <= j
    BY <2>1, LeastOf
  <2> QED
    BY <2>2, <1>2
<1> QED
  BY <1>1, <1>2 DEF Q

-----------------------------------------------------------------------------
(* The balance *)

\* The places of a tuple's writes and reads are places of its cell.
LEMMA TuplePlaces ==
  ASSUME NEW log \in Seq(Event), NEW k
  PROVE  /\ WritesOf(log, k) \in SUBSET (1..Len(log))
         /\ ReadsOf(log, k) \in SUBSET (1..Len(log))
         /\ \A i \in WritesOf(log, k) :
              log[i].cell = k[1] /\ log[i].ts = k[2] /\ log[i].write = k[3]
         /\ \A i \in ReadsOf(log, k) :
              log[i].cell = k[1] /\ log[i].readTs = k[2] /\ log[i].read = k[3]
BY DEF WritesOf, ReadsOf, WriteOf, ReadBy

\* Every tuple an event reads or writes has an entry.
LEMMA EntriesOfEvents ==
  ASSUME NEW log \in Seq(Event), NEW i \in 1..Len(log)
  PROVE  WriteOf(log[i]) \in Keys(log) /\ ReadBy(log[i]) \in Keys(log)
BY DEF Keys

\* In a chained space a tuple is written at most once.
LEMMA ChainedWrittenOnce ==
  ASSUME NEW log \in Seq(Event), TimestampRules(log), NEW k, k[1] \in Chained
  PROVE  /\ Written(log, k) \in Nat
         /\ Written(log, k) <= 1
         /\ 0 < Written(log, k) => IsInitial(log, k) \/ WritesOf(log, k) # {}
<1>0. k[1] \notin Anchors
  BY CellsAssumption
<1>1. WritesOf(log, k) \in SUBSET (1..Len(log)) /\ Len(log) \in Nat
  BY TuplePlaces, EventsTyped
<1>2. \A i, j \in WritesOf(log, k) : i = j
  <2> SUFFICES ASSUME NEW i \in WritesOf(log, k), NEW j \in WritesOf(log, k) PROVE i = j
    OBVIOUS
  <2>1. i \in 1..Len(log) /\ j \in 1..Len(log)
    BY <1>1
  <2>2. log[i].cell = log[j].cell /\ log[i].ts = log[j].ts
    BY TuplePlaces
  <2> QED
    BY <2>1, <2>2, RulesHold
<1>3. /\ Cardinality(WritesOf(log, k)) \in Nat
      /\ Cardinality(WritesOf(log, k)) <= 1
      /\ WritesOf(log, k) = {} => Cardinality(WritesOf(log, k)) = 0
  <2> DEFINE W == WritesOf(log, k)
             n == Len(log)
  <2>1. n \in Nat /\ W \in SUBSET (1..n) /\ \A i, j \in W : i = j
    BY <1>1, <1>2
  <2> HIDE DEF W, n
  <2>2. Cardinality(W) \in Nat /\ Cardinality(W) <= 1 /\ (W = {} => Cardinality(W) = 0)
    BY <2>1, PlacesCount
  <2> QED
    BY <2>2 DEF W
<1>4. IsInitial(log, k) => WritesOf(log, k) = {}
  <2> SUFFICES ASSUME IsInitial(log, k), NEW i \in WritesOf(log, k) PROVE FALSE
    OBVIOUS
  <2>1. log[i].ts = k[2] /\ k[2] = 0 /\ i \in 1..Len(log)
    BY <1>1, TuplePlaces DEF IsInitial
  <2> QED
    BY <2>1, RulesHold
<1>5. Written(log, k) = Cardinality(WritesOf(log, k)) + Once(IsInitial(log, k))
  BY <1>0 DEF Written
<1>6. CASE IsInitial(log, k)
  <2>1. Once(IsInitial(log, k)) = 1
    BY <1>6 DEF Once
  <2> QED
    BY <2>1, <1>3, <1>4, <1>5, <1>6
<1>7. CASE ~IsInitial(log, k)
  <2>1. Once(IsInitial(log, k)) = 0
    BY <1>7 DEF Once
  <2> QED
    BY <2>1, <1>3, <1>5
<1> QED
  BY <1>6, <1>7

\* What reading the last write means for a cell's first query, and for a query
\* that follows p.
LEMMA ReadsItsWriteMeans ==
  ASSUME NEW log \in Seq(Event), NEW c \in Chained, NEW i \in QueriesAt(log, c), NEW init
  PROVE  /\ (\A j \in QueriesAt(log, c) : ~(j < i)) =>
              (ReadsItsWrite(log, i, init) <=> ReadBy(log[i]) = <<c, 0, init[c]>>)
         /\ \A p \in QueriesAt(log, c) :
              p < i /\ (\A j \in QueriesAt(log, c) : j < i => j <= p) =>
                (ReadsItsWrite(log, i, init) <=> ReadBy(log[i]) = WriteOf(log[p]))
<1> DEFINE Q == QueriesAt(log, c)
           before == {j \in Q : j < i}
<1>0. c \notin Anchors
  BY CellsAssumption
<1>1. log[i].cell = c /\ \A j \in Q : log[j].cell = c
  BY DEF QueriesAt
<1>2. Q \in SUBSET (1..Len(log)) /\ Len(log) \in Nat
  BY QueriesArePlaces, EventsTyped
<1>3. ReadsItsWrite(log, i, init) <=>
        IF before = {}
        THEN log[i].readTs = 0 /\ log[i].read = init[c]
        ELSE \E j \in before : /\ \A k \in before : k <= j
                               /\ log[i].readTs = log[j].ts
                               /\ log[i].read = log[j].write
  BY <1>0, <1>1 DEF ReadsItsWrite
<1> HIDE DEF Q
<1>4. ASSUME \A j \in Q : ~(j < i)
      PROVE  ReadsItsWrite(log, i, init) <=> ReadBy(log[i]) = <<c, 0, init[c]>>
  <2>1. before = {}
    BY <1>4
  <2> QED
    BY <2>1, <1>3, <1>1 DEF ReadBy
<1>5. ASSUME NEW p \in Q, p < i, \A j \in Q : j < i => j <= p
      PROVE  ReadsItsWrite(log, i, init) <=> ReadBy(log[i]) = WriteOf(log[p])
  <2>1. p \in before /\ \A j \in before : j <= p
    BY <1>5
  <2>2. \A j \in before : (\A k \in before : k <= j) => j = p
    <3> SUFFICES ASSUME NEW j \in before, \A k \in before : k <= j PROVE j = p
      OBVIOUS
    <3>1. j <= p /\ p <= j
      BY <2>1
    <3>2. j \in Nat /\ p \in Nat
      BY <1>2
    <3> QED
      BY <3>1, <3>2
  <2>3. ReadsItsWrite(log, i, init) <=> log[i].readTs = log[p].ts /\ log[i].read = log[p].write
    BY <2>1, <2>2, <1>3
  <2> QED
    BY <2>3, <1>1 DEF ReadBy, WriteOf
<1> QED
  BY <1>4, <1>5 DEF Q

\* In a log that passes, every read of a chained cell is of the initial value or
\* of an earlier write, and no two queries read one write.
LEMMA PassedReads ==
  ASSUME NEW log \in Seq(Event), SelfCheck(log), NEW i \in 1..Len(log), log[i].cell \in Chained
  PROVE  /\ \/ IsInitial(log, ReadBy(log[i]))
            \/ \E j \in 1..Len(log) : j < i /\ WriteOf(log[j]) = ReadBy(log[i])
         /\ \A j \in 1..Len(log) : ReadBy(log[j]) = ReadBy(log[i]) => j = i
<1> DEFINE k == ReadBy(log[i])
           R == ReadsOf(log, k)
           n == Len(log)
<1>0. TimestampRules(log) /\ Unbalanced(log) = {}
  BY DEF SelfCheck
<1>1. k[1] = log[i].cell /\ k[2] = log[i].readTs /\ k[1] \in Chained /\ k[1] \notin Anchors
  BY CellsAssumption DEF ReadBy
<1>2. Written(log, k) = ReadCount(log, k)
  BY <1>0, EntriesOfEvents DEF Unbalanced
<1>3. ReadCount(log, k) = Cardinality(R) + Once(IsTeardown(log, k))
  BY <1>1 DEF ReadCount
<1>4. Once(IsTeardown(log, k)) \in {0, 1}
  BY DEF Once
<1>5. n \in Nat /\ R \in SUBSET (1..n) /\ i \in R
  BY EventsTyped, TuplePlaces DEF ReadsOf
<1>6. Cardinality(R) \in Nat /\ Cardinality(R) # 0
      /\ (Cardinality(R) <= 1 => \A x, y \in R : x = y)
  <2> HIDE DEF R, n, k
  <2>1. Cardinality(R) \in Nat /\ (Cardinality(R) = 0 => R = {})
        /\ (Cardinality(R) <= 1 => \A x, y \in R : x = y)
    BY <1>5, PlacesCount
  <2> QED
    BY <2>1, <1>5
<1>7. /\ Written(log, k) \in Nat
      /\ Written(log, k) <= 1
      /\ 0 < Written(log, k) => IsInitial(log, k) \/ WritesOf(log, k) # {}
  <2> HIDE DEF k
  <2> QED
    BY <1>0, <1>1, ChainedWrittenOnce
<1>8. Cardinality(R) <= 1 /\ 0 < Written(log, k)
  <2> HIDE DEF R, k
  <2> QED
    BY <1>2, <1>3, <1>4, <1>6, <1>7
<1>9. ASSUME ~IsInitial(log, k)
      PROVE  \E j \in 1..Len(log) : j < i /\ WriteOf(log[j]) = k
  <2>1. PICK j \in WritesOf(log, k) : TRUE
    BY <1>7, <1>8, <1>9
  <2>2. j \in 1..Len(log) /\ WriteOf(log[j]) = k
    BY DEF WritesOf
  <2>3. log[j].ts = log[i].readTs
    BY <2>1, <1>1, TuplePlaces
  <2>4. log[i].readTs < log[i].ts
    BY <1>0, RulesHold
  <2>5. j < i
    BY <2>2, <2>3, <2>4, <1>0, RulesHold
  <2> QED
    BY <2>2, <2>5
<1>10. ASSUME NEW j \in 1..Len(log), ReadBy(log[j]) = k PROVE j = i
  <2>1. j \in R
    BY <1>10 DEF ReadsOf
  <2> HIDE DEF R
  <2> QED
    BY <2>1, <1>5, <1>6, <1>8
<1> QED
  BY <1>9, <1>10

\* So every query of a chained cell reads the last write before it: the least
\* one that did not would read a write that another query reads.
LEMMA PassedChainedCells ==
  ASSUME NEW log \in Seq(Event), SelfCheck(log), NEW c \in Chained
  PROVE  \A i \in QueriesAt(log, c) : ReadsItsWrite(log, i, Initial)
<1> DEFINE Q == QueriesAt(log, c)
           Reads(i) == ReadsItsWrite(log, i, Initial)
           bad == {i \in Q : ~Reads(i)}
<1>0. Q \in SUBSET (1..Len(log)) /\ Len(log) \in Nat /\ \A i \in Q : log[i].cell = c
  BY QueriesArePlaces, EventsTyped DEF QueriesAt
<1> SUFFICES ASSUME bad # {} PROVE FALSE
  OBVIOUS
<1>1. PICK i \in Q : ~Reads(i) /\ \A x \in Q : x < i => Reads(x)
  <2>1. Q \in SUBSET Nat
    BY <1>0
  <2>2. bad \in SUBSET Nat /\ bad # {}
    BY <2>1
  <2>3. PICK i \in bad : \A x \in bad : i <= x
    <3> HIDE DEF bad
    <3> QED
      BY <2>2, LeastOf
  <2>4. ASSUME NEW x \in Q, x < i PROVE Reads(x)
    <3>1. CASE x \in bad
      <4>1. i <= x
        BY <3>1, <2>3
      <4>2. i \in Nat /\ x \in Nat
        BY <2>1, <2>3
      <4> HIDE DEF bad, Q
      <4> QED
        BY <4>1, <4>2, <2>4
    <3> QED
      BY <3>1
  <2> QED
    BY <2>3, <2>4
<1>2. /\ \/ IsInitial(log, ReadBy(log[i]))
         \/ \E j \in 1..Len(log) : j < i /\ WriteOf(log[j]) = ReadBy(log[i])
      /\ \A j \in 1..Len(log) : ReadBy(log[j]) = ReadBy(log[i]) => j = i
  BY <1>0, PassedReads
<1>3. \A j \in 1..Len(log) : WriteOf(log[j]) = ReadBy(log[i]) => j \in Q
  BY <1>0 DEF WriteOf, ReadBy, QueriesAt
<1>4. IsInitial(log, ReadBy(log[i])) => ReadBy(log[i]) = <<c, 0, Initial[c]>>
  BY <1>0 DEF IsInitial, ReadBy
<1> HIDE DEF Q
<1>5. CASE \A j \in Q : ~(j < i)
  <2>1. ReadBy(log[i]) = <<c, 0, Initial[c]>>
    BY <1>2, <1>3, <1>4, <1>5
  <2> QED
    BY <2>1, <1>1, <1>5, ReadsItsWriteMeans DEF Q
<1>6. CASE \E j \in Q : j < i
  <2>1. PICK p \in Q : p < i /\ \A j \in Q : j < i => j <= p
    <3>1. {j \in Q : j < i} # {}
      BY <1>6
    <3> QED
      BY <3>1, Neighbours DEF Q
  <2>2. CASE IsInitial(log, ReadBy(log[i]))
    <3>1. PICK f \in Q : \A x \in Q : f <= x
      <4>1. Q \in SUBSET Nat /\ Q # {}
        BY <1>0, <1>6
      <4> QED
        BY <4>1, LeastOf
    <3>2. f <= p /\ f \in Nat /\ p \in Nat /\ i \in Nat
      BY <3>1, <1>0
    <3>3. f < i
      BY <3>2, <2>1
    <3>4. \A j \in Q : ~(j < f)
      <4> SUFFICES ASSUME NEW j \in Q, j < f PROVE FALSE
        OBVIOUS
      <4>1. f <= j /\ j \in Nat
        BY <3>1, <1>0
      <4> QED
        BY <4>1, <3>2
    <3>5. ReadBy(log[f]) = <<c, 0, Initial[c]>>
      BY <3>3, <3>4, <1>1, ReadsItsWriteMeans DEF Q
    <3>6. f = i
      BY <3>5, <2>2, <1>4, <1>2, <1>0
    <3> QED
      BY <3>6, <3>2, <3>3
  <2>3. CASE \E j \in 1..Len(log) : j < i /\ WriteOf(log[j]) = ReadBy(log[i])
    <3>1. PICK j \in Q : j < i /\ WriteOf(log[j]) = ReadBy(log[i])
      BY <2>3, <1>3
    <3>2. j <= p /\ j \in Nat /\ p \in Nat /\ i \in Nat
      BY <3>1, <2>1, <1>0
    <3>3. j # p
      BY <3>1, <2>1, <1>1, ReadsItsWriteMeans DEF Q
    <3>4. PICK s \in Q : j < s /\ s <= p /\ \A x \in Q : j < x => s <= x
      <4>1. j < p
        BY <3>2, <3>3
      <4> QED
        BY <4>1, Neighbours DEF Q
    <3>5. s < i /\ s \in Nat
      <4>1. s \in Nat
        BY <1>0
      <4> QED
        BY <4>1, <3>2, <3>4, <2>1
    <3>6. \A x \in Q : x < s => x <= j
      <4> SUFFICES ASSUME NEW x \in Q, x < s PROVE x <= j
        OBVIOUS
      <4>1. x \in Nat /\ (j < x => s <= x)
        BY <3>4, <1>0
      <4> QED
        BY <4>1, <3>2, <3>5
    <3>7. ReadBy(log[s]) = WriteOf(log[j])
      BY <3>4, <3>5, <3>6, <1>1, ReadsItsWriteMeans DEF Q
    <3>8. s = i
      BY <3>7, <3>1, <1>2, <1>0
    <3> QED
      BY <3>8, <3>5
  <2> QED
    BY <2>2, <2>3, <1>2
<1> QED
  BY <1>5, <1>6

\* What an anchor's query should read.
LEMMA AnchorReadsMeans ==
  ASSUME NEW log \in Seq(Event), NEW i \in 1..Len(log), log[i].cell \in Anchors, NEW init
  PROVE  ReadsItsWrite(log, i, init) <=> ReadBy(log[i]) = <<log[i].cell, 0, Zero>>
<1>1. ReadsItsWrite(log, i, init) <=> log[i].readTs = 0 /\ log[i].read = Zero
  BY DEF ReadsItsWrite
<1> QED
  BY <1>1 DEF ReadBy

\* An anchor's tuple other than the answer is never read in a log that passes:
\* its writes are consumed by the invocations alone.
LEMMA PassedAnchors ==
  ASSUME NEW log \in Seq(Event), SelfCheck(log), NEW i \in 1..Len(log), log[i].cell \in Anchors
  PROVE  ReadsItsWrite(log, i, Initial)
<1> DEFINE k == ReadBy(log[i])
           R == ReadsOf(log, k)
           W == WritesOf(log, k)
<1> SUFFICES ASSUME k # <<log[i].cell, 0, Zero>> PROVE FALSE
  BY AnchorReadsMeans
<1>1. k[1] = log[i].cell /\ k[1] \in Anchors /\ ~(k[2] = 0 /\ k[3] = Zero)
  BY DEF ReadBy
<1>2. Written(log, k) = ReadCount(log, k)
  BY EntriesOfEvents DEF SelfCheck, Unbalanced
<1>3. Written(log, k) = Cardinality(W) + 0 /\ ReadCount(log, k) = Cardinality(R) + Cardinality(W)
  BY <1>1 DEF Written, ReadCount
<1>4. Len(log) \in Nat /\ R \in SUBSET (1..Len(log)) /\ W \in SUBSET (1..Len(log)) /\ i \in R
  BY EventsTyped, TuplePlaces DEF ReadsOf
<1>5. Cardinality(R) \in Nat /\ Cardinality(W) \in Nat /\ Cardinality(R) # 0
  <2> DEFINE n == Len(log)
  <2>1. n \in Nat /\ R \in SUBSET (1..n) /\ W \in SUBSET (1..n) /\ i \in R
    BY <1>4
  <2> HIDE DEF R, W, n, k
  <2>2. Cardinality(R) \in Nat /\ (Cardinality(R) = 0 => R = {})
    BY <2>1, PlacesCount
  <2>3. Cardinality(W) \in Nat
    BY <2>1, PlacesCount
  <2> QED
    BY <2>1, <2>2, <2>3
<1>6. Cardinality(W) + 0 = Cardinality(R) + Cardinality(W)
  BY <1>2, <1>3
<1> DEFINE r == Cardinality(R)
           w == Cardinality(W)
<1>7. r \in Nat /\ w \in Nat /\ r # 0 /\ w + 0 = r + w
  BY <1>5, <1>6
<1> HIDE DEF r, w
<1> QED
  BY <1>7

\* The queries at one cell read the last write before them.
CoherentAt(log, c) == \A i \in QueriesAt(log, c) : ReadsItsWrite(log, i, Initial)

\* Every entry is of a cell some query touched, and an entry of a chained cell
\* that is coherent is its initial write or a query's.
LEMMA CoherentEntries ==
  ASSUME NEW log \in Seq(Event), NEW k \in Keys(log), k[1] \in Chained, CoherentAt(log, k[1])
  PROVE  /\ QueriesAt(log, k[1]) # {}
         /\ \/ k = <<k[1], 0, Initial[k[1]]>>
            \/ \E j \in QueriesAt(log, k[1]) : WriteOf(log[j]) = k
<1>1. CASE \E j \in 1..Len(log) : k = WriteOf(log[j])
  BY <1>1 DEF WriteOf, QueriesAt
<1>2. CASE \E c \in Touched(log) : k = <<c, 0, Initial[c]>>
  BY <1>2 DEF Touched
<1>3. CASE \E i \in 1..Len(log) : k = ReadBy(log[i])
  <2>1. PICK i \in 1..Len(log) : k = ReadBy(log[i])
    BY <1>3
  <2>2. k[1] = log[i].cell /\ i \in QueriesAt(log, k[1])
    BY <2>1 DEF ReadBy, QueriesAt
  <2>3. ReadsItsWrite(log, i, Initial)
    BY <2>2 DEF CoherentAt
  <2>4. CASE \A j \in QueriesAt(log, k[1]) : ~(j < i)
    BY <2>1, <2>2, <2>3, <2>4, ReadsItsWriteMeans
  <2>5. CASE ~ \A j \in QueriesAt(log, k[1]) : ~(j < i)
    <3>1. {j \in QueriesAt(log, k[1]) : j < i} # {}
      BY <2>5
    <3>2. PICK p \in QueriesAt(log, k[1]) :
            p < i /\ \A j \in QueriesAt(log, k[1]) : j < i => j <= p
      BY <2>2, <3>1, Neighbours
    <3> QED
      BY <2>1, <2>2, <2>3, <3>2, ReadsItsWriteMeans
  <2> QED
    BY <2>4, <2>5
<1>4. CASE \E j \in 1..Len(log) : log[j].cell \in Anchors /\ k = <<log[j].cell, 0, Zero>>
  BY <1>4, CellsAssumption
<1> QED
  BY <1>1, <1>2, <1>3, <1>4 DEF Keys

\* An initial write is read by its cell's first query, and by nothing else.
LEMMA InitialBalances ==
  ASSUME NEW log \in Seq(Event), TimestampRules(log),
         NEW c \in Chained, CoherentAt(log, c), QueriesAt(log, c) # {}
  PROVE  Written(log, <<c, 0, Initial[c]>>) = ReadCount(log, <<c, 0, Initial[c]>>)
<1> DEFINE k == <<c, 0, Initial[c]>>
           Q == QueriesAt(log, c)
           n == Len(log)
<1>0. n \in Nat /\ Q \in SUBSET (1..n) /\ c \notin Anchors /\ \A i \in Q : log[i].cell = c
  BY QueriesArePlaces, EventsTyped, CellsAssumption DEF QueriesAt
<1>1. \A i \in Q : log[i].ts # 0
  BY <1>0, RulesHold, EventsTyped
<1>2. IsInitial(log, k) /\ ~IsTeardown(log, k)
  BY <1>1 DEF IsInitial, Touched, IsTeardown, WriteOf
<1>3. WritesOf(log, k) = {}
  BY <1>1 DEF WritesOf, WriteOf, QueriesAt
<1>4. PICK f \in Q : \A x \in Q : f <= x
  <2> HIDE DEF Q
  <2>1. Q \in SUBSET Nat /\ Q # {}
    BY <1>0 DEF Q
  <2> QED
    BY <2>1, LeastOf
<1>5. \A j \in Q : ~(j < f)
  <2> SUFFICES ASSUME NEW j \in Q, j < f PROVE FALSE
    OBVIOUS
  <2>1. f <= j /\ j \in Nat /\ f \in Nat
    BY <1>4, <1>0
  <2> HIDE DEF Q
  <2> QED
    BY <2>1
<1>6. \A i \in Q : ReadsItsWrite(log, i, Initial)
  BY DEF CoherentAt
<1>7. ReadBy(log[f]) = k
  BY <1>5, <1>6, ReadsItsWriteMeans
<1>8. ASSUME NEW i \in Q, ReadBy(log[i]) = k PROVE i = f
  <2> SUFFICES ASSUME i # f PROVE FALSE
    OBVIOUS
  <2>1. f < i
    <3>1. f <= i /\ i \in Nat /\ f \in Nat
      BY <1>4, <1>0
    <3> HIDE DEF Q
    <3> QED
      BY <3>1
  <2>2. PICK p \in Q : p < i /\ \A j \in Q : j < i => j <= p
    <3>1. {j \in Q : j < i} # {}
      BY <2>1
    <3> QED
      BY <3>1, Neighbours
  <2>3. ReadBy(log[i]) = WriteOf(log[p])
    BY <2>2, <1>6, ReadsItsWriteMeans
  <2>4. log[p].ts = 0
    BY <2>3, <1>8 DEF WriteOf
  <2> QED
    BY <2>4, <1>1
<1>9. ReadsOf(log, k) = {f}
  <2>1. f \in ReadsOf(log, k)
    BY <1>7, <1>0 DEF ReadsOf
  <2>2. ASSUME NEW i \in ReadsOf(log, k) PROVE i = f
    <3>1. i \in Q /\ ReadBy(log[i]) = k
      BY DEF ReadsOf, ReadBy, QueriesAt
    <3> QED
      BY <3>1, <1>8
  <2> QED
    BY <2>1, <2>2
<1>10. Cardinality(ReadsOf(log, k)) = 1 /\ Cardinality(WritesOf(log, k)) = 0
  BY <1>3, <1>9, FS_Singleton, FS_EmptySet
<1>11. k[1] = c
  OBVIOUS
<1>12. Written(log, k) = Cardinality(WritesOf(log, k)) + Once(IsInitial(log, k))
       /\ ReadCount(log, k) = Cardinality(ReadsOf(log, k)) + Once(IsTeardown(log, k))
  <2> HIDE DEF k
  <2> QED
    BY <1>0, <1>11 DEF Written, ReadCount
<1>13. Once(IsInitial(log, k)) = 1 /\ Once(IsTeardown(log, k)) = 0
  BY <1>2 DEF Once
<1> HIDE DEF k
<1>14. Written(log, k) = ReadCount(log, k)
  BY <1>10, <1>12, <1>13
<1> QED
  BY <1>14 DEF k

\* A query's write is read by the next query of its cell, or at teardown when
\* there is none, and by nothing else.
LEMMA WritesBalance ==
  ASSUME NEW log \in Seq(Event), TimestampRules(log),
         NEW c \in Chained, CoherentAt(log, c), NEW w \in QueriesAt(log, c)
  PROVE  Written(log, WriteOf(log[w])) = ReadCount(log, WriteOf(log[w]))
<1> DEFINE k == WriteOf(log[w])
           Q == QueriesAt(log, c)
           n == Len(log)
<1>0. n \in Nat /\ Q \in SUBSET (1..n) /\ c \notin Anchors /\ \A i \in Q : log[i].cell = c
  BY QueriesArePlaces, EventsTyped, CellsAssumption DEF QueriesAt
<1>1. k[1] = c /\ k[2] = log[w].ts /\ k[3] = log[w].write /\ k[2] # 0
  <2>1. 0 < log[w].ts /\ log[w].ts \in Nat
    BY <1>0, RulesHold, EventsTyped
  <2> QED
    BY <2>1, <1>0 DEF WriteOf
<1>2. \A j \in Q : log[j].ts = log[w].ts => j = w
  BY <1>0, RulesHold
<1>3. WritesOf(log, k) = {w}
  <2>1. w \in WritesOf(log, k)
    BY <1>0 DEF WritesOf
  <2>2. ASSUME NEW j \in WritesOf(log, k) PROVE j = w
    <3>1. j \in Q /\ log[j].ts = log[w].ts
      BY <1>1 DEF WritesOf, WriteOf, QueriesAt
    <3> QED
      BY <3>1, <1>2
  <2> QED
    BY <2>1, <2>2
<1>4. ~IsInitial(log, k)
  BY <1>1 DEF IsInitial
<1>5. IsTeardown(log, k) <=> \A j \in Q : j <= w
  <2>1. ASSUME \A j \in Q : j <= w PROVE IsTeardown(log, k)
    BY <2>1, <1>1 DEF IsTeardown
  <2>2. ASSUME IsTeardown(log, k) PROVE \A j \in Q : j <= w
    <3>1. PICK i \in Q : (\A j \in Q : j <= i) /\ k = WriteOf(log[i])
      BY <2>2, <1>1 DEF IsTeardown
    <3>2. i = w
      BY <3>1, <1>1, <1>2 DEF WriteOf
    <3> QED
      BY <3>1, <3>2
  <2> QED
    BY <2>1, <2>2
<1>6. \A i \in Q : ReadsItsWrite(log, i, Initial)
  BY DEF CoherentAt
\* A reader of the write is the query right after w.
<1>7. ASSUME NEW i \in Q, ReadBy(log[i]) = k
      PROVE  w < i /\ \A j \in Q : j < i => j <= w
  <2>1. ~ \A j \in Q : ~(j < i)
    <3> SUFFICES ASSUME \A j \in Q : ~(j < i) PROVE FALSE
      OBVIOUS
    <3>1. ReadBy(log[i]) = <<c, 0, Initial[c]>>
      BY <1>6, ReadsItsWriteMeans
    <3> QED
      BY <3>1, <1>1, <1>7
  <2>2. PICK p \in Q : p < i /\ \A j \in Q : j < i => j <= p
    <3>1. {j \in Q : j < i} # {}
      BY <2>1
    <3> QED
      BY <3>1, Neighbours
  <2>3. ReadBy(log[i]) = WriteOf(log[p])
    BY <2>2, <1>6, ReadsItsWriteMeans
  <2>4. p = w
    BY <2>3, <1>7, <1>1, <1>2 DEF WriteOf
  <2> QED
    BY <2>2, <2>4
<1>8. Written(log, k) = 1
  <2>1. Written(log, k) = Cardinality(WritesOf(log, k)) + Once(IsInitial(log, k))
    <3> HIDE DEF k
    <3> QED
      BY <1>0, <1>1 DEF Written
  <2>2. Once(IsInitial(log, k)) = 0
    BY <1>4 DEF Once
  <2>3. Cardinality(WritesOf(log, k)) = 1
    BY <1>3, FS_Singleton
  <2> HIDE DEF k
  <2> QED
    BY <2>1, <2>2, <2>3
<1>9. ReadCount(log, k) = Cardinality(ReadsOf(log, k)) + Once(IsTeardown(log, k))
  <2> HIDE DEF k
  <2> QED
    BY <1>0, <1>1 DEF ReadCount
<1>10. \A i : i \in ReadsOf(log, k) <=> i \in Q /\ ReadBy(log[i]) = k
  BY <1>0, <1>1 DEF ReadsOf, ReadBy, QueriesAt
<1>11. CASE \A j \in Q : j <= w
  <2>1. ReadsOf(log, k) = {}
    <3> SUFFICES ASSUME NEW i \in ReadsOf(log, k) PROVE FALSE
      OBVIOUS
    <3>1. i \in Q /\ w < i /\ i <= w
      BY <1>7, <1>10, <1>11
    <3>2. i \in Nat /\ w \in Nat
      BY <3>1, <1>0
    <3> HIDE DEF Q
    <3> QED
      BY <3>1, <3>2
  <2>2. Cardinality(ReadsOf(log, k)) = 0
    BY <2>1, FS_EmptySet
  <2>3. Once(IsTeardown(log, k)) = 1
    BY <1>5, <1>11 DEF Once
  <2> HIDE DEF k
  <2>4. ReadCount(log, k) = 1
    BY <1>9, <2>2, <2>3
  <2> QED
    BY <2>4, <1>8 DEF k
<1>12. CASE \E j \in Q : ~(j <= w)
  <2>1. PICK x \in Q : w < x
    <3>1. PICK x \in Q : ~(x <= w)
      BY <1>12
    <3>2. x \in Nat /\ w \in Nat
      BY <1>0
    <3> HIDE DEF Q
    <3>3. w < x
      BY <3>1, <3>2
    <3> QED
      BY <3>1, <3>3
  <2>2. PICK s \in Q : w < s /\ \A j \in Q : w < j => s <= j
    BY <2>1, Neighbours
  <2>3. \A j \in Q : j < s => j <= w
    <3> SUFFICES ASSUME NEW j \in Q, j < s PROVE j <= w
      OBVIOUS
    <3>1. j \in Nat /\ w \in Nat /\ s \in Nat /\ (w < j => s <= j)
      BY <1>0, <2>2
    <3> HIDE DEF Q
    <3> QED
      BY <3>1
  <2>4. ReadBy(log[s]) = k
    BY <2>2, <2>3, <1>6, ReadsItsWriteMeans
  <2>5. ASSUME NEW i \in Q, ReadBy(log[i]) = k PROVE i = s
    <3>1. w < i /\ \A j \in Q : j < i => j <= w
      BY <2>5, <1>7
    <3>2. s <= i /\ (s < i => s <= w)
      BY <3>1, <2>2
    <3>3. i \in Nat /\ s \in Nat /\ w \in Nat /\ w < s
      BY <1>0, <2>2
    <3> HIDE DEF Q
    <3> QED
      BY <3>2, <3>3
  <2>6. ReadsOf(log, k) = {s}
    BY <2>4, <2>5, <1>10
  <2>7. Cardinality(ReadsOf(log, k)) = 1
    BY <2>6, FS_Singleton
  <2>8. Once(IsTeardown(log, k)) = 0
    BY <1>5, <1>12 DEF Once
  <2> HIDE DEF k
  <2>9. ReadCount(log, k) = 1
    BY <1>9, <2>7, <2>8
  <2> QED
    BY <2>9, <1>8 DEF k
<1> QED
  BY <1>11, <1>12

\* The entries of a coherent cell balance.
LEMMA CellBalances ==
  ASSUME NEW log \in Seq(Event), TimestampRules(log),
         NEW k \in Keys(log), k[1] \in Chained, CoherentAt(log, k[1])
  PROVE  Written(log, k) = ReadCount(log, k)
<1> DEFINE c == k[1]
<1>1. /\ c \in Chained /\ CoherentAt(log, c) /\ QueriesAt(log, c) # {}
      /\ k = <<c, 0, Initial[c]>> \/ \E j \in QueriesAt(log, c) : WriteOf(log[j]) = k
  BY CoherentEntries
<1> HIDE DEF c
<1>2. CASE k = <<c, 0, Initial[c]>>
  BY <1>1, <1>2, InitialBalances
<1>3. CASE \E j \in QueriesAt(log, c) : WriteOf(log[j]) = k
  BY <1>1, <1>3, WritesBalance
<1> QED
  BY <1>1, <1>2, <1>3

\* The answers an anchor's requests read are the invocations', one each, and what
\* the requests write the invocations consume.
LEMMA AnchorsBalance ==
  ASSUME NEW log \in Seq(Event), Coherent(log, Initial), NEW k \in Keys(log), k[1] \in Anchors
  PROVE  Written(log, k) = ReadCount(log, k)
<1> DEFINE R == ReadsOf(log, k)
           W == WritesOf(log, k)
           Q == QueriesAt(log, k[1])
<1>0. k = <<k[1], k[2], k[3]>>
  BY DEF Keys, WriteOf, ReadBy
<1>1. R \in SUBSET (1..Len(log)) /\ W \in SUBSET (1..Len(log)) /\ Len(log) \in Nat
  BY TuplePlaces, EventsTyped
<1>2. \A i \in Q : /\ i \in 1..Len(log)
                   /\ log[i].cell = k[1]
                   /\ ReadBy(log[i]) = <<k[1], 0, Zero>>
  BY AnchorReadsMeans DEF Coherent, QueriesAt
<1>3. R \subseteq Q
  BY DEF ReadsOf, ReadBy, QueriesAt
<1>4. ReadCount(log, k) = Cardinality(R) + Cardinality(W)
  BY DEF ReadCount
<1> DEFINE r == Cardinality(R)
           w == Cardinality(W)
<1>5. r \in Nat /\ w \in Nat /\ (R = {} => r = 0)
  <2> DEFINE n == Len(log)
  <2>1. n \in Nat /\ R \in SUBSET (1..n) /\ W \in SUBSET (1..n)
    BY <1>1
  <2> HIDE DEF R, W, n
  <2> QED
    BY <2>1, PlacesCount
<1>6. CASE k[2] = 0 /\ k[3] = Zero
  <2>1. Q \subseteq R
    BY <1>0, <1>2, <1>6 DEF ReadsOf
  <2>2. Written(log, k) = w + r
    <3>1. Q = R
      BY <2>1, <1>3
    <3>2. Written(log, k) = w + Cardinality(Q)
      BY <1>6 DEF Written
    <3> QED
      BY <3>1, <3>2
  <2>3. w + r = r + w
    <3> HIDE DEF r, w
    <3> QED
      BY <1>5
  <2> QED
    BY <2>2, <2>3, <1>4
<1>7. CASE ~(k[2] = 0 /\ k[3] = Zero)
  <2>1. R = {}
    <3> SUFFICES ASSUME NEW i \in R PROVE FALSE
      OBVIOUS
    <3>1. i \in Q /\ log[i].readTs = k[2] /\ log[i].read = k[3]
      BY <1>3, TuplePlaces
    <3> QED
      BY <3>1, <1>2, <1>7 DEF ReadBy
  <2>2. Written(log, k) = w + 0
    BY <1>7 DEF Written
  <2>3. w + 0 = r + w
    <3>1. r = 0
      BY <2>1, <1>5
    <3> HIDE DEF r, w
    <3> QED
      BY <3>1, <1>5
  <2> QED
    BY <2>2, <2>3, <1>4
<1> QED
  BY <1>6, <1>7

\* The offline memory argument, for every log: under the timestamp rules, the
\* writes and the reads are equal as multisets exactly when every query reads
\* the last write before it.
THEOREM BalanceIsCoherence ==
  ASSUME NEW log \in Seq(Event)
  PROVE  SelfCheck(log) <=> TimestampRules(log) /\ Coherent(log, Initial)
<1>1. ASSUME SelfCheck(log) PROVE TimestampRules(log) /\ Coherent(log, Initial)
  <2>1. TimestampRules(log)
    BY <1>1 DEF SelfCheck
  <2>2. ASSUME NEW i \in 1..Len(log) PROVE ReadsItsWrite(log, i, Initial)
    <3>1. log[i].cell \in Chained \cup Anchors
      BY EventsTyped
    <3>2. CASE log[i].cell \in Anchors
      BY <1>1, <3>2, PassedAnchors
    <3>3. CASE log[i].cell \in Chained
      <4>1. i \in QueriesAt(log, log[i].cell)
        BY DEF QueriesAt
      <4> QED
        BY <1>1, <3>3, <4>1, PassedChainedCells
    <3> QED
      BY <3>1, <3>2, <3>3
  <2> QED
    BY <2>1, <2>2 DEF Coherent
<1>2. ASSUME TimestampRules(log), Coherent(log, Initial) PROVE SelfCheck(log)
  <2> SUFFICES ASSUME NEW k \in Keys(log) PROVE Written(log, k) = ReadCount(log, k)
    BY <1>2 DEF SelfCheck, Unbalanced
  <2>1. k[1] \in Chained \cup Anchors
    BY EventsTyped DEF Keys, WriteOf, ReadBy, Touched
  <2>2. CASE k[1] \in Anchors
    BY <1>2, <2>2, AnchorsBalance
  <2>3. CASE k[1] \in Chained
    <3>1. CoherentAt(log, k[1])
      BY <1>2 DEF Coherent, CoherentAt, QueriesAt
    <3> QED
      BY <1>2, <2>3, <3>1, CellBalances
  <2> QED
    BY <2>1, <2>2, <2>3
<1> QED
  BY <1>1, <1>2

\* The self-check's meaning in every state whose events have their types,
\* recorded or adopted.
THEOREM SelfCheckIsSound == LogTypeOK => SelfCheckMeansMemory
BY BalanceIsCoherence DEF LogTypeOK, SelfCheckMeansMemory

\* What the replay of a balance failure calls stale, at a chained cell, is a query
\* that does not read the last write before it.
LEMMA StaleMeans ==
  ASSUME NEW log \in Seq(Event), NEW c \in Chained, NEW i \in QueriesAt(log, c)
  PROVE  IsStale(log, i) <=> ~ReadsItsWrite(log, i, Initial)
<1> DEFINE Q == QueriesAt(log, c)
           before == {j \in Q : j < i}
<1>1. log[i].cell = c /\ Q \in SUBSET (1..Len(log)) /\ Len(log) \in Nat
  BY QueriesArePlaces, EventsTyped DEF QueriesAt
<1>2. IsStale(log, i) <=>
        <<log[i].readTs, log[i].read>> #
          (IF before = {} THEN <<0, Initial[c]>>
           ELSE LET j == CHOOSE j \in before : \A k \in before : k <= j IN <<log[j].ts, log[j].write>>)
  BY <1>1 DEF IsStale, InitialValue
<1> HIDE DEF Q
<1>3. CASE before = {}
  <2>1. \A j \in Q : ~(j < i)
    BY <1>3
  <2>2. ReadsItsWrite(log, i, Initial) <=> ReadBy(log[i]) = <<c, 0, Initial[c]>>
    BY <2>1, ReadsItsWriteMeans DEF Q
  <2> QED
    BY <1>1, <1>2, <1>3, <2>2 DEF ReadBy
<1>4. CASE before # {}
  <2> DEFINE last == CHOOSE j \in before : \A k \in before : k <= j
  <2>1. PICK p \in Q : p < i /\ \A j \in Q : j < i => j <= p
    BY <1>4, Neighbours DEF Q
  <2>2. last \in before /\ \A j \in before : j <= last
    <3>1. p \in before /\ \A j \in before : j <= p
      BY <2>1
    <3> HIDE DEF before
    <3> QED
      BY <3>1
  <2> HIDE DEF last
  <2>3. last \in Q /\ last < i /\ \A j \in Q : j < i => j <= last
    BY <2>2
  <2>4. ReadsItsWrite(log, i, Initial) <=> ReadBy(log[i]) = WriteOf(log[last])
    BY <2>3, ReadsItsWriteMeans DEF Q
  <2>5. log[last].cell = c
    BY <2>3 DEF Q, QueriesAt
  <2>6. IsStale(log, i) <=> <<log[i].readTs, log[i].read>> # <<log[last].ts, log[last].write>>
    BY <1>2, <1>4 DEF last
  <2> QED
    BY <1>1, <2>4, <2>5, <2>6 DEF ReadBy, WriteOf
<1> QED
  BY <1>3, <1>4

\* In a chained space a refused balance has a query to name, and the one it names
\* is the first fault of its cell.
THEOREM RefusalsAreExplained == LogTypeOK => ChainedRefusalsNameTheFault
<1> SUFFICES ASSUME events \in Seq(Event), TimestampRules(events),
                    NEW k \in Unbalanced(events), k[1] \in Chained
             PROVE  \E i \in Named(events) :
                      /\ events[i].cell = k[1]
                      /\ ~ReadsItsWrite(events, i, Initial)
                      /\ \A j \in QueriesAt(events, k[1]) : j < i => ReadsItsWrite(events, j, Initial)
  BY DEF LogTypeOK, ChainedRefusalsNameTheFault
<1> DEFINE c == k[1]
           Faults == {i \in QueriesAt(events, c) : ~ReadsItsWrite(events, i, Initial)}
<1>1. ~CoherentAt(events, c)
  BY CellBalances DEF Unbalanced
<1>2. Faults # {} /\ QueriesAt(events, c) \in SUBSET (1..Len(events)) /\ Len(events) \in Nat
  BY <1>1, QueriesArePlaces, EventsTyped DEF CoherentAt
<1>3. PICK i \in Faults : \A j \in Faults : i <= j
  <2>1. Faults \in SUBSET Nat
    BY <1>2
  <2> HIDE DEF Faults
  <2> QED
    BY <1>2, <2>1, LeastOf
<1>4. i \in QueriesAt(events, c) /\ i \in 1..Len(events) /\ events[i].cell = c /\ ~ReadsItsWrite(events, i, Initial)
  BY <1>2 DEF QueriesAt
<1>5. ASSUME NEW j \in QueriesAt(events, c), j < i PROVE ReadsItsWrite(events, j, Initial)
  <2> SUFFICES ASSUME j \in Faults PROVE FALSE
    OBVIOUS
  <2>1. i <= j /\ i \in Nat /\ j \in Nat
    BY <1>2, <1>3, <1>4
  <2> QED
    BY <2>1, <1>5
<1>6. i \in Named(events)
  <2>1. c \in Chained
    OBVIOUS
  <2>2. \A j \in QueriesAt(events, c) : IsStale(events, j) <=> ~ReadsItsWrite(events, j, Initial)
    BY <2>1, StaleMeans
  <2> QED
    BY <1>4, <1>5, <2>2 DEF Named
<1> QED
  BY <1>4, <1>5, <1>6

-----------------------------------------------------------------------------
(* Recording *)

\* Every query but a chained cell's first reads the last write before it, and
\* a first one reads at timestamp 0.
Chains(log) ==
  \A i \in 1..Len(log) :
    LET c == log[i].cell IN
    /\ c \in Anchors => log[i].readTs = 0 /\ log[i].read = Zero
    /\ c \in Chained /\ (\A j \in QueriesAt(log, c) : ~(j < i)) => log[i].readTs = 0
    /\ c \in Chained =>
         \A p \in QueriesAt(log, c) :
           p < i /\ (\A j \in QueriesAt(log, c) : j < i => j <= p) =>
             log[i].readTs = log[p].ts /\ log[i].read = log[p].write

\* The events are on the clock and in order, up to the last timestamp recorded.
InOrder(log, ts) ==
  /\ \A i \in 1..Len(log) :
       log[i].ts < ClockEnd /\ log[i].ts <= ts /\ log[i].readTs < log[i].ts
  /\ \A i, j \in 1..Len(log) : i < j => log[i].ts <= log[j].ts
  /\ \A i, j \in 1..Len(log) :
       i < j /\ log[i].cell = log[j].cell /\ log[i].cell \in Chained => log[i].ts < log[j].ts

LogInv ==
  /\ LogTypeOK
  /\ TablesAreTheLastWrites
  /\ InOrder(events, lastTs)
  /\ Chains(events)

\* A log with one event more.
LEMMA OneEventMore ==
  ASSUME NEW log \in Seq(Event), NEW e \in Event
  PROVE  /\ Append(log, e) \in Seq(Event)
         /\ Len(log) \in Nat
         /\ Len(Append(log, e)) = Len(log) + 1
         /\ \A i \in 1..Len(log) : i \in 1..(Len(log) + 1) /\ Append(log, e)[i] = log[i]
         /\ Append(log, e)[Len(log) + 1] = e
         /\ \A i \in 1..(Len(log) + 1) : i \in 1..Len(log) \/ i = Len(log) + 1
         /\ \A d : QueriesAt(Append(log, e), d) =
                    QueriesAt(log, d) \cup (IF e.cell = d THEN {Len(log) + 1} ELSE {})
         /\ Touched(Append(log, e)) = Touched(log) \cup ({e.cell} \cap Chained)
<1> DEFINE more == Append(log, e)
           n == Len(log)
<1>1. more \in Seq(Event) /\ n \in Nat /\ Len(more) = n + 1
  OBVIOUS
<1>2. (\A i \in 1..n : more[i] = log[i]) /\ more[n + 1] = e
  OBVIOUS
<1>3. \A i : i \in 1..(n + 1) <=> i \in 1..n \/ i = n + 1
  <2> HIDE DEF n
  <2> QED
    BY <1>1
<1>4. ASSUME NEW d
      PROVE  QueriesAt(more, d) = QueriesAt(log, d) \cup (IF e.cell = d THEN {n + 1} ELSE {})
  <2> HIDE DEF n, more
  <2>1. QueriesAt(more, d) = {i \in 1..(n + 1) : more[i].cell = d}
    BY <1>1 DEF QueriesAt
  <2>2. QueriesAt(log, d) = {i \in 1..n : log[i].cell = d}
    BY DEF QueriesAt, n
  <2>3. n + 1 \notin 1..n
    BY <1>1
  <2> QED
    BY <2>1, <2>2, <2>3, <1>2, <1>3
<1>5. Touched(more) = Touched(log) \cup ({e.cell} \cap Chained)
  <2> HIDE DEF n, more
  <2> QED
    BY <1>4 DEF Touched
<1> QED
  BY <1>1, <1>2, <1>3, <1>4, <1>5

\* What a query reads is a last write, and the event it makes is one.
LEMMA RecordedEvent ==
  ASSUME LogTypeOK, NEW c \in Cell, NEW ts \in 0..(ClockEnd - 1), NEW v \in Value, NEW w \in Value,
         Record(c, ts, v, w)
  PROVE  /\ ReadOf(c, v).ts \in Nat /\ ReadOf(c, v).value = v
         /\ ts \in Nat /\ ts < ClockEnd /\ ts >= lastTs /\ ReadOf(c, v).ts < ts
         /\ \E e \in Event :
              /\ events' = Append(events, e)
              /\ e.cell = c /\ e.ts = ts /\ e.readTs = ReadOf(c, v).ts
              /\ e.read = v /\ e.write = w
<1>1. ts \in Nat /\ ts < ClockEnd
  BY ClockAssumption
<1>2. ReadOf(c, v).value = v /\ ts >= lastTs /\ ReadOf(c, v).ts < ts
  BY DEF Record, Accepts
<1>3. ReadOf(c, v).ts \in Nat
  <2>1. CASE c \in DOMAIN lastAccess
    <3>1. lastAccess[c] \in Access
      BY <2>1 DEF LogTypeOK
    <3> QED
      BY <2>1, <3>1 DEF ReadOf, Access
  <2>2. CASE c \notin DOMAIN lastAccess
    BY <2>2 DEF ReadOf
  <2> QED
    BY <2>1, <2>2
<1> DEFINE e == [cell |-> c, ts |-> ts, readTs |-> ReadOf(c, v).ts, read |-> v, write |-> w]
<1>4. e \in Event
  BY <1>1, <1>3 DEF Event
<1>5. events' = Append(events, e)
  BY DEF Record
<1> QED
  BY <1>1, <1>2, <1>3, <1>4, <1>5

\* record keeps the types.
LEMMA RecordKeepsTypes ==
  ASSUME LogTypeOK, NEW c \in Cell, NEW ts \in 0..(ClockEnd - 1), NEW v \in Value, NEW w \in Value,
         Record(c, ts, v, w)
  PROVE  LogTypeOK'
<1>1. PICK e \in Event : events' = Append(events, e)
  BY RecordedEvent
<1>2. events' \in Seq(Event)
  BY <1>1, OneEventMore DEF LogTypeOK
<1>3. ts \in Nat /\ lastTs' = ts /\ fieldAccess' = fieldAccess
  BY RecordedEvent DEF Record
<1>4. DOMAIN lastAccess' \subseteq Chained /\ \A d \in DOMAIN lastAccess' : lastAccess'[d] \in Access
  <2>1. CASE c \in Chained
    <3>1. lastAccess' = Remember(lastAccess, c, [ts |-> ts, value |-> w])
      BY <2>1 DEF Record, Remembered
    <3>2. DOMAIN lastAccess \subseteq Chained /\ \A d \in DOMAIN lastAccess : lastAccess[d] \in Access
      BY DEF LogTypeOK
    <3>3. [ts |-> ts, value |-> w] \in Access
      BY <1>3 DEF Access
    <3> QED
      BY <2>1, <3>1, <3>2, <3>3 DEF Remember
  <2>2. CASE c \notin Chained
    BY <2>2 DEF Record, Remembered, LogTypeOK
  <2> QED
    BY <2>1, <2>2
<1> QED
  BY <1>2, <1>3, <1>4 DEF LogTypeOK

\* record keeps the tables the last writes.
LEMMA RecordKeepsTables ==
  ASSUME LogTypeOK, TablesAreTheLastWrites,
         NEW c \in Cell, NEW ts \in 0..(ClockEnd - 1), NEW v \in Value, NEW w \in Value,
         Record(c, ts, v, w)
  PROVE  TablesAreTheLastWrites'
<1> DEFINE n == Len(events)
           Q(d) == QueriesAt(events, d)
           R(d) == QueriesAt(events', d)
<1>1. PICK e \in Event : events' = Append(events, e) /\ e.cell = c /\ e.ts = ts /\ e.write = w
  BY RecordedEvent
<1>2. events \in Seq(Event)
  BY DEF LogTypeOK
<1>3. /\ n \in Nat
      /\ \A i \in 1..n : events'[i] = events[i]
      /\ events'[n + 1] = e
      /\ \A d : R(d) = Q(d) \cup (IF c = d THEN {n + 1} ELSE {})
      /\ Touched(events') = Touched(events) \cup ({c} \cap Chained)
  BY <1>1, <1>2, OneEventMore
<1>4. \A d : Q(d) \in SUBSET (1..n)
  BY <1>2, QueriesArePlaces
<1>5. /\ DOMAIN lastAccess = Touched(events)
      /\ \A d \in Touched(events) : \E i \in Q(d) :
           /\ \A j \in Q(d) : j <= i
           /\ lastAccess[d] = [ts |-> events[i].ts, value |-> events[i].write]
  BY DEF TablesAreTheLastWrites
<1>6. /\ DOMAIN lastAccess' = Touched(events')
      /\ \A d \in Touched(events) : d # c => lastAccess'[d] = lastAccess[d]
      /\ c \in Chained => lastAccess'[c] = [ts |-> ts, value |-> w]
  <2>1. lastAccess' = Remembered(c, ts, w)
    BY DEF Record
  <2> HIDE DEF n, Q, R
  <2> QED
    BY <2>1, <1>3, <1>5 DEF Remembered, Remember
<1>7. ASSUME NEW d \in Touched(events')
      PROVE  \E i \in R(d) : /\ \A j \in R(d) : j <= i
                             /\ lastAccess'[d] = [ts |-> events'[i].ts, value |-> events'[i].write]
  <2>1. CASE d = c
    <3>1. c \in Chained
      BY <2>1, <1>7 DEF Touched
    <3>2. n + 1 \in R(d) /\ \A j \in R(d) : j <= n + 1
      <4>1. R(d) = Q(d) \cup {n + 1}
        BY <2>1, <1>3
      <4> HIDE DEF n, Q, R
      <4> QED
        BY <4>1, <1>3, <1>4
    <3>3. lastAccess'[d] = [ts |-> events'[n + 1].ts, value |-> events'[n + 1].write]
      BY <2>1, <3>1, <1>1, <1>3, <1>6
    <3> QED
      BY <3>2, <3>3
  <2>2. CASE d # c
    <3>1. d \in Touched(events) /\ R(d) = Q(d)
      BY <2>2, <1>3
    <3>2. PICK i \in Q(d) : /\ \A j \in Q(d) : j <= i
                           /\ lastAccess[d] = [ts |-> events[i].ts, value |-> events[i].write]
      BY <3>1, <1>5
    <3>3. events'[i] = events[i]
      BY <1>3, <1>4
    <3> QED
      BY <2>2, <3>1, <3>2, <3>3, <1>6
  <2> QED
    BY <2>1, <2>2
<1> QED
  BY <1>6, <1>7 DEF TablesAreTheLastWrites

\* The tables say what a query reads: nothing at an anchor, and a chained cell's
\* last write once it has one.
LEMMA ReadOfTheTables ==
  ASSUME LogTypeOK, TablesAreTheLastWrites, NEW c \in Cell, NEW v
  PROVE  /\ c \in Anchors => ReadOf(c, v) = [ts |-> 0, value |-> Zero]
         /\ c \in Chained /\ QueriesAt(events, c) = {} => ReadOf(c, v).ts = 0
         /\ c \in Chained => \A p \in QueriesAt(events, c) :
              (\A j \in QueriesAt(events, c) : j <= p) =>
                ReadOf(c, v) = [ts |-> events[p].ts, value |-> events[p].write]
<1>1. DOMAIN lastAccess = Touched(events)
  BY DEF TablesAreTheLastWrites
<1>2. ASSUME c \in Anchors PROVE ReadOf(c, v) = [ts |-> 0, value |-> Zero]
  <2>1. c \notin Chained /\ c \notin DOMAIN lastAccess
    BY <1>2, CellsAssumption DEF LogTypeOK
  <2> QED
    BY <2>1 DEF ReadOf
<1>3. ASSUME c \in Chained, QueriesAt(events, c) = {} PROVE ReadOf(c, v).ts = 0
  <2>1. c \notin DOMAIN lastAccess
    BY <1>1, <1>3 DEF Touched
  <2> QED
    BY <2>1 DEF ReadOf
<1>4. ASSUME c \in Chained, NEW p \in QueriesAt(events, c), \A j \in QueriesAt(events, c) : j <= p
      PROVE  ReadOf(c, v) = [ts |-> events[p].ts, value |-> events[p].write]
  <2>1. c \in Touched(events)
    BY <1>4 DEF Touched
  <2>2. PICK i \in QueriesAt(events, c) :
          /\ \A j \in QueriesAt(events, c) : j <= i
          /\ lastAccess[c] = [ts |-> events[i].ts, value |-> events[i].write]
    BY <2>1 DEF TablesAreTheLastWrites
  <2>3. i = p
    <3>1. i <= p /\ p <= i
      BY <1>4, <2>2
    <3>2. QueriesAt(events, c) \in SUBSET (1..Len(events)) /\ Len(events) \in Nat
      BY QueriesArePlaces, EventsTyped DEF LogTypeOK
    <3>3. i \in Nat /\ p \in Nat
      BY <3>2
    <3> QED
      BY <3>1, <3>3
  <2> QED
    BY <1>1, <2>1, <2>2, <2>3 DEF ReadOf
<1> QED
  BY <1>2, <1>3, <1>4

\* record keeps the order.
LEMMA RecordKeepsOrder ==
  ASSUME LogInv, NEW c \in Cell, NEW ts \in 0..(ClockEnd - 1), NEW v \in Value, NEW w \in Value,
         Record(c, ts, v, w)
  PROVE  InOrder(events', lastTs')
<1> DEFINE n == Len(events)
<1>1. PICK e \in Event : /\ events' = Append(events, e)
                        /\ e.cell = c /\ e.ts = ts /\ e.readTs = ReadOf(c, v).ts
  BY RecordedEvent DEF LogInv
<1>2. events \in Seq(Event)
  BY DEF LogInv, LogTypeOK
<1>3. /\ n \in Nat
      /\ Len(events') = n + 1
      /\ \A i \in 1..n : events'[i] = events[i]
      /\ events'[n + 1] = e
      /\ \A i \in 1..(n + 1) : i \in 1..n \/ i = n + 1
  BY <1>1, <1>2, OneEventMore
<1>4. /\ lastTs' = ts /\ ts \in Nat /\ ts < ClockEnd /\ ts >= lastTs /\ ReadOf(c, v).ts < ts
      /\ lastTs \in Nat
  BY RecordedEvent DEF Record, LogInv, LogTypeOK
<1>5. \A i \in 1..n : events[i].ts \in Nat
  BY <1>2, EventsTyped
<1>6. /\ \A i \in 1..n : events[i].ts < ClockEnd /\ events[i].ts <= lastTs
                        /\ events[i].readTs < events[i].ts
      /\ \A i, j \in 1..n : i < j => events[i].ts <= events[j].ts
      /\ \A i, j \in 1..n :
           i < j /\ events[i].cell = events[j].cell /\ events[i].cell \in Chained =>
             events[i].ts < events[j].ts
  BY DEF LogInv, InOrder
<1>7. ASSUME NEW i \in 1..(n + 1)
      PROVE  events'[i].ts < ClockEnd /\ events'[i].ts <= ts /\ events'[i].readTs < events'[i].ts
  <2>1. CASE i = n + 1
    BY <2>1, <1>1, <1>3, <1>4
  <2>2. CASE i \in 1..n
    <3>1. events'[i] = events[i]
      BY <2>2, <1>3
    <3>2. events[i].ts \in Nat /\ events[i].ts < ClockEnd /\ events[i].ts <= lastTs
          /\ events[i].readTs < events[i].ts
      BY <2>2, <1>5, <1>6
    <3>3. events[i].ts <= ts
      BY <3>2, <1>4
    <3> QED
      BY <3>1, <3>2, <3>3
  <2> QED
    BY <2>1, <2>2, <1>3
<1>8. ASSUME NEW i \in 1..(n + 1), NEW j \in 1..(n + 1), i < j PROVE i \in 1..n
  <2> HIDE DEF n
  <2> QED
    BY <1>3, <1>8
<1>9. ASSUME NEW i \in 1..n PROVE events[i].ts <= ts
  <2>1. events[i].ts \in Nat /\ events[i].ts <= lastTs
    BY <1>5, <1>6
  <2> QED
    BY <2>1, <1>4
<1>10. ASSUME NEW i \in 1..n, events[i].cell = c, c \in Chained PROVE events[i].ts < ts
  <2>1. i \in QueriesAt(events, c)
    BY <1>10 DEF QueriesAt
  <2>2. PICK p \in QueriesAt(events, c) : \A j \in QueriesAt(events, c) : j <= p
    <3>1. QueriesAt(events, c) \in SUBSET (1..n)
      BY <1>2, QueriesArePlaces
    <3> HIDE DEF n
    <3> QED
      BY <2>1, <3>1, <1>3, GreatestOf
  <2>3. ReadOf(c, v).ts = events[p].ts
    BY <1>10, <2>2, ReadOfTheTables DEF LogInv
  <2>4. p \in 1..n /\ i <= p
    BY <2>1, <2>2 DEF QueriesAt
  <2>5. events[i].ts <= events[p].ts
    <3>1. CASE i = p
      BY <3>1, <1>5
    <3>2. CASE i < p
      BY <3>2, <2>4, <1>6
    <3>3. i \in Nat /\ p \in Nat
      BY <2>4, <1>3
    <3> HIDE DEF n
    <3>4. i = p \/ i < p
      BY <2>4, <3>3
    <3> QED
      BY <3>1, <3>2, <3>4
  <2>6. events[p].ts < ts /\ events[p].ts \in Nat /\ events[i].ts \in Nat /\ ts \in Nat
    BY <2>3, <2>4, <1>4, <1>5
  <2> QED
    BY <2>5, <2>6
<1>11. ASSUME NEW i \in 1..(n + 1), NEW j \in 1..(n + 1), i < j
       PROVE  /\ events'[i].ts <= events'[j].ts
              /\ events'[i].cell = events'[j].cell /\ events'[i].cell \in Chained =>
                   events'[i].ts < events'[j].ts
  <2>1. i \in 1..n /\ events'[i] = events[i]
    BY <1>8, <1>11, <1>3
  <2>2. CASE j = n + 1
    BY <2>1, <2>2, <1>1, <1>3, <1>9, <1>10
  <2>3. CASE j \in 1..n
    BY <2>1, <2>3, <1>3, <1>6, <1>11
  <2> QED
    BY <2>2, <2>3, <1>3
<1> QED
  BY <1>3, <1>4, <1>7, <1>11 DEF InOrder

\* record keeps the chain of reads.
LEMMA RecordKeepsChains ==
  ASSUME LogInv, NEW c \in Cell, NEW ts \in 0..(ClockEnd - 1), NEW v \in Value, NEW w \in Value,
         Record(c, ts, v, w)
  PROVE  Chains(events')
<1> DEFINE n == Len(events)
           Q(d) == QueriesAt(events, d)
           R(d) == QueriesAt(events', d)
<1>1. PICK e \in Event : /\ events' = Append(events, e)
                        /\ e.cell = c /\ e.readTs = ReadOf(c, v).ts /\ e.read = v
  BY RecordedEvent DEF LogInv
<1>2. events \in Seq(Event) /\ LogTypeOK /\ TablesAreTheLastWrites /\ ReadOf(c, v).value = v
  BY RecordedEvent DEF LogInv, LogTypeOK
<1>3. /\ n \in Nat
      /\ Len(events') = n + 1
      /\ \A i \in 1..n : events'[i] = events[i]
      /\ events'[n + 1] = e
      /\ \A i \in 1..(n + 1) : i \in 1..n \/ i = n + 1
      /\ \A d : R(d) = Q(d) \cup (IF c = d THEN {n + 1} ELSE {})
  BY <1>1, <1>2, OneEventMore
<1>4. \A d : Q(d) \in SUBSET (1..n)
  BY <1>2, QueriesArePlaces
<1>5. ASSUME NEW i \in 1..n, NEW d PROVE \A j : j \in Q(d) /\ j < i <=> j \in R(d) /\ j < i
  <2>1. ~(n + 1 < i)
    <3> HIDE DEF n
    <3> QED
      BY <1>3
  <2>2. R(d) = Q(d) \/ R(d) = Q(d) \cup {n + 1}
    BY <1>3
  <2> HIDE DEF n, Q, R
  <2> QED
    BY <2>1, <2>2
<1>6. ASSUME NEW i \in 1..n, NEW d, d = events'[i].cell
      PROVE  /\ d \in Anchors => events'[i].readTs = 0 /\ events'[i].read = Zero
             /\ d \in Chained /\ (\A j \in R(d) : ~(j < i)) => events'[i].readTs = 0
             /\ d \in Chained => \A p \in R(d) :
                  p < i /\ (\A j \in R(d) : j < i => j <= p) =>
                    events'[i].readTs = events'[p].ts /\ events'[i].read = events'[p].write
  <2>1. events'[i] = events[i] /\ d = events[i].cell
    BY <1>3, <1>6
  <2>2. /\ d \in Anchors => events[i].readTs = 0 /\ events[i].read = Zero
        /\ d \in Chained /\ (\A j \in Q(d) : ~(j < i)) => events[i].readTs = 0
        /\ d \in Chained => \A p \in Q(d) :
             p < i /\ (\A j \in Q(d) : j < i => j <= p) =>
               events[i].readTs = events[p].ts /\ events[i].read = events[p].write
    BY <2>1 DEF LogInv, Chains
  <2>3. \A p \in Q(d) : events'[p] = events[p]
    BY <1>3, <1>4
  <2> HIDE DEF Q, R, n
  <2> QED
    BY <2>1, <2>2, <2>3, <1>5
<1>7. /\ c \in Anchors => e.readTs = 0 /\ e.read = Zero
      /\ c \in Chained /\ (\A j \in R(c) : ~(j < n + 1)) => e.readTs = 0
      /\ c \in Chained => \A p \in R(c) :
           p < n + 1 /\ (\A j \in R(c) : j < n + 1 => j <= p) =>
             e.readTs = events'[p].ts /\ e.read = events'[p].write
  <2>1. /\ c \in Anchors => ReadOf(c, v) = [ts |-> 0, value |-> Zero]
        /\ c \in Chained /\ Q(c) = {} => ReadOf(c, v).ts = 0
        /\ c \in Chained => \A p \in Q(c) :
             (\A j \in Q(c) : j <= p) =>
               ReadOf(c, v) = [ts |-> events[p].ts, value |-> events[p].write]
    BY <1>2, ReadOfTheTables
  <2>2. \A j : j \in Q(c) <=> j \in R(c) /\ j < n + 1
    <3>1. R(c) = Q(c) \cup {n + 1}
      BY <1>3
    <3> HIDE DEF n, Q, R
    <3>2. \A j \in Q(c) : j < n + 1
      BY <1>3, <1>4
    <3>3. ~(n + 1 < n + 1)
      BY <1>3
    <3> QED
      BY <3>1, <3>2, <3>3
  <2>3. \A p \in Q(c) : events'[p] = events[p]
    BY <1>3, <1>4
  <2> HIDE DEF Q, R, n
  <2>4. ASSUME c \in Anchors PROVE e.readTs = 0 /\ e.read = Zero
    BY <2>1, <2>4, <1>1, <1>2
  <2>5. ASSUME c \in Chained, \A j \in R(c) : ~(j < n + 1) PROVE e.readTs = 0
    <3>1. Q(c) = {}
      BY <2>2, <2>5
    <3> QED
      BY <2>1, <2>5, <3>1, <1>1
  <2>6. ASSUME c \in Chained, NEW p \in R(c), p < n + 1, \A j \in R(c) : j < n + 1 => j <= p
        PROVE  e.readTs = events'[p].ts /\ e.read = events'[p].write
    <3>1. p \in Q(c) /\ \A j \in Q(c) : j <= p
      BY <2>2, <2>6
    <3>2. ReadOf(c, v) = [ts |-> events[p].ts, value |-> events[p].write]
      BY <2>1, <2>6, <3>1
    <3>3. events'[p] = events[p]
      BY <3>1, <2>3
    <3> QED
      BY <3>2, <3>3, <1>1, <1>2
  <2> QED
    BY <2>4, <2>5, <2>6
<1>8. ASSUME NEW i \in 1..(n + 1), NEW d, d = events'[i].cell
      PROVE  /\ d \in Anchors => events'[i].readTs = 0 /\ events'[i].read = Zero
             /\ d \in Chained /\ (\A j \in R(d) : ~(j < i)) => events'[i].readTs = 0
             /\ d \in Chained => \A p \in R(d) :
                  p < i /\ (\A j \in R(d) : j < i => j <= p) =>
                    events'[i].readTs = events'[p].ts /\ events'[i].read = events'[p].write
  <2>1. CASE i \in 1..n
    BY <1>6, <1>8, <2>1
  <2>2. CASE i = n + 1
    <3>1. d = c /\ events'[i] = e
      BY <1>1, <1>3, <1>8, <2>2
    <3> HIDE DEF Q, R, n
    <3> QED
      BY <1>7, <2>2, <3>1
  <2> QED
    BY <2>1, <2>2, <1>3
<1> QED
  BY <1>3, <1>8 DEF Chains

\* record_field keeps the types, and touches neither the events nor their tables.
LEMMA RecordFieldKeeps ==
  ASSUME LogInv, NEW c \in FieldCells, NEW ts \in 0..(ClockEnd - 1), NEW v \in Value, NEW w \in Value,
         RecordField(c, ts, v, w)
  PROVE  LogInv'
<1>1. /\ events' = events /\ lastAccess' = lastAccess /\ lastTs' = lastTs
      /\ fieldAccess' = Remember(fieldAccess, c, [ts |-> ts, value |-> w])
  BY DEF RecordField
<1>2. [ts |-> ts, value |-> w] \in Access
  BY ClockAssumption DEF Access
<1>3. LogTypeOK'
  <2>1. DOMAIN fieldAccess \subseteq FieldCells /\ \A d \in DOMAIN fieldAccess : fieldAccess[d] \in Access
    BY DEF LogInv, LogTypeOK
  <2>2. DOMAIN fieldAccess' \subseteq FieldCells /\ \A d \in DOMAIN fieldAccess' : fieldAccess'[d] \in Access
    BY <2>1, <1>1, <1>2 DEF Remember
  <2> QED
    BY <2>2, <1>1 DEF LogInv, LogTypeOK
<1>4. TablesAreTheLastWrites'
  BY <1>1 DEF LogInv, TablesAreTheLastWrites
<1>5. InOrder(events, lastTs)' /\ Chains(events)'
  BY <1>1 DEF LogInv
<1> QED
  BY <1>3, <1>4, <1>5 DEF LogInv

\* record keeps the invariant.
LEMMA RecordKeeps ==
  ASSUME LogInv, NEW c \in Cell, NEW ts \in 0..(ClockEnd - 1), NEW v \in Value, NEW w \in Value,
         Record(c, ts, v, w)
  PROVE  LogInv'
<1>1. LogTypeOK'
  BY RecordKeepsTypes DEF LogInv
<1>2. TablesAreTheLastWrites'
  BY RecordKeepsTables DEF LogInv
<1>3. InOrder(events', lastTs')
  BY RecordKeepsOrder
<1>4. Chains(events')
  BY RecordKeepsChains
<1> QED
  BY <1>1, <1>2, <1>3, <1>4 DEF LogInv

LEMMA EmptyLogInv == LogInit => LogInv
<1> SUFFICES ASSUME LogInit PROVE LogInv
  OBVIOUS
<1>1. events = <<>> /\ lastTs = 0 /\ DOMAIN lastAccess = {} /\ DOMAIN fieldAccess = {}
  BY DEF LogInit
<1>2. Len(events) = 0 /\ events \in Seq(Event) /\ \A i : i \notin 1..Len(events)
  BY <1>1
<1>3. LogTypeOK
  BY <1>1, <1>2 DEF LogTypeOK
<1>4. Touched(events) = {}
  BY <1>2 DEF Touched, QueriesAt
<1>5. TablesAreTheLastWrites
  BY <1>1, <1>4 DEF TablesAreTheLastWrites
<1>6. InOrder(events, lastTs) /\ Chains(events)
  BY <1>2 DEF InOrder, Chains
<1> QED
  BY <1>3, <1>5, <1>6 DEF LogInv

\* The invariant of recording: whatever queries the assertions of record let
\* through, in whatever order.
THEOREM RecordingInvariance == LogSpec => []LogInv
<1>1. LogInv /\ [LogNext]_logVars => LogInv'
  <2> SUFFICES ASSUME LogInv, [LogNext]_logVars PROVE LogInv'
    OBVIOUS
  <2>1. CASE UNCHANGED logVars
    BY <2>1 DEF logVars, LogInv, LogTypeOK, TablesAreTheLastWrites
  <2> QED
    BY <2>1, RecordKeeps, RecordFieldKeeps DEF LogNext
<1> QED
  BY <1>1, EmptyLogInv, PTL DEF LogSpec

\* A log whose reads chain is coherent with what its first reads say.
LEMMA ChainsAreCoherent ==
  ASSUME NEW log \in Seq(Event), Chains(log)
  PROVE  Coherent(log, FirstRead(log))
<1> SUFFICES ASSUME NEW i \in 1..Len(log) PROVE ReadsItsWrite(log, i, FirstRead(log))
  BY DEF Coherent
<1> DEFINE c == log[i].cell
           Q == QueriesAt(log, c)
<1>1. c \in Chained \cup Anchors /\ i \in Q
  BY EventsTyped DEF QueriesAt
<1>2. CASE c \in Anchors
  <2>1. ReadBy(log[i]) = <<c, 0, Zero>>
    BY <1>2 DEF Chains, ReadBy
  <2> QED
    BY <1>2, <2>1, AnchorReadsMeans
<1>3. CASE c \in Chained /\ \A j \in Q : ~(j < i)
  <2>1. Q \in SUBSET (1..Len(log)) /\ Len(log) \in Nat
    BY QueriesArePlaces, EventsTyped
  <2>2. \A f \in Q : (\A j \in Q : f <= j) <=> f = i
    <3> SUFFICES ASSUME NEW f \in Q PROVE (\A j \in Q : f <= j) <=> f = i
      OBVIOUS
    <3>1. \A j \in Q : j \in Nat /\ ~(j < i)
      BY <1>3, <2>1
    <3>2. \A j \in Q : i <= j
      <4> HIDE DEF Q
      <4> QED
        BY <1>1, <3>1
    <3>3. ASSUME \A j \in Q : f <= j PROVE f = i
      <4>1. f <= i /\ i <= f
        BY <1>1, <3>2, <3>3
      <4>2. f \in Nat /\ i \in Nat
        BY <1>1, <3>1
      <4> HIDE DEF Q
      <4> QED
        BY <4>1, <4>2
    <3> QED
      BY <3>2, <3>3
  <2>3. c \in Touched(log)
    BY <1>1, <1>3 DEF Touched
  <2>4. (CHOOSE f \in Q : \A j \in Q : f <= j) = i
    <3> HIDE DEF Q
    <3> QED
      BY <1>1, <2>2
  <2>5. FirstRead(log)[c] = log[i].read
    BY <1>3, <2>3, <2>4 DEF FirstRead
  <2>6. log[i].readTs = 0
    BY <1>3 DEF Chains
  <2>7. ReadBy(log[i]) = <<c, 0, FirstRead(log)[c]>>
    BY <2>5, <2>6 DEF ReadBy
  <2> QED
    BY <1>1, <1>3, <2>7, ReadsItsWriteMeans
<1>4. CASE c \in Chained /\ ~ \A j \in Q : ~(j < i)
  <2>1. {j \in Q : j < i} # {}
    BY <1>4
  <2>2. PICK p \in Q : p < i /\ \A j \in Q : j < i => j <= p
    BY <1>1, <2>1, Neighbours
  <2>3. log[i].readTs = log[p].ts /\ log[i].read = log[p].write
    BY <1>4, <2>2 DEF Chains
  <2>4. log[p].cell = c
    BY DEF QueriesAt
  <2>5. ReadBy(log[i]) = WriteOf(log[p])
    BY <2>3, <2>4 DEF ReadBy, WriteOf
  <2> QED
    BY <1>1, <1>4, <2>2, <2>5, ReadsItsWriteMeans
<1> QED
  BY <1>1, <1>2, <1>3, <1>4

\* The first query of every chained cell reads what the memory held.
StartsFromTheMemory(log) ==
  \A i \in 1..Len(log) :
    LET c == log[i].cell IN
    c \in Chained /\ (\A j \in QueriesAt(log, c) : ~(j < i)) => log[i].read = Initial[c]

LEMMA FirstReadsAreTheMemory ==
  ASSUME NEW log \in Seq(Event), StartsFromTheMemory(log)
  PROVE  FirstRead(log) = Initial
<1>1. ASSUME NEW c \in Chained PROVE FirstRead(log)[c] = Initial[c]
  <2> DEFINE Q == QueriesAt(log, c)
  <2>1. CASE c \notin Touched(log)
    BY <2>1 DEF FirstRead
  <2>2. CASE c \in Touched(log)
    <3>1. Q \in SUBSET (1..Len(log)) /\ Len(log) \in Nat /\ Q # {}
      BY <2>2, QueriesArePlaces, EventsTyped DEF Touched
    <3> DEFINE f == CHOOSE i \in Q : \A j \in Q : i <= j
    <3>2. f \in Q /\ \A j \in Q : f <= j
      <4>1. Q \in SUBSET Nat
        BY <3>1
      <4>2. \E i \in Q : \A j \in Q : i <= j
        <5> HIDE DEF Q
        <5> QED
          BY <3>1, <4>1, LeastOf
      <4> HIDE DEF Q
      <4> QED
        BY <4>2
    <3> HIDE DEF f
    <3>3. \A j \in Q : ~(j < f)
      <4> SUFFICES ASSUME NEW j \in Q, j < f PROVE FALSE
        OBVIOUS
      <4>1. f <= j /\ f \in Nat /\ j \in Nat
        BY <3>1, <3>2
      <4> HIDE DEF Q
      <4> QED
        BY <4>1
    <3>4. f \in 1..Len(log)
      BY <3>1, <3>2
    <3>5. log[f].cell = c
      BY <3>2 DEF QueriesAt
    <3>6. log[f].read = Initial[c]
      BY <3>3, <3>4, <3>5 DEF StartsFromTheMemory
    <3> QED
      BY <2>2, <3>6 DEF FirstRead, f
  <2> QED
    BY <2>1, <2>2
<1>2. FirstRead(log) = [c \in Chained |-> FirstRead(log)[c]]
  BY DEF FirstRead
<1>3. Initial = [c \in Chained |-> Initial[c]]
  BY ValueAssumption
<1> QED
  BY <1>1, <1>2, <1>3

\* A log that is coherent with a memory starts from it.
LEMMA CoherentStarts ==
  ASSUME NEW log \in Seq(Event), Coherent(log, Initial)
  PROVE  StartsFromTheMemory(log)
<1> SUFFICES ASSUME NEW i \in 1..Len(log), log[i].cell \in Chained,
                    \A j \in QueriesAt(log, log[i].cell) : ~(j < i)
             PROVE  log[i].read = Initial[log[i].cell]
  BY DEF StartsFromTheMemory
<1>1. i \in QueriesAt(log, log[i].cell) /\ ReadsItsWrite(log, i, Initial)
  BY DEF QueriesAt, Coherent
<1>2. ReadBy(log[i]) = <<log[i].cell, 0, Initial[log[i].cell]>>
  BY <1>1, ReadsItsWriteMeans
<1> QED
  BY <1>2 DEF ReadBy

\* The events and the tables keep their types.
THEOREM LogTypeCorrect == LogSpec => []LogTypeOK
BY RecordingInvariance, PTL DEF LogInv

\* The tables hold each touched cell's last write and no other cell's.
THEOREM TablesHoldTheLastWrites == LogSpec => []TablesAreTheLastWrites
BY RecordingInvariance, PTL DEF LogInv

\* Every recorded query reads the last write before it.
THEOREM RecordingIsCoherent == LogSpec => []RecordedReadsAreLastWrites
<1>1. LogInv => RecordedReadsAreLastWrites
  BY ChainsAreCoherent DEF LogInv, LogTypeOK, RecordedReadsAreLastWrites
<1> QED
  BY <1>1, RecordingInvariance, PTL

\* What the self-check refuses of a recorded log is its first reads.
LEMMA RecordedLogsPass == LogInv => SelfCheckAcceptsRecorded
<1> SUFFICES ASSUME LogInv, AnchorsAreAskedOnceATick
             PROVE  SelfCheck(events) <=> FirstRead(events) = Initial
  BY DEF SelfCheckAcceptsRecorded
<1>1. events \in Seq(Event) /\ Coherent(events, FirstRead(events))
  BY ChainsAreCoherent DEF LogInv, LogTypeOK
<1>2. TimestampRules(events)
  <2> SUFFICES ASSUME NEW i \in 1..Len(events) PROVE TimestampRulesAt(events, i)
    BY DEF TimestampRules
  <2>1. events[i].ts < ClockEnd /\ events[i].readTs < events[i].ts
    BY DEF LogInv, InOrder
  <2>2. ASSUME NEW j \in 1..(i - 1)
        PROVE  /\ events[j].ts <= events[i].ts
               /\ events[j].cell = events[i].cell => events[j].ts # events[i].ts
    <3>1. j \in 1..Len(events) /\ j < i
      <4>1. Len(events) \in Nat
        BY <1>1, EventsTyped
      <4> QED
        BY <4>1
    <3>2. events[j].ts <= events[i].ts
      BY <3>1 DEF LogInv, InOrder
    <3>3. ASSUME events[j].cell = events[i].cell, events[i].cell \in Chained
          PROVE  events[j].ts # events[i].ts
      <4>1. events[j].ts < events[i].ts
        BY <3>1, <3>3 DEF LogInv, InOrder
      <4>2. events[j].ts \in Nat /\ events[i].ts \in Nat
        BY <1>1, <3>1, EventsTyped
      <4> QED
        BY <4>1, <4>2
    <3>4. ASSUME events[j].cell = events[i].cell, events[i].cell \in Anchors
          PROVE  events[j].ts # events[i].ts
      <4>1. j # i
        BY <3>1
      <4> QED
        BY <3>1, <3>4, <4>1 DEF AnchorsAreAskedOnceATick
    <3> QED
      BY <1>1, <3>2, <3>3, <3>4, EventsTyped
  <2> QED
    BY <2>1, <2>2 DEF TimestampRulesAt
<1>3. SelfCheck(events) <=> Coherent(events, Initial)
  BY <1>1, <1>2, BalanceIsCoherence
<1> QED
  BY <1>1, <1>3, FirstReadsAreTheMemory, CoherentStarts

\* The self-check accepts a recorded log exactly when its first reads are what the
\* memory held.
THEOREM HonestLogsAreAccepted == LogSpec => []SelfCheckAcceptsRecorded
BY RecordedLogsPass, RecordingInvariance, PTL
=============================================================================
