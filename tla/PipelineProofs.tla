--------------------------- MODULE PipelineProofs ---------------------------
(***************************************************************************)
(* Theorems about the streaming executor and the pipeline over it, for any *)
(* families, heights and execution, any number of workers, and every fault.*)
(*                                                                         *)
(* The executor alone: let a family have been given n rows, of which m are *)
(* in its buffer.  Then n - m is a multiple of its height, the shards cut  *)
(* so far hold exactly the first n - m rows, each shard its own place, and *)
(* the buffer holds the others.                                            *)
(*                                                                         *)
(* The pipeline: each layer of the invariant uses the layers before it: the*)
(* executor's, who holds what, the count of shards in flight, the places   *)
(* claims take, and what a failure says.                                   *)
(***************************************************************************)
EXTENDS Pipeline, SequenceTheorems, FiniteSetTheorems, TLAPS

-----------------------------------------------------------------------------
(* The executor. *)

(* Division. *)

\* Euclidean division: q times h and a remainder below h divide to q.
LEMMA QuotientIsUnique ==
  ASSUME NEW h \in Nat \ {0}, NEW q \in Nat, NEW r \in 0..(h - 1)
  PROVE  (q * h + r) \div h = q
  BY SMT

\* A quotient of naturals is a natural.
LEMMA QuotientIsNatural ==
  ASSUME NEW h \in Nat \ {0}, NEW n \in Nat
  PROVE  n \div h \in Nat
  BY SMT

\* The next multiple of h.
LEMMA NextMultiple ==
  ASSUME NEW h \in Nat, NEW q \in Nat
  PROVE  q * h \in Nat /\ (q + 1) * h = q * h + h
  BY SMT

\* A place i of height h starts among n rows exactly if the rounded-up
\* quotient counts it.
LEMMA CeilingCounts ==
  ASSUME NEW h \in Nat \ {0}, NEW n \in Nat, NEW i \in Nat
  PROVE  i < (n + h - 1) \div h <=> i * h < n
  BY SMT

\* Different places are a height apart.
LEMMA PlacesAreApart ==
  ASSUME NEW h \in Nat \ {0}, NEW i \in Nat, NEW j \in Nat, i < j
  PROVE  i * h + h <= j * h
  BY SMT
-----------------------------------------------------------------------------
(* The inductive invariant. *)

\* The shards cut so far, in the order they were cut.
Cut == handed \o ready

Start(c) == c.index * Height[c.family]

\* Of the rows r: c is a whole shard of its family's, or the last, short one.
Planned(c, r) ==
  /\ Len(c.rows) \in 1..Height[c.family]
  /\ Start(c) + Len(c.rows) <= Len(r[c.family])
  /\ Len(c.rows) < Height[c.family] => Start(c) + Len(c.rows) = Len(r[c.family])
  /\ \A i \in 1..Len(c.rows) : c.rows[i] = r[c.family][Start(c) + i]

\* c's rows have left its family's buffer.
BeforeTheBuffer(c, r, b) ==
  Start(c) + Len(c.rows) <= Len(r[c.family]) - Len(b[c.family])

Whole(c) == Len(c.rows) = Height[c.family]

\* f's whole shards end where its buffer begins, and the buffer holds the rest.
Filling(f, r, b) ==
  /\ Len(b[f]) < Height[f]
  /\ \E q \in 0..Len(r[f]) :
       /\ Len(r[f]) = q * Height[f] + Len(b[f])
       /\ \A i \in 1..Len(b[f]) : b[f][i] = r[f][q * Height[f] + i]

Ended == phase \in {"flushing", "finished", "failed"}

BuffersInv ==
  \A f \in Families : Filling(f, rows, buffer) \/ (Ended /\ buffer[f] = <<>>)

ShardsInv ==
  \A k \in 1..Len(Cut) :
    /\ Planned(Cut[k], rows)
    /\ BeforeTheBuffer(Cut[k], rows, buffer)
    /\ ~Ended => Whole(Cut[k])

OnceInv ==
  \A j, k \in 1..Len(Cut) :
    Cut[j].family = Cut[k].family /\ Cut[j].index = Cut[k].index => j = k

CoverInv ==
  phase # "failed" =>
    \A f \in Families : \A i \in 0..Len(rows[f]) :
      i * Height[f] < Len(rows[f]) - Len(buffer[f]) =>
        \E k \in 1..Len(Cut) : Cut[k].family = f /\ Cut[k].index = i

FlushInv ==
  /\ phase \in {"running", "exited"} => flushAt = 0
  /\ \A i \in 1..flushAt : buffer[BufferOrder[i]] = <<>>
  /\ phase = "flushing" => \A k \in 1..Len(ready) :
       \E i \in 1..flushAt : ready[k].family = BufferOrder[i]
  /\ phase = "finished" => flushAt = Len(BufferOrder) /\ ready = <<>>

CutInv == /\ BuffersInv /\ ShardsInv /\ OnceInv /\ CoverInv
          /\ FlushInv /\ OneShardPerFamilyReady

ExecutorInv == ExecutorTypeOK /\ CutInv
-----------------------------------------------------------------------------
(* Type correctness. *)

\* A cycle's shards are chunks when its buffers are within their rows.
LEMMA FlushedIsTyped ==
  ASSUME ExecutorTypeOK, BuffersInv, ~Ended, NEW f \in Families
  PROVE  /\ Flushed(f) \in Seq(Chunk)
         /\ Fills(f) => FullChunk(f) \in Chunk
  <1>h. Height[f] \in Nat \ {0}
    BY HeightAssumption
  <1>b. /\ rows[f] \in Seq(Nat) /\ buffer[f] \in Seq(Nat) /\ cycle \in Nat
        /\ Len(rows[f]) \in Nat /\ Len(buffer[f]) \in Nat
    BY DEF ExecutorTypeOK
  <1>1. PICK q \in 0..Len(rows[f]) : Len(rows[f]) = q * Height[f] + Len(buffer[f])
    BY DEF BuffersInv, Filling
  <1>2. ASSUME Fills(f)
        PROVE  FullChunk(f) \in Chunk
    <2>1. Len(buffer[f]) + 1 = Height[f]
      BY <1>2, <1>b, <1>h DEF Fills, BuffersInv, Filling
    <2>2. q \in Nat
      BY <1>b
    <2>3. (Len(rows[f]) + 1) \div Height[f] = q + 1
      <3>m. PICK m \in Nat : m = q * Height[f]
        BY <2>2, <1>h, NextMultiple
      <3>1. (q + 1) * Height[f] = m + Height[f]
        BY <3>m, <2>2, <1>h, NextMultiple
      <3>2. (q + 1) * Height[f] + 0 = Len(rows[f]) + 1
        <4>1. Len(rows[f]) = m + Len(buffer[f])
          BY <1>1, <3>m
        <4>2. Len(buffer[f]) \in Nat /\ Height[f] \in Nat
          BY <1>b, <1>h
        <4>3. Len(rows[f]) + 1 = m + Height[f]
          BY <4>1, <4>2, <2>1
        <4> QED
          BY <4>2, <4>3, <3>1
      <3>3. ((q + 1) * Height[f] + 0) \div Height[f] = q + 1
        BY <2>2, <1>h, QuotientIsUnique
      <3> QED
        BY <3>2, <3>3
    <2>4. Append(buffer[f], cycle) \in Seq(Nat)
      BY <1>b
    <2> QED
      BY <2>3, <2>4 DEF FullChunk, Chunk
  <1> QED
    BY <1>2 DEF Flushed

\* A step starts with nothing ready, so what it fills is all there is.
LEMMA StepsFillFromEmpty ==
  ASSUME MayStep, NEW s \in Seq(Chunk)
  PROVE  ready \o s = s
  BY DEF MayStep

\* Every action keeps the types, given the invariant on the buffers.
LEMMA TypesAreKept ==
  ASSUME ExecutorTypeOK, BuffersInv, [ExecutorNext]_executorVars
  PROVE  ExecutorTypeOK'
  <1> USE DEF ExecutorTypeOK
  <1>p. ASSUME NEW gs \in SUBSET Families, PushRows(gs)
        PROVE  /\ rows' \in [Families -> Seq(Nat)]
               /\ buffer' \in [Families -> Seq(Nat)]
    <2>1. ASSUME NEW f \in Families
          PROVE  /\ Append(rows[f], cycle) \in Seq(Nat)
                 /\ Append(buffer[f], cycle) \in Seq(Nat)
                 /\ <<>> \in Seq(Nat)
      OBVIOUS
    <2> QED
      BY <1>p, <2>1 DEF PushRows
  <1>1. ASSUME NEW f \in CycleFamilies, StepCycle(f)
        PROVE  ExecutorTypeOK'
    <2>1. f \in Families /\ ~Ended
      BY <1>1 DEF Families, StepCycle, MayStep, Ended
    <2>2. ready \o Flushed(f) \in Seq(Chunk)
      BY <2>1, FlushedIsTyped
    <2> QED
      BY <1>1, <2>1, <2>2, <1>p DEF StepCycle, Commit
  <1>2. ASSUME NEW d \in DelegationFamilies, StepDelegation(d)
        PROVE  ExecutorTypeOK'
    <2>1. {d, EcallFamily} \subseteq Families /\ ~Ended
      BY <1>2, FamiliesAssumption DEF Families, StepDelegation, MayStep, Ended
    <2>2. ready \o (Flushed(d) \o Flushed(EcallFamily)) \in Seq(Chunk)
      BY <2>1, FlushedIsTyped
    <2>3. /\ rows' \in [Families -> Seq(Nat)]
          /\ buffer' \in [Families -> Seq(Nat)]
      BY <1>2, <2>1, <1>p DEF StepDelegation, Commit
    <2> QED
      BY <1>2, <2>2, <2>3 DEF StepDelegation, Commit
  <1>3. CASE StepExit
    <2>1. EcallFamily \in Families /\ ~Ended
      BY <1>3, FamiliesAssumption DEF Families, StepExit, MayStep, Ended
    <2>2. ready \o Flushed(EcallFamily) \in Seq(Chunk)
      BY <2>1, FlushedIsTyped
    <2> QED
      BY <1>3, <2>1, <2>2, <1>p DEF StepExit, Commit
  <1>4. CASE StepFails
    BY <1>4 DEF StepFails
  <1>5. CASE HandOver
    BY <1>5 DEF HandOver
  <1>6. CASE BeginFinish
    BY <1>6 DEF BeginFinish
  <1>7. CASE FlushBuffer
    <2> DEFINE f == BufferOrder[flushAt + 1]
    <2>1. flushAt + 1 \in 1..Len(BufferOrder) /\ flushAt' = flushAt + 1
      BY <1>7, BufferOrderAssumption DEF FlushBuffer
    <2>3. f \in Families
      BY <2>1, BufferOrderAssumption
    <2>2. [family |-> f, index |-> Len(rows[f]) \div Height[f], rows |-> buffer[f]] \in Chunk
      <3>1. Len(rows[f]) \in Nat /\ Height[f] \in Nat \ {0}
        BY <2>3, HeightAssumption
      <3>2. Len(rows[f]) \div Height[f] \in Nat
        BY <3>1, QuotientIsNatural
      <3>3. buffer[f] \in Seq(Nat)
        BY <2>3
      <3> QED
        BY <2>3, <3>2, <3>3 DEF Chunk
    <2>4. /\ ready' \in Seq(Chunk)
          /\ buffer' \in [Families -> Seq(Nat)]
      <3>1. <<>> \in Seq(Nat)
        OBVIOUS
      <3>2. CASE buffer[f] = <<>>
        BY <1>7, <3>2 DEF FlushBuffer
      <3>3. CASE buffer[f] # <<>>
        <4> DEFINE c == [family |-> f, index |-> Len(rows[f]) \div Height[f], rows |-> buffer[f]]
        <4>1. /\ ready' = Append(ready, c)
              /\ buffer' = [buffer EXCEPT ![f] = <<>>]
          BY <1>7, <3>3 DEF FlushBuffer
        <4> HIDE DEF c, f
        <4>2. ready' \in Seq(Chunk)
          BY <4>1, <2>2 DEF c
        <4> QED
          BY <4>1, <4>2, <3>1, <2>3
      <3> QED
        BY <3>2, <3>3
    <2> QED
      BY <1>7, <2>1, <2>4 DEF FlushBuffer
  <1>8. CASE Finish
    <2>1. handed \o ready \in Seq(Chunk) /\ <<>> \in Seq(Chunk)
      OBVIOUS
    <2> QED
      BY <1>8, <2>1 DEF Finish
  <1>9. CASE UNCHANGED executorVars
    BY <1>9 DEF executorVars
  <1> QED
    BY <1>1, <1>2, <1>3, <1>4, <1>5, <1>6, <1>7, <1>8, <1>9 DEF ExecutorNext, Step
-----------------------------------------------------------------------------
(* The cut. *)

\* What one row does to the family it is pushed to: its buffer grows, or it
\* was full and is now the shard cut.
LEMMA OneRow ==
  ASSUME ExecutorTypeOK, BuffersInv, ~Ended,
         NEW gs \in SUBSET Families, PushRows(gs), NEW f \in gs,
         NEW c, c = FullChunk(f)
  PROVE  /\ rows'[f] = Append(rows[f], cycle)
         /\ Filling(f, rows', buffer')
         /\ ~Fills(f) => buffer'[f] = Append(buffer[f], cycle)
         /\ Fills(f) =>
              /\ buffer'[f] = <<>>
              /\ Len(c.rows) = Height[f]
              /\ c.family = f /\ c.index \in Nat
              /\ Start(c) = Len(rows[f]) - Len(buffer[f])
              /\ Start(c) + Height[f] = Len(rows[f]) + 1
              /\ Planned(c, rows')
              /\ BeforeTheBuffer(c, rows', buffer')
  <1>h. Height[f] \in Nat \ {0}
    BY HeightAssumption
  <1>b. /\ rows[f] \in Seq(Nat) /\ buffer[f] \in Seq(Nat) /\ cycle \in Nat
        /\ Len(rows[f]) \in Nat /\ Len(buffer[f]) \in Nat
    BY DEF ExecutorTypeOK
  <1>1. PICK q \in 0..Len(rows[f]) :
          /\ Len(rows[f]) = q * Height[f] + Len(buffer[f])
          /\ \A i \in 1..Len(buffer[f]) : buffer[f][i] = rows[f][q * Height[f] + i]
    BY DEF BuffersInv, Filling
  <1>2. Len(buffer[f]) < Height[f]
    BY DEF BuffersInv, Filling
  <1>m. PICK m \in Nat : m = q * Height[f]
    BY <1>h, NextMultiple
  <1>l. Len(rows[f]) = q * Height[f] + Len(buffer[f])
    BY <1>1
  <1>n. Len(rows[f]) = m + Len(buffer[f])
    BY <1>l, <1>m
  <1>e. \A i \in 1..Len(buffer[f]) : buffer[f][i] = rows[f][m + i]
    BY <1>1, <1>m
  <1>r. /\ rows'[f] = Append(rows[f], cycle)
        /\ Len(rows'[f]) = Len(rows[f]) + 1
        /\ \A i \in 1..Len(rows[f]) : rows'[f][i] = rows[f][i]
        /\ rows'[f][Len(rows[f]) + 1] = cycle
    BY <1>b DEF PushRows, ExecutorTypeOK
  <1>a. /\ Len(Append(buffer[f], cycle)) = Len(buffer[f]) + 1
        /\ \A i \in 1..(Len(buffer[f]) + 1) :
             Append(buffer[f], cycle)[i] = rows'[f][m + i]
    <2>1. /\ Len(Append(buffer[f], cycle)) = Len(buffer[f]) + 1
          /\ \A i \in 1..Len(buffer[f]) : Append(buffer[f], cycle)[i] = buffer[f][i]
          /\ Append(buffer[f], cycle)[Len(buffer[f]) + 1] = cycle
      BY <1>b
    <2>2. ASSUME NEW i \in 1..Len(buffer[f])
          PROVE  buffer[f][i] = rows'[f][m + i]
      <3>1. m + i \in 1..Len(rows[f])
        BY <1>n, <1>b
      <3> QED
        BY <3>1, <1>e, <1>r
    <2>3. rows'[f][m + (Len(buffer[f]) + 1)] = cycle
      <3>1. m + (Len(buffer[f]) + 1) = Len(rows[f]) + 1
        BY <1>n, <1>b
      <3> QED
        BY <3>1, <1>r
    <2>4. ASSUME NEW i \in 1..(Len(buffer[f]) + 1)
          PROVE  i \in 1..Len(buffer[f]) \/ i = Len(buffer[f]) + 1
      BY <1>b
    <2> QED
      BY <2>1, <2>2, <2>3, <2>4
  <1>3. CASE ~Fills(f)
    <2>1. buffer'[f] = Append(buffer[f], cycle)
      BY <1>3 DEF PushRows, ExecutorTypeOK
    <2>2. Len(buffer'[f]) < Height[f]
      BY <2>1, <1>a, <1>3, <1>h, <1>b DEF Fills
    <2>3. Len(rows'[f]) = m + Len(buffer'[f])
      BY <2>1, <1>a, <1>r, <1>n, <1>b
    <2>4. q \in 0..Len(rows'[f])
      BY <1>r, <1>b
    <2>5. Filling(f, rows', buffer')
      BY <2>1, <2>2, <2>3, <2>4, <1>a, <1>m DEF Filling
    <2> QED
      BY <2>1, <2>5, <1>3, <1>r
  <1>4. CASE Fills(f)
    <2>1. buffer'[f] = <<>>
      BY <1>4 DEF PushRows, ExecutorTypeOK
    <2>2. Len(buffer[f]) + 1 = Height[f]
      BY <1>4, <1>2, <1>b, <1>h DEF Fills
    <2>3. Len(rows[f]) + 1 = m + Height[f]
      <3>1. Len(buffer[f]) \in Nat /\ Height[f] \in Nat
        BY <1>b, <1>h
      <3> QED
        BY <3>1, <2>2, <1>n
    <2>q. /\ (Len(rows[f]) + 1) \div Height[f] = q + 1
          /\ Len(rows[f]) + 1 = (q + 1) * Height[f]
          /\ q + 1 <= Len(rows[f]) + 1
      <3>1. q \in Nat /\ Len(rows[f]) \in Nat /\ Len(buffer[f]) \in Nat
        BY <1>b
      <3>2. (q + 1) * Height[f] = m + Height[f]
        BY <3>1, <1>m, <1>h, NextMultiple
      <3>3. Len(rows[f]) + 1 = (q + 1) * Height[f]
        BY <3>2, <2>3
      <3>4. (Len(rows[f]) + 1) \div Height[f] = q + 1
        <4>1. ((q + 1) * Height[f] + 0) \div Height[f] = q + 1
          BY <3>1, <1>h, QuotientIsUnique
        <4>2. (q + 1) * Height[f] + 0 = Len(rows[f]) + 1
          BY <3>1, <3>2, <2>3, <1>h
        <4> QED
          BY <4>1, <4>2
      <3>5. q <= Len(rows[f])
        BY <3>1
      <3> QED
        BY <3>1, <3>3, <3>4, <3>5
    <2>4. c.index = q /\ c.family = f /\ c.rows = Append(buffer[f], cycle)
      BY <2>q, <1>b DEF FullChunk
    <2>5. Start(c) = m /\ Len(c.rows) = Height[f]
      BY <2>4, <1>m, <1>a, <2>2, <1>b DEF Start
    <2>6. q + 1 \in 0..Len(rows'[f])
      BY <2>q, <1>r, <1>b
    <2>7. Filling(f, rows', buffer')
      <3>1. Len(buffer'[f]) = 0
        BY <2>1
      <3>2. Len(rows'[f]) = (q + 1) * Height[f] + Len(buffer'[f])
        BY <3>1, <2>q, <1>r
      <3> QED
        BY <3>1, <3>2, <2>6, <1>h DEF Filling
    <2>8. Planned(c, rows')
      <3>1. Len(c.rows) \in 1..Height[c.family]
        BY <2>4, <2>5, <1>h
      <3>2. Start(c) + Len(c.rows) = Len(rows'[c.family])
        BY <2>4, <2>5, <2>3, <1>r
      <3>3. Start(c) + Len(c.rows) <= Len(rows'[c.family])
        BY <3>2, <2>4, <1>r, <1>b
      <3>4. \A i \in 1..Len(c.rows) : c.rows[i] = rows'[c.family][Start(c) + i]
        BY <2>4, <2>5, <1>a
      <3> QED
        BY <3>1, <3>2, <3>3, <3>4 DEF Planned
    <2>9. BeforeTheBuffer(c, rows', buffer')
      <3>1. Start(c) + Len(c.rows) = Len(rows'[f]) /\ Len(buffer'[f]) = 0
        BY <2>1, <2>5, <2>3, <1>r
      <3>2. Len(rows'[f]) \in Nat
        BY <1>r, <1>b
      <3>3. Start(c) + Len(c.rows) <= Len(rows'[f]) - Len(buffer'[f])
        BY <3>1, <3>2
      <3> QED
        BY <3>3, <2>4 DEF BeforeTheBuffer
    <2>10. Start(c) = Len(rows[f]) - Len(buffer[f])
      BY <2>5, <1>n, <1>b
    <2>11. Start(c) + Height[f] = Len(rows[f]) + 1 /\ c.index \in Nat
      BY <2>3, <2>4, <2>5
    <2> QED
      BY <1>4, <1>r, <2>1, <2>4, <2>5, <2>7, <2>8, <2>9, <2>10, <2>11
  <1> QED
    BY <1>3, <1>4

\* A shard already cut stays a shard of the plan while its family's rows grow.
LEMMA CutShardIsKept ==
  ASSUME ExecutorTypeOK, BuffersInv, ~Ended,
         NEW gs \in SUBSET Families, PushRows(gs),
         NEW c \in Chunk, Planned(c, rows), BeforeTheBuffer(c, rows, buffer),
         Whole(c)
  PROVE  Planned(c, rows') /\ BeforeTheBuffer(c, rows', buffer')
  <1>f. PICK f \in Families : f = c.family
    BY DEF Chunk
  <1>b. /\ rows[f] \in Seq(Nat) /\ buffer[f] \in Seq(Nat) /\ cycle \in Nat
        /\ c.rows \in Seq(Nat) /\ c.index \in Nat /\ Height[f] \in Nat \ {0}
    BY <1>f, HeightAssumption DEF ExecutorTypeOK, Chunk
  <1> DEFINE n  == Len(rows[f])
             b  == Len(buffer[f])
             n2 == Len(rows'[f])
             b2 == Len(buffer'[f])
             m  == Start(c)
             l  == Len(c.rows)
  <1>n. n \in Nat /\ b \in Nat /\ l \in Nat
    BY <1>b
  <1>m. m \in Nat
    BY <1>b, <1>f, NextMultiple DEF Start
  <1>p. /\ l \in 1..Height[f] /\ m + l <= n - b
        /\ \A i \in 1..l : c.rows[i] = rows[f][m + i]
    BY <1>f DEF Planned, BeforeTheBuffer
  <1>1. CASE f \notin gs
    <2>1. rows'[f] = rows[f] /\ buffer'[f] = buffer[f]
      BY <1>1 DEF PushRows
    <2> QED
      BY <2>1, <1>f, <1>m DEF Planned, BeforeTheBuffer
  <1>2. CASE f \in gs
    <2>1. /\ rows'[f] = Append(rows[f], cycle)
          /\ ~Fills(f) => buffer'[f] = Append(buffer[f], cycle)
          /\ Fills(f) => buffer'[f] = <<>>
      BY <1>2, OneRow
    <2>2. n2 = n + 1
      BY <2>1, <1>b
    <2>3. b2 \in 0..(b + 1)
      BY <2>1, <1>b
    <2>4. \A i \in 1..n : rows'[f][i] = rows[f][i]
      BY <2>1, <1>b
    <2>5. l = Height[f]
      BY <1>f DEF Whole
    <2> HIDE DEF n, b, n2, b2, m, l
    <2>6. m + l <= n2 - b2 /\ m + l <= n2
      BY <2>2, <2>3, <1>n, <1>m, <1>p
    <2>7. ASSUME NEW i \in 1..l
          PROVE  c.rows[i] = rows'[f][m + i]
      <3>1. m + i \in 1..n
        BY <1>n, <1>m, <1>p
      <3> QED
        BY <3>1, <2>4, <1>p
    <2>8. ~(l < Height[f])
      BY <2>5, <1>n
    <2> QED
      BY <2>6, <2>7, <2>8, <1>p, <1>f DEF Planned, BeforeTheBuffer, n2, b2, l, m
  <1> QED
    BY <1>1, <1>2

\* A place that starts below n is at most n.
LEMMA PlaceIsBounded ==
  ASSUME NEW h \in Nat \ {0}, NEW i \in Nat
  PROVE  i <= i * h
  BY SMT

\* A family whose shards so far end where its buffer begins: the places that
\* start before the buffer are unchanged by a push, or gain the shard it cut.
LEMMA OneMorePlace ==
  ASSUME ExecutorTypeOK, BuffersInv, ~Ended,
         NEW gs \in SUBSET Families, PushRows(gs), NEW f \in Families,
         NEW i \in Nat, i * Height[f] < Len(rows'[f]) - Len(buffer'[f])
  PROVE  \/ i \in 0..Len(rows[f]) /\ i * Height[f] < Len(rows[f]) - Len(buffer[f])
         \/ f \in gs /\ Fills(f) /\ i = FullChunk(f).index
  <1>b. /\ rows[f] \in Seq(Nat) /\ buffer[f] \in Seq(Nat) /\ cycle \in Nat
        /\ Height[f] \in Nat \ {0}
    BY HeightAssumption DEF ExecutorTypeOK
  <1> DEFINE n  == Len(rows[f])
             b  == Len(buffer[f])
             n2 == Len(rows'[f])
             b2 == Len(buffer'[f])
             h  == Height[f]
             p  == i * h
  <1>n. n \in Nat /\ b \in Nat /\ h \in Nat \ {0}
    BY <1>b
  <1>p. p \in Nat /\ i <= p /\ p < n2 - b2
    BY <1>n, NextMultiple, PlaceIsBounded
  <1>0. SUFFICES ASSUME ~(f \in gs /\ Fills(f) /\ i = FullChunk(f).index)
                 PROVE  i \in 0..n /\ p < n - b
    OBVIOUS
  <1>1. CASE f \notin gs
    <2>1. n2 = n /\ b2 = b
      BY <1>1 DEF PushRows, ExecutorTypeOK
    <2> HIDE DEF n, b, n2, b2, p
    <2> QED
      BY <2>1, <1>n, <1>p
  <1>2. CASE f \in gs /\ ~Fills(f)
    <2>1. rows'[f] = Append(rows[f], cycle) /\ buffer'[f] = Append(buffer[f], cycle)
      BY <1>2, OneRow
    <2>2. n2 = n + 1 /\ b2 = b + 1
      BY <2>1, <1>b
    <2> HIDE DEF n, b, n2, b2, p
    <2> QED
      BY <2>2, <1>n, <1>p
  <1>3. CASE f \in gs /\ Fills(f)
    <2> DEFINE c == FullChunk(f)
               j == c.index
               s == Start(c)
    <2>1. /\ rows'[f] = Append(rows[f], cycle) /\ buffer'[f] = <<>>
          /\ c.family = f /\ j \in Nat
          /\ s = n - b /\ s + h = n + 1
      BY <1>3, OneRow
    <2>2. n2 = n + 1 /\ b2 = 0
      BY <2>1, <1>b
    <2>3. s = j * h
      BY <2>1 DEF Start
    <2>4. j # i
      BY <1>0, <1>3
    <2> HIDE DEF n, b, n2, b2, p, s, j, c, h
    <2>5. CASE j < i
      <3>1. j * h + h <= i * h
        BY <2>5, <2>1, <1>n, PlacesAreApart
      <3>2. s + h <= p
        BY <3>1, <2>3 DEF p
      <3> QED
        BY <3>2, <2>1, <2>2, <1>n, <1>p
    <2>6. CASE i < j
      <3>1. i * h + h <= j * h
        BY <2>6, <2>1, <1>n, PlacesAreApart
      <3>2. p + h <= s
        BY <3>1, <2>3 DEF p
      <3> QED
        BY <3>2, <2>1, <1>n, <1>p
    <2> QED
      BY <2>1, <2>4, <2>5, <2>6
  <1> QED
    BY <1>1, <1>2, <1>3

\* A cycle keeps the cut, whichever buffers it fills: s is what it makes ready.
LEMMA CommitKeepsTheCut ==
  ASSUME ExecutorTypeOK, CutInv, MayStep, phase' \in {"running", "exited"},
         NEW gs \in SUBSET Families, Commit(gs),
         NEW s \in Seq(Chunk), ready' = s,
         \A k \in 1..Len(s) : \E f \in gs : Fills(f) /\ s[k] = FullChunk(f),
         \A f \in gs : Fills(f) => \E k \in 1..Len(s) : s[k] = FullChunk(f),
         \A j, k \in 1..Len(s) : s[j].family = s[k].family => j = k
  PROVE  CutInv'
  <1> DEFINE N == Len(handed)
  <1>0. /\ BuffersInv /\ ShardsInv /\ OnceInv /\ CoverInv /\ FlushInv
        /\ ready = <<>> /\ PushRows(gs) /\ phase \in {"running"}
        /\ handed' = handed /\ flushAt' = flushAt
    BY DEF CutInv, MayStep, Commit
  <1>e. ~Ended /\ ~Ended'
    BY <1>0 DEF Ended
  <1>N. N \in Nat /\ handed \in Seq(Chunk) /\ Len(s) \in Nat
    BY DEF ExecutorTypeOK
  <1>c. Cut = handed
    BY <1>0, <1>N DEF Cut
  <1>d. /\ Cut' = handed \o s
        /\ Len(Cut') = N + Len(s)
        /\ \A k \in 1..N : Cut'[k] = handed[k]
        /\ \A k \in 1..Len(s) : Cut'[N + k] = s[k]
        /\ \A k \in 1..Len(Cut') : k \in 1..N \/ \E j \in 1..Len(s) : k = N + j
    <2>1. Cut' = handed \o s
      BY <1>0 DEF Cut
    <2>2. /\ Len(handed \o s) = N + Len(s)
          /\ \A k \in 1..N : (handed \o s)[k] = handed[k]
          /\ \A k \in 1..Len(s) : (handed \o s)[N + k] = s[k]
      BY <1>N
    <2>3. ASSUME NEW k \in 1..(N + Len(s))
          PROVE  k \in 1..N \/ \E j \in 1..Len(s) : k = N + j
      <3>1. CASE k > N
        <4>1. k - N \in 1..Len(s) /\ k = N + (k - N)
          BY <3>1, <1>N
        <4> QED
          BY <4>1
      <3> QED
        BY <3>1, <1>N
    <2> QED
      BY <2>1, <2>2, <2>3
  <1>old. ASSUME NEW k \in 1..N
          PROVE  /\ handed[k] \in Chunk /\ handed[k].family \in Families
                 /\ Planned(handed[k], rows) /\ BeforeTheBuffer(handed[k], rows, buffer)
                 /\ Whole(handed[k])
    <2>1. handed[k] \in Chunk
      BY <1>N
    <2>2. /\ Planned(Cut[k], rows) /\ BeforeTheBuffer(Cut[k], rows, buffer)
          /\ Whole(Cut[k])
      BY <1>0, <1>e, <1>c DEF ShardsInv
    <2> QED
      BY <2>1, <2>2, <1>c DEF Chunk
  <1>new. ASSUME NEW k \in 1..Len(s)
          PROVE  \E f \in gs : /\ Fills(f) /\ s[k] = FullChunk(f)
                               /\ s[k].family = f
                               /\ Whole(s[k])
                               /\ Start(s[k]) = Len(rows[f]) - Len(buffer[f])
                               /\ Planned(s[k], rows') /\ BeforeTheBuffer(s[k], rows', buffer')
    <2>1. PICK f \in gs : Fills(f) /\ s[k] = FullChunk(f)
      OBVIOUS
    <2>2. \A c : c = FullChunk(f) =>
            /\ c.family = f /\ Whole(c)
            /\ Start(c) = Len(rows[f]) - Len(buffer[f])
            /\ Planned(c, rows') /\ BeforeTheBuffer(c, rows', buffer')
      <3> SUFFICES ASSUME NEW c, c = FullChunk(f)
                   PROVE  /\ c.family = f /\ Whole(c)
                          /\ Start(c) = Len(rows[f]) - Len(buffer[f])
                          /\ Planned(c, rows') /\ BeforeTheBuffer(c, rows', buffer')
        OBVIOUS
      <3>1. /\ c.family = f /\ Len(c.rows) = Height[f]
            /\ Start(c) = Len(rows[f]) - Len(buffer[f])
            /\ Planned(c, rows') /\ BeforeTheBuffer(c, rows', buffer')
        BY <1>0, <1>e, <2>1, OneRow
      <3> QED
        BY <3>1 DEF Whole
    <2> QED
      BY <2>1, <2>2
  <1>1. BuffersInv'
    <2> SUFFICES ASSUME NEW f \in Families PROVE Filling(f, rows', buffer')
      BY DEF BuffersInv
    <2>1. CASE f \in gs
      BY <2>1, <1>0, <1>e, OneRow
    <2>2. CASE f \notin gs
      <3>1. rows'[f] = rows[f] /\ buffer'[f] = buffer[f] /\ Filling(f, rows, buffer)
        BY <2>2, <1>0, <1>e DEF PushRows, ExecutorTypeOK, BuffersInv
      <3> QED
        BY <3>1 DEF Filling
    <2> QED
      BY <2>1, <2>2
  <1>2. ShardsInv'
    <2> SUFFICES ASSUME NEW k \in 1..Len(Cut')
                 PROVE  /\ Planned(Cut'[k], rows')
                        /\ BeforeTheBuffer(Cut'[k], rows', buffer')
                        /\ Whole(Cut'[k])
      BY DEF ShardsInv
    <2>1. CASE k \in 1..N
      <3>1. Planned(handed[k], rows') /\ BeforeTheBuffer(handed[k], rows', buffer')
        BY <2>1, <1>0, <1>e, <1>old, CutShardIsKept
      <3> QED
        BY <3>1, <2>1, <1>d, <1>old
    <2>2. ASSUME NEW j \in 1..Len(s), k = N + j
          PROVE  /\ Cut'[k] = s[j] /\ Planned(s[j], rows') /\ BeforeTheBuffer(s[j], rows', buffer')
                 /\ Whole(s[j])
      BY <2>2, <1>new, <1>d
    <2> QED
      BY <2>1, <2>2, <1>d
  <1>3. OnceInv'
    <2> SUFFICES ASSUME NEW j \in 1..Len(Cut'), NEW k \in 1..Len(Cut'), j # k,
                        Cut'[j].family = Cut'[k].family, Cut'[j].index = Cut'[k].index
                 PROVE  FALSE
      BY DEF OnceInv
    <2>1. CASE j \in 1..N /\ k \in 1..N
      BY <2>1, <1>0, <1>c, <1>d DEF OnceInv
    <2>2. ASSUME NEW a \in 1..N, NEW b \in 1..Len(s),
                 handed[a].family = s[b].family, handed[a].index = s[b].index
          PROVE  FALSE
      <3>1. PICK f \in gs : /\ s[b].family = f
                            /\ Start(s[b]) = Len(rows[f]) - Len(buffer[f])
        BY <1>new
      <3>2. /\ Planned(handed[a], rows) /\ BeforeTheBuffer(handed[a], rows, buffer)
            /\ handed[a] \in Chunk
        BY <1>old
      <3>3. Start(handed[a]) = Start(s[b])
        BY <2>2 DEF Start
      <3>4. /\ Len(handed[a].rows) \in 1..Height[f] /\ Height[f] \in Nat
            /\ Start(handed[a]) + Len(handed[a].rows) <= Len(rows[f]) - Len(buffer[f])
        BY <3>1, <3>2, <2>2, HeightAssumption DEF Planned, BeforeTheBuffer
      <3>5. /\ Len(rows[f]) \in Nat /\ Len(buffer[f]) \in Nat
        <4>1. rows[f] \in Seq(Nat) /\ buffer[f] \in Seq(Nat)
          BY DEF ExecutorTypeOK
        <4> QED
          BY <4>1
      <3> DEFINE x == Start(handed[a])
                 l == Len(handed[a].rows)
                 n == Len(rows[f])
                 m == Len(buffer[f])
                 h == Height[f]
      <3>6. x = n - m
        BY <3>1, <3>3
      <3>7. l \in 1..h /\ h \in Nat /\ x + l <= n - m /\ n \in Nat /\ m \in Nat
        BY <3>4, <3>5
      <3> HIDE DEF x, l, n, m, h
      <3> QED
        BY <3>6, <3>7
    <2>3. ASSUME NEW a \in 1..Len(s), NEW b \in 1..Len(s), s[a].family = s[b].family
          PROVE  a = b
      BY <2>3
    <2>4. ASSUME NEW a \in 1..N, NEW b \in 1..Len(s), j = a, k = N + b
          PROVE  FALSE
      <3>1. Cut'[j] = handed[a] /\ Cut'[k] = s[b]
        BY <2>4, <1>d
      <3> QED
        BY <3>1, <2>2
    <2>5. ASSUME NEW a \in 1..N, NEW b \in 1..Len(s), k = a, j = N + b
          PROVE  FALSE
      <3>1. Cut'[k] = handed[a] /\ Cut'[j] = s[b]
        BY <2>5, <1>d
      <3> QED
        BY <3>1, <2>2
    <2>6. ASSUME NEW a \in 1..Len(s), NEW b \in 1..Len(s), j = N + a, k = N + b
          PROVE  FALSE
      <3>1. Cut'[j] = s[a] /\ Cut'[k] = s[b]
        BY <2>6, <1>d
      <3> QED
        BY <3>1, <2>3, <2>6
    <2>7. /\ j \in 1..N \/ \E a \in 1..Len(s) : j = N + a
          /\ k \in 1..N \/ \E b \in 1..Len(s) : k = N + b
      BY <1>d
    <2> QED
      BY <2>1, <2>4, <2>5, <2>6, <2>7
  <1>4. CoverInv'
    <2> SUFFICES ASSUME NEW f \in Families, NEW i \in 0..Len(rows'[f]),
                        i * Height[f] < Len(rows'[f]) - Len(buffer'[f])
                 PROVE  \E k \in 1..Len(Cut') : Cut'[k].family = f /\ Cut'[k].index = i
      BY DEF CoverInv
    <2>1. CASE i \in 0..Len(rows[f]) /\ i * Height[f] < Len(rows[f]) - Len(buffer[f])
      <3>1. PICK k \in 1..Len(Cut) : Cut[k].family = f /\ Cut[k].index = i
        BY <2>1, <1>0 DEF CoverInv
      <3> QED
        BY <3>1, <1>c, <1>d, <1>N
    <2>2. CASE f \in gs /\ Fills(f) /\ i = FullChunk(f).index
      <3>1. PICK k \in 1..Len(s) : s[k] = FullChunk(f)
        BY <2>2
      <3>2. s[k].family = f /\ s[k].index = i
        BY <3>1, <2>2 DEF FullChunk
      <3>3. N + k \in 1..Len(Cut') /\ Cut'[N + k] = s[k]
        BY <1>d, <1>N
      <3> QED
        BY <3>2, <3>3
    <2>3. i \in Nat
      OBVIOUS
    <2> QED
      BY <2>1, <2>2, <2>3, <1>0, <1>e, OneMorePlace
  <1>5. FlushInv'
    <2>1. flushAt = 0 /\ flushAt' = 0
      BY <1>0 DEF FlushInv
    <2> QED
      BY <2>1 DEF FlushInv
  <1>6. OneShardPerFamilyReady'
    BY DEF OneShardPerFamilyReady
  <1> QED
    BY <1>1, <1>2, <1>3, <1>4, <1>5, <1>6 DEF CutInv

\* A step that cuts nothing and records nothing keeps the shards.
LEMMA SameCutIsKept ==
  ASSUME CutInv, Cut' = Cut, rows' = rows, buffer' = buffer,
         Ended => Ended', phase = "failed" => phase' = "failed"
  PROVE  BuffersInv' /\ ShardsInv' /\ OnceInv' /\ CoverInv'
  <1>1. BuffersInv'
    BY DEF CutInv, BuffersInv
  <1>2. ShardsInv'
    BY DEF CutInv, ShardsInv
  <1>3. OnceInv'
    BY DEF CutInv, OnceInv
  <1>4. CoverInv'
    <2> SUFFICES ASSUME phase' # "failed"
                 PROVE  CoverInv'
      BY DEF CoverInv
    <2>1. phase # "failed"
      OBVIOUS
    <2>2. CoverInv
      BY DEF CutInv
    <2> SUFFICES ASSUME NEW f \in Families, NEW i \in 0..Len(rows'[f]),
                        i * Height[f] < Len(rows'[f]) - Len(buffer'[f])
                 PROVE  \E k \in 1..Len(Cut') : Cut'[k].family = f /\ Cut'[k].index = i
      BY DEF CoverInv
    <2>3. i \in 0..Len(rows[f]) /\ i * Height[f] < Len(rows[f]) - Len(buffer[f])
      OBVIOUS
    <2>4. \E k \in 1..Len(Cut) : Cut[k].family = f /\ Cut[k].index = i
      BY <2>1, <2>2, <2>3 DEF CoverInv
    <2> QED
      BY <2>4
  <1> QED
    BY <1>1, <1>2, <1>3, <1>4

\* flush_partial's next buffer.
LEMMA FlushKeepsTheCut ==
  ASSUME ExecutorTypeOK, CutInv, FlushBuffer
  PROVE  CutInv'
  <1> DEFINE f == BufferOrder[flushAt + 1]
  <1>0. /\ BuffersInv /\ ShardsInv /\ OnceInv /\ CoverInv /\ FlushInv
        /\ OneShardPerFamilyReady
        /\ phase = "flushing" /\ flushAt < Len(BufferOrder) /\ flushAt' = flushAt + 1
        /\ rows' = rows /\ handed' = handed /\ phase' = phase
    BY DEF CutInv, FlushBuffer
  <1>t. /\ rows \in [Families -> Seq(Nat)] /\ buffer \in [Families -> Seq(Nat)]
        /\ ready \in Seq(Chunk) /\ handed \in Seq(Chunk) /\ flushAt \in Nat
    BY DEF ExecutorTypeOK
  <1>f. f \in Families /\ flushAt + 1 \in 1..Len(BufferOrder)
    <2>1. flushAt + 1 \in 1..Len(BufferOrder)
      BY <1>0, <1>t, BufferOrderAssumption
    <2> QED
      BY <2>1, BufferOrderAssumption
  <1>e. Ended /\ Ended'
    BY <1>0 DEF Ended
  <1>1. CASE buffer[f] = <<>>
    <2>1. buffer' = buffer /\ ready' = ready
      BY <1>1 DEF FlushBuffer
    <2>2. BuffersInv' /\ ShardsInv' /\ OnceInv' /\ CoverInv'
      BY <2>1, <1>0, <1>e, SameCutIsKept DEF Cut
    <2>3. FlushInv'
      <3>1. \A i \in 1..(flushAt + 1) : buffer[BufferOrder[i]] = <<>>
        BY <1>0, <1>1, <1>t DEF FlushInv
      <3>2. \A k \in 1..Len(ready) :
              \E i \in 1..(flushAt + 1) : ready[k].family = BufferOrder[i]
        BY <1>0, <1>t DEF FlushInv
      <3> QED
        BY <3>1, <3>2, <2>1, <1>0 DEF FlushInv
    <2>4. OneShardPerFamilyReady'
      BY <2>1, <1>0 DEF OneShardPerFamilyReady
    <2> QED
      BY <2>2, <2>3, <2>4 DEF CutInv
  <1>2. CASE buffer[f] # <<>>
    <2> DEFINE n == Len(rows[f])
               m == Len(buffer[f])
               h == Height[f]
               c == [family |-> f, index |-> n \div h, rows |-> buffer[f]]
               N == Len(Cut)
    <2>1. ready' = Append(ready, c) /\ buffer' = [buffer EXCEPT ![f] = <<>>]
      BY <1>2 DEF FlushBuffer
    <2>2. /\ buffer' \in [Families -> Seq(Nat)] /\ buffer'[f] = <<>> /\ Len(buffer'[f]) = 0
          /\ \A g \in Families : g # f => buffer'[g] = buffer[g]
      BY <2>1, <1>t, <1>f
    <2>n. n \in Nat /\ m \in Nat /\ m # 0 /\ h \in Nat \ {0} /\ rows[f] \in Seq(Nat)
          /\ buffer[f] \in Seq(Nat)
      <3>1. rows[f] \in Seq(Nat) /\ buffer[f] \in Seq(Nat)
        BY <1>t, <1>f
      <3>2. n \in Nat /\ m \in Nat /\ m # 0
        BY <3>1, <1>2
      <3> QED
        BY <3>1, <3>2, <1>f, HeightAssumption
    <2>3. Filling(f, rows, buffer)
      BY <1>0, <1>2, <1>f DEF BuffersInv
    <2>4. PICK q \in Nat : /\ n = q * h + m /\ m < h
                           /\ \A i \in 1..m : buffer[f][i] = rows[f][q * h + i]
      BY <2>3, <2>n DEF Filling
    <2>5. n \div h = q
      <3>1. m \in 0..(h - 1)
        BY <2>4, <2>n
      <3>2. (q * h + m) \div h = q
        BY <3>1, <2>n, QuotientIsUnique
      <3> QED
        BY <3>2, <2>4
    <2>c. /\ c \in Chunk /\ c.family = f /\ c.index = q /\ c.rows = buffer[f]
          /\ Len(c.rows) = m
      BY <2>5, <1>f, <2>n DEF Chunk
    <2>s. Start(c) = q * h /\ Start(c) \in Nat
      BY <2>c, <2>n, NextMultiple DEF Start
    <2>6. /\ Cut' = Append(Cut, c) /\ N \in Nat /\ Len(Cut') = N + 1
          /\ \A k \in 1..N : Cut'[k] = Cut[k] /\ Cut[k] \in Chunk
          /\ Cut'[N + 1] = c
          /\ \A k \in 1..Len(Cut') : k \in 1..N \/ k = N + 1
      <3>1. Cut \in Seq(Chunk)
        BY <1>t DEF Cut
      <3>2. handed \o Append(ready, c) = Append(handed \o ready, c)
        BY <1>t, <2>c
      <3> HIDE DEF c
      <3>3. Cut' = Append(Cut, c)
        BY <2>1, <1>0, <3>2 DEF Cut
      <3> HIDE DEF Cut
      <3> QED
        BY <3>1, <3>3, <2>c
    <2>r. /\ \A k \in 1..Len(ready) : ready'[k] = ready[k]
          /\ ready'[Len(ready) + 1] = c
          /\ \A k \in 1..Len(ready') : k \in 1..Len(ready) \/ k = Len(ready) + 1
      <3> HIDE DEF c
      <3> QED
        BY <2>1, <1>t
    <2> HIDE DEF c, h
    <2>7. Planned(c, rows') /\ BeforeTheBuffer(c, rows', buffer')
      <3>1. m \in 1..h
        BY <2>4, <2>n
      <3>2. Start(c) + m = n
        BY <2>4, <2>s
      <3>3. Start(c) + m <= n /\ Start(c) + m <= n - 0
        <4>1. n \in Nat
          BY <2>n
        <4> HIDE DEF n, m
        <4> QED
          BY <3>2, <4>1
      <3>4. Planned(c, rows')
        BY <3>1, <3>2, <3>3, <2>4, <2>c, <2>s, <1>0 DEF Planned, h
      <3>5. BeforeTheBuffer(c, rows', buffer')
        BY <3>3, <2>c, <2>2, <1>0 DEF BeforeTheBuffer
      <3> QED
        BY <3>4, <3>5
    <2>8. ASSUME NEW k \in 1..N
          PROVE  Planned(Cut[k], rows') /\ BeforeTheBuffer(Cut[k], rows', buffer')
      <3> DEFINE d == Cut[k]
      <3>1. Planned(d, rows) /\ BeforeTheBuffer(d, rows, buffer) /\ d \in Chunk
        BY <1>0, <2>6 DEF ShardsInv
      <3> HIDE DEF d
      <3>2. Planned(d, rows')
        BY <3>1, <1>0
      <3>3. CASE d.family = f
        <4> DEFINE x == Start(d) + Len(d.rows)
        <4>1. x <= n - m
          BY <3>1, <3>3 DEF BeforeTheBuffer
        <4>2. x \in Nat
          <5>1. Len(d.rows) \in Nat /\ d.index \in Nat
            BY <3>1 DEF Chunk
          <5>2. d.index * h \in Nat
            BY <5>1, <2>n, NextMultiple
          <5>3. Start(d) \in Nat
            BY <5>2, <3>3 DEF Start, h
          <5> QED
            BY <5>1, <5>3
        <4> HIDE DEF x, n, m
        <4>3. x <= n - 0
          BY <4>1, <4>2, <2>n
        <4> QED
          BY <4>3, <3>2, <3>3, <2>2, <1>0 DEF x, n, BeforeTheBuffer, d
      <3>4. CASE d.family # f
        <4>1. buffer'[d.family] = buffer[d.family]
          BY <3>1, <3>4, <2>2 DEF Chunk
        <4> QED
          BY <4>1, <3>1, <3>2, <1>0 DEF BeforeTheBuffer, d
      <3> QED
        BY <3>3, <3>4
    <2>9. BuffersInv'
      <3> SUFFICES ASSUME NEW g \in Families
                   PROVE  Filling(g, rows', buffer') \/ buffer'[g] = <<>>
        BY <1>e DEF BuffersInv
      <3>1. CASE g = f
        BY <3>1, <2>2
      <3>2. CASE g # f
        <4>1. Filling(g, rows, buffer) \/ buffer[g] = <<>>
          BY <1>0 DEF BuffersInv
        <4>2. buffer'[g] = buffer[g] /\ rows'[g] = rows[g]
          BY <3>2, <2>2, <1>0
        <4>3. Filling(g, rows, buffer) => Filling(g, rows', buffer')
          BY <4>2 DEF Filling
        <4> QED
          BY <4>1, <4>2, <4>3
      <3> QED
        BY <3>1, <3>2
    <2>10. ShardsInv'
      <3> SUFFICES ASSUME NEW k \in 1..Len(Cut')
                   PROVE  /\ Planned(Cut'[k], rows')
                          /\ BeforeTheBuffer(Cut'[k], rows', buffer')
        BY <1>e DEF ShardsInv
      <3>1. CASE k \in 1..N
        BY <3>1, <2>6, <2>8
      <3>2. CASE k = N + 1
        BY <3>2, <2>6, <2>7
      <3> QED
        BY <3>1, <3>2, <2>6
    <2>k. ASSUME NEW k \in 1..N, Cut[k].family = f
          PROVE  Cut[k].index # q
      <3> DEFINE d == Cut[k]
                 l == Len(d.rows)
                 x == q * h
      <3>1. /\ l \in 1..h /\ Start(d) + l <= n - m
        BY <2>k, <1>0, <2>6 DEF ShardsInv, Planned, BeforeTheBuffer, h
      <3>2. SUFFICES ASSUME d.index = q PROVE FALSE
        OBVIOUS
      <3>3. Start(d) = x
        BY <3>2, <2>k DEF Start, h
      <3>4. x \in Nat /\ n = x + m /\ x + l <= n - m
        BY <3>1, <3>3, <2>4, <2>n, NextMultiple
      <3> HIDE DEF x, l, n, m
      <3> QED
        BY <3>1, <3>4, <2>n
    <2>11. OnceInv'
      <3> SUFFICES ASSUME NEW j \in 1..Len(Cut'), NEW k \in 1..Len(Cut'), j # k,
                          Cut'[j].family = Cut'[k].family, Cut'[j].index = Cut'[k].index
                   PROVE  FALSE
        BY DEF OnceInv
      <3>1. CASE j \in 1..N /\ k \in 1..N
        BY <3>1, <1>0, <2>6 DEF OnceInv
      <3>2. CASE j \in 1..N /\ k = N + 1
        BY <3>2, <2>k, <2>6, <2>c
      <3>3. CASE j = N + 1 /\ k \in 1..N
        BY <3>3, <2>k, <2>6, <2>c
      <3> QED
        BY <3>1, <3>2, <3>3, <2>6
    <2>12. CoverInv'
      <3>0. rows' = rows
        BY <1>0
      <3> SUFFICES ASSUME NEW g \in Families, NEW i \in 0..Len(rows[g]),
                          i * Height[g] < Len(rows[g]) - Len(buffer'[g])
                   PROVE  \E k \in 1..Len(Cut') : Cut'[k].family = g /\ Cut'[k].index = i
        BY <3>0 DEF CoverInv
      <3>1. CASE i * Height[g] < Len(rows[g]) - Len(buffer[g])
        <4>1. PICK k \in 1..Len(Cut) : Cut[k].family = g /\ Cut[k].index = i
          BY <3>1, <1>0 DEF CoverInv
        <4> QED
          BY <4>1, <2>6
      <3>2. CASE g = f /\ ~(i * h < n - m)
        <4>1. i = q
          <5> DEFINE x == q * h
                     y == i * h
          <5>1. n = x + m /\ x \in Nat /\ y \in Nat /\ i \in Nat
            BY <2>4, <2>n, NextMultiple
          <5>2. i < q => y + h <= x
            BY <5>1, <2>n, PlacesAreApart
          <5>3. q < i => x + h <= y
            BY <5>1, <2>n, PlacesAreApart
          <5>4. y < n - 0
            BY <3>2, <2>2 DEF h
          <5>5. ~(y < n - m)
            BY <3>2
          <5> HIDE DEF x, y, n, m
          <5> QED
            BY <5>1, <5>2, <5>3, <5>4, <5>5, <2>n, <2>4
        <4> QED
          BY <4>1, <3>2, <2>6, <2>c
      <3>3. CASE g # f
        BY <3>1, <3>3, <2>2
      <3> QED
        BY <3>1, <3>2, <3>3 DEF h
    <2>13. FlushInv'
      <3>1. \A i \in 1..(flushAt + 1) : buffer'[BufferOrder[i]] = <<>>
        <4> SUFFICES ASSUME NEW i \in 1..(flushAt + 1)
                     PROVE  buffer'[BufferOrder[i]] = <<>>
          OBVIOUS
        <4>1. CASE i = flushAt + 1
          BY <4>1, <2>2
        <4>2. CASE i \in 1..flushAt
          <5>1. buffer[BufferOrder[i]] = <<>>
            BY <4>2, <1>0 DEF FlushInv
          <5> QED
            BY <5>1, <2>1, <2>2, <1>t
        <4> QED
          BY <4>1, <4>2, <1>t
      <3>2. ASSUME NEW k \in 1..Len(ready')
            PROVE  \E i \in 1..(flushAt + 1) : ready'[k].family = BufferOrder[i]
        <4>1. CASE k \in 1..Len(ready)
          <5>1. PICK i \in 1..flushAt : ready[k].family = BufferOrder[i]
            BY <4>1, <1>0 DEF FlushInv
          <5> QED
            BY <5>1, <4>1, <2>r, <1>t
        <4>2. CASE k = Len(ready) + 1
          <5>1. ready'[k].family = f /\ flushAt + 1 \in 1..(flushAt + 1)
            BY <4>2, <2>r, <2>c, <1>t
          <5> QED
            BY <5>1
        <4> QED
          BY <4>1, <4>2, <2>r
      <3> QED
        BY <3>1, <3>2, <1>0 DEF FlushInv
    <2>14. OneShardPerFamilyReady'
      <3>1. ASSUME NEW k \in 1..Len(ready)
            PROVE  ready[k].family # f
        <4>1. PICK i \in 1..flushAt : ready[k].family = BufferOrder[i]
          BY <1>0 DEF FlushInv
        <4>2. i \in 1..Len(BufferOrder) /\ i # flushAt + 1
          BY <1>0, <1>t, <1>f
        <4> QED
          BY <4>1, <4>2, <1>f, BufferOrderAssumption
      <3> SUFFICES ASSUME NEW j \in 1..Len(ready'), NEW k \in 1..Len(ready'),
                          ready'[j].family = ready'[k].family
                   PROVE  j = k
        BY DEF OneShardPerFamilyReady
      <3>2. CASE j \in 1..Len(ready) /\ k \in 1..Len(ready)
        BY <3>2, <2>r, <1>0 DEF OneShardPerFamilyReady
      <3>3. CASE j \in 1..Len(ready) /\ k = Len(ready) + 1
        BY <3>1, <3>3, <2>r, <2>c
      <3>4. CASE j = Len(ready) + 1 /\ k \in 1..Len(ready)
        BY <3>1, <3>4, <2>r, <2>c
      <3> QED
        BY <3>2, <3>3, <3>4, <2>r
    <2> QED
      BY <2>9, <2>10, <2>11, <2>12, <2>13, <2>14 DEF CutInv
  <1> QED
    BY <1>1, <1>2

\* Every action keeps the cut.
LEMMA CutIsKept ==
  ASSUME ExecutorInv, [ExecutorNext]_executorVars
  PROVE  CutInv'
  <1>0. ExecutorTypeOK /\ CutInv /\ BuffersInv
    BY DEF ExecutorInv, CutInv
  <1>f. ASSUME NEW f \in Families, ~Ended
        PROVE  /\ Flushed(f) \in Seq(Chunk)
               /\ \A k \in 1..Len(Flushed(f)) : Fills(f) /\ Flushed(f)[k] = FullChunk(f)
               /\ Fills(f) => \E k \in 1..Len(Flushed(f)) : Flushed(f)[k] = FullChunk(f)
               /\ Len(Flushed(f)) \in {0, 1}
               /\ FullChunk(f).family = f
    <2>0. FullChunk(f).family = f
      BY DEF FullChunk
    <2>1. Flushed(f) \in Seq(Chunk)
      BY <1>0, <1>f, FlushedIsTyped
    <2>2. CASE Fills(f)
      <3>1. Flushed(f) = <<FullChunk(f)>>
        BY <2>2 DEF Flushed
      <3>2. /\ Len(Flushed(f)) = 1 /\ Flushed(f)[1] = FullChunk(f)
            /\ \A k \in 1..1 : k = 1
        BY <3>1
      <3> QED
        BY <2>1, <2>2, <3>2, <2>0
    <2>3. CASE ~Fills(f)
      <3>1. Flushed(f) = <<>>
        BY <2>3 DEF Flushed
      <3> QED
        BY <2>1, <2>3, <3>1, <2>0
    <2> QED
      BY <2>2, <2>3
  <1>1. ASSUME NEW gs \in SUBSET Families, NEW f \in Families, gs = {f},
               MayStep, Commit(gs), ready' = ready \o Flushed(f), phase' \in {"running", "exited"}
        PROVE  CutInv'
    <2>1. ~Ended
      BY <1>1 DEF MayStep, Ended
    <2> DEFINE s == Flushed(f)
    <2>2. /\ s \in Seq(Chunk)
          /\ \A k \in 1..Len(s) : \E g \in gs : Fills(g) /\ s[k] = FullChunk(g)
          /\ \A g \in gs : Fills(g) => \E k \in 1..Len(s) : s[k] = FullChunk(g)
          /\ \A j, k \in 1..Len(s) : s[j].family = s[k].family => j = k
      BY <1>1, <1>f, <2>1
    <2> HIDE DEF s
    <2>3. ready' = s
      BY <1>1, <2>2, StepsFillFromEmpty DEF s
    <2> QED
      BY <1>0, <1>1, <2>2, <2>3, CommitKeepsTheCut
  <1>2. ASSUME NEW f \in CycleFamilies, StepCycle(f)
        PROVE  CutInv'
    <2>1. MayStep /\ Commit({f}) /\ ready' = ready \o Flushed(f) /\ phase' \in {"running", "exited"}
      BY <1>2 DEF StepCycle, MayStep
    <2> QED
      BY <2>1, <1>1 DEF Families
  <1>3. ASSUME NEW d \in DelegationFamilies, StepDelegation(d)
        PROVE  CutInv'
    <2> DEFINE gs == {d, EcallFamily}
               a  == Flushed(d)
               b  == Flushed(EcallFamily)
               s  == a \o b
    <2>1. /\ MayStep /\ Commit(gs) /\ ready' = ready \o s /\ phase' \in {"running", "exited"}
          /\ ~Ended
      BY <1>3 DEF StepDelegation, MayStep, Ended
    <2>2. d \in Families /\ EcallFamily \in Families /\ d # EcallFamily
      BY FamiliesAssumption DEF Families
    <2>3. /\ a \in Seq(Chunk)
          /\ \A k \in 1..Len(a) : Fills(d) /\ a[k] = FullChunk(d)
          /\ Fills(d) => \E k \in 1..Len(a) : a[k] = FullChunk(d)
          /\ Len(a) \in {0, 1} /\ FullChunk(d).family = d
      BY <2>1, <2>2, <1>f
    <2>4. /\ b \in Seq(Chunk)
          /\ \A k \in 1..Len(b) : Fills(EcallFamily) /\ b[k] = FullChunk(EcallFamily)
          /\ Fills(EcallFamily) => \E k \in 1..Len(b) : b[k] = FullChunk(EcallFamily)
          /\ Len(b) \in {0, 1} /\ FullChunk(EcallFamily).family = EcallFamily
      BY <2>1, <2>2, <1>f
    <2> HIDE DEF a, b
    <2>5. /\ s \in Seq(Chunk) /\ Len(s) = Len(a) + Len(b)
          /\ \A k \in 1..Len(a) : s[k] = a[k] /\ k \in 1..Len(s)
          /\ \A k \in 1..Len(b) : s[Len(a) + k] = b[k] /\ Len(a) + k \in 1..Len(s)
      BY <2>3, <2>4
    <2>6. ASSUME NEW k \in 1..Len(s)
          PROVE  \/ k \in 1..Len(a) /\ s[k] = a[k]
                 \/ \E j \in 1..Len(b) : k = Len(a) + j /\ s[k] = b[j]
      <3>1. CASE k \in 1..Len(a)
        BY <3>1, <2>5
      <3>2. CASE k \notin 1..Len(a)
        <4>1. k - Len(a) \in 1..Len(b) /\ k = Len(a) + (k - Len(a))
          BY <3>2, <2>3, <2>4, <2>5
        <4> QED
          BY <4>1, <2>5
      <3> QED
        BY <3>1, <3>2
    <2>7. \A k \in 1..Len(s) : \E f \in gs : Fills(f) /\ s[k] = FullChunk(f)
      BY <2>3, <2>4, <2>6
    <2>8. \A f \in gs : Fills(f) => \E k \in 1..Len(s) : s[k] = FullChunk(f)
      BY <2>3, <2>4, <2>5
    <2>9. \A j, k \in 1..Len(s) : s[j].family = s[k].family => j = k
      <3>1. \A k \in 1..Len(a) : k = 1 /\ a[k].family = d
        BY <2>3
      <3>2. \A k \in 1..Len(b) : k = 1 /\ b[k].family = EcallFamily
        BY <2>4
      <3> QED
        BY <3>1, <3>2, <2>2, <2>6
    <2> HIDE DEF s
    <2>10. ready' = s
      BY <2>1, <2>5, StepsFillFromEmpty
    <2> QED
      BY <1>0, <2>1, <2>2, <2>5, <2>7, <2>8, <2>9, <2>10, CommitKeepsTheCut
  <1>4. CASE StepExit
    <2>1. /\ MayStep /\ Commit({EcallFamily}) /\ ready' = ready \o Flushed(EcallFamily)
          /\ phase' \in {"running", "exited"}
      BY <1>4 DEF StepExit, MayStep
    <2> QED
      BY <2>1, <1>1, FamiliesAssumption DEF Families
  <1>t. handed \in Seq(Chunk) /\ ready \in Seq(Chunk)
    BY <1>0 DEF ExecutorTypeOK
  <1>i. FlushInv /\ OneShardPerFamilyReady
    BY <1>0 DEF CutInv
  <1>5. CASE StepFails
    <2>1. /\ phase = "running" /\ phase' = "failed" /\ rows' = rows /\ buffer' = buffer
          /\ ready' = ready /\ handed' = handed /\ flushAt' = flushAt
      BY <1>5 DEF StepFails
    <2>2. BuffersInv' /\ ShardsInv' /\ OnceInv' /\ CoverInv'
      BY <2>1, <1>0, SameCutIsKept DEF Cut, Ended
    <2>3. FlushInv' /\ OneShardPerFamilyReady'
      BY <2>1, <1>i DEF FlushInv, OneShardPerFamilyReady
    <2> QED
      BY <2>2, <2>3 DEF CutInv
  <1>6. CASE HandOver
    <2>1. /\ phase \in {"running", "exited"} /\ phase' = phase /\ rows' = rows
          /\ buffer' = buffer /\ ready' = <<>> /\ handed' = handed \o ready
          /\ flushAt' = flushAt
      BY <1>6 DEF HandOver
    <2>2. Cut' = Cut
      BY <2>1, <1>t DEF Cut
    <2>3. BuffersInv' /\ ShardsInv' /\ OnceInv' /\ CoverInv'
      BY <2>1, <2>2, <1>0, SameCutIsKept DEF Ended
    <2>4. FlushInv' /\ OneShardPerFamilyReady'
      BY <2>1, <1>i DEF FlushInv, OneShardPerFamilyReady
    <2> QED
      BY <2>3, <2>4 DEF CutInv
  <1>7. CASE BeginFinish
    <2>1. /\ phase = "exited" /\ phase' = "flushing" /\ rows' = rows /\ ready = <<>>
          /\ buffer' = buffer /\ ready' = ready /\ handed' = handed /\ flushAt' = flushAt
      BY <1>7 DEF BeginFinish
    <2>2. BuffersInv' /\ ShardsInv' /\ OnceInv' /\ CoverInv'
      BY <2>1, <1>0, SameCutIsKept DEF Cut, Ended
    <2>3. FlushInv' /\ OneShardPerFamilyReady'
      BY <2>1, <1>i DEF FlushInv, OneShardPerFamilyReady
    <2> QED
      BY <2>2, <2>3 DEF CutInv
  <1>8. CASE FlushBuffer
    BY <1>0, <1>8, FlushKeepsTheCut
  <1>9. CASE Finish
    <2>1. /\ phase = "flushing" /\ flushAt = Len(BufferOrder) /\ ready' = <<>>
          /\ rows' = rows /\ buffer' = buffer /\ flushAt' = flushAt
      BY <1>9 DEF Finish
    <2>2. OneShardPerFamilyReady'
      BY <2>1 DEF OneShardPerFamilyReady
    <2>3. CASE phase' = "finished" /\ handed' = handed \o ready
      <3>1. Cut' = Cut
        BY <2>1, <2>3, <1>t DEF Cut
      <3>2. BuffersInv' /\ ShardsInv' /\ OnceInv' /\ CoverInv'
        BY <2>1, <2>3, <3>1, <1>0, SameCutIsKept DEF Ended
      <3>3. FlushInv'
        BY <2>1, <2>3, <1>i DEF FlushInv
      <3> QED
        BY <2>2, <3>2, <3>3 DEF CutInv
    <2>4. CASE phase' = "failed" /\ handed' = handed
      <3>1. Ended /\ Ended'
        BY <2>1, <2>4 DEF Ended
      <3>2. /\ Cut' = handed
            /\ \A k \in 1..Len(handed) : k \in 1..Len(Cut) /\ Cut[k] = handed[k]
        BY <2>1, <2>4, <1>t DEF Cut
      <3>3. BuffersInv'
        BY <3>1, <2>1, <1>0 DEF BuffersInv
      <3>4. ShardsInv'
        BY <3>1, <3>2, <2>1, <1>0 DEF CutInv, ShardsInv
      <3>5. OnceInv'
        BY <3>2, <1>0 DEF CutInv, OnceInv
      <3>6. CoverInv' /\ FlushInv'
        BY <2>1, <2>4, <1>i DEF CoverInv, FlushInv
      <3> QED
        BY <2>2, <3>3, <3>4, <3>5, <3>6 DEF CutInv
    <2> QED
      BY <1>9, <2>3, <2>4 DEF Finish
  <1>10. CASE UNCHANGED executorVars
    <2>1. /\ phase' = phase /\ rows' = rows /\ buffer' = buffer /\ ready' = ready
          /\ handed' = handed /\ flushAt' = flushAt
      BY <1>10 DEF executorVars
    <2>2. BuffersInv' /\ ShardsInv' /\ OnceInv' /\ CoverInv'
      BY <2>1, <1>0, SameCutIsKept DEF Cut, Ended
    <2>3. FlushInv' /\ OneShardPerFamilyReady'
      BY <2>1, <1>i DEF FlushInv, OneShardPerFamilyReady
    <2> QED
      BY <2>2, <2>3 DEF CutInv
  <1> QED
    BY <1>2, <1>3, <1>4, <1>5, <1>6, <1>7, <1>8, <1>9, <1>10 DEF ExecutorNext, Step
-----------------------------------------------------------------------------
(* The theorems. *)

LEMMA CutHoldsAtFirst == ASSUME ExecutorInit PROVE ExecutorInv
  <1>1. \A f \in Families : Height[f] \in Nat \ {0}
    BY HeightAssumption
  <1>2. ExecutorTypeOK
    BY BufferOrderAssumption DEF ExecutorInit, ExecutorTypeOK
  <1>3. Cut = <<>>
    BY DEF ExecutorInit, Cut
  <1>4. BuffersInv
    <2> SUFFICES ASSUME NEW f \in Families PROVE Filling(f, rows, buffer)
      BY DEF BuffersInv
    <2>1. rows[f] = <<>> /\ buffer[f] = <<>> /\ Len(rows[f]) = 0 /\ Len(buffer[f]) = 0
      BY DEF ExecutorInit
    <2>2. Len(rows[f]) = 0 * Height[f] + Len(buffer[f])
      BY <2>1, <1>1
    <2> QED
      BY <2>1, <2>2, <1>1 DEF Filling
  <1>5. ShardsInv /\ OnceInv
    BY <1>3 DEF ShardsInv, OnceInv
  <1>6. CoverInv
    <2> SUFFICES ASSUME NEW f \in Families, NEW i \in 0..Len(rows[f]),
                        i * Height[f] < Len(rows[f]) - Len(buffer[f])
                 PROVE  FALSE
      BY DEF CoverInv
    <2>1. Len(rows[f]) = 0 /\ Len(buffer[f]) = 0
      BY DEF ExecutorInit
    <2>2. i * Height[f] \in Nat
      BY <2>1, <1>1, NextMultiple
    <2> DEFINE x == i * Height[f]
    <2>3. x < 0 - 0
      BY <2>1
    <2> HIDE DEF x
    <2> QED
      BY <2>2, <2>3 DEF x
  <1>7. FlushInv /\ OneShardPerFamilyReady
    BY DEF ExecutorInit, FlushInv, OneShardPerFamilyReady
  <1> QED
    BY <1>2, <1>4, <1>5, <1>6, <1>7 DEF ExecutorInv, CutInv

\* The inductive invariant holds in every behaviour of the executor.
THEOREM ExecutorInvariance == ExecutorSpec => []ExecutorInv
  <1>1. ExecutorInit => ExecutorInv
    BY CutHoldsAtFirst
  <1>2. ExecutorInv /\ [ExecutorNext]_executorVars => ExecutorInv'
    BY TypesAreKept, CutIsKept DEF ExecutorInv, CutInv
  <1> QED
    BY <1>1, <1>2, PTL DEF ExecutorSpec

\* Type correctness of the streaming executor, for every set of families,
\* every heights and every bound on the clock.
THEOREM ExecutorTypeCorrect == ExecutorSpec => []ExecutorTypeOK
  BY ExecutorInvariance, PTL DEF ExecutorInv

\* The rows a buffer holds between cycles are short of a shard, in every
\* execution (flush_family's comment).
THEOREM BuffersStayPartial == ExecutorSpec => []BuffersArePartial
  <1>1. ExecutorInv => BuffersArePartial
    <2> SUFFICES ASSUME ExecutorInv, NEW f \in Families
                 PROVE  Len(buffer[f]) < Height[f]
      BY DEF BuffersArePartial
    <2>1. Height[f] \in Nat \ {0}
      BY HeightAssumption
    <2>2. CASE Filling(f, rows, buffer)
      BY <2>2 DEF Filling
    <2>3. CASE buffer[f] = <<>>
      <3>1. Len(buffer[f]) = 0
        BY <2>3
      <3> QED
        BY <3>1, <2>1
    <2> QED
      BY <2>2, <2>3 DEF ExecutorInv, CutInv, BuffersInv
  <1> QED
    BY <1>1, ExecutorInvariance, PTL

\* next_shards never returns two shards of one family: what Source::admit
\* asserts of a batch, and MayDrive of what waits, holds for every execution.
THEOREM BatchesHoldAFamilyOnce == ExecutorSpec => []OneShardPerFamilyReady
  BY ExecutorInvariance, PTL DEF ExecutorInv, CutInv

\* What has been handed over is cut.
LEMMA HandedIsCut ==
  ASSUME ExecutorTypeOK, NEW k \in 1..Len(handed)
  PROVE  k \in 1..Len(Cut) /\ Cut[k] = handed[k] /\ handed[k] \in Chunk
  <1>1. handed \in Seq(Chunk) /\ ready \in Seq(Chunk)
    BY DEF ExecutorTypeOK
  <1> QED
    BY <1>1 DEF Cut

\* Every shard handed over, in any phase of any execution, holds exactly the
\* rows the plan's cut gives its index.
THEOREM ShardsFollowThePlan == ExecutorSpec => []ShardsAreThePlannedCut
  <1>1. ExecutorInv => ShardsAreThePlannedCut
    <2> SUFFICES ASSUME ExecutorInv, NEW k \in 1..Len(handed), NEW c, c = handed[k]
                 PROVE  c.rows = PlannedRows(c.family, c.index)
      BY DEF ShardsAreThePlannedCut
    <2>1. c \in Chunk /\ Planned(c, rows)
      BY HandedIsCut DEF ExecutorInv, CutInv, ShardsInv
    <2>2. PICK f \in Families : f = c.family
      BY <2>1 DEF Chunk
    <2>3. /\ c.rows \in Seq(Nat) /\ c.index \in Nat /\ rows[f] \in Seq(Nat)
          /\ Height[f] \in Nat \ {0}
      BY <2>1, <2>2, HeightAssumption DEF Chunk, ExecutorInv, ExecutorTypeOK
    <2> DEFINE n == Len(rows[f])
               h == Height[f]
               m == c.index * h
               e == (c.index + 1) * h
               l == Len(c.rows)
               last == IF e <= n THEN e ELSE n
    <2>4. n \in Nat /\ l \in Nat /\ h \in Nat \ {0} /\ m \in Nat /\ e = m + h
      BY <2>3, NextMultiple
    <2>5. /\ l \in 1..h /\ m + l <= n /\ (l < h => m + l = n)
          /\ \A i \in 1..l : c.rows[i] = rows[f][m + i]
      BY <2>1, <2>2 DEF Planned, Start
    <2>6. last = m + l
      <3> HIDE DEF n, h, m, e, l
      <3> QED
        BY <2>4, <2>5
    <2>7. PlannedRows(c.family, c.index) = SubSeq(rows[f], m + 1, last)
      BY <2>2 DEF PlannedRows
    <2> HIDE DEF m, e, h
    <2>8. /\ SubSeq(rows[f], m + 1, m + l) \in Seq(Nat)
          /\ Len(SubSeq(rows[f], m + 1, m + l)) = l
          /\ \A i \in 1..l : SubSeq(rows[f], m + 1, m + l)[i] = rows[f][m + i]
      <3> DEFINE a == m + 1
                 z == m + l
                 t == SubSeq(rows[f], a, z)
      <3>1. \A i \in a..z : rows[f][i] \in Nat
        <4>1. \A i \in a..z : i \in 1..n
          <5> HIDE DEF n, l
          <5> QED
            BY <2>4, <2>5
        <4> QED
          BY <4>1, <2>3
      <3>2. a \in Int /\ z \in Int /\ a <= z /\ z - a + 1 = l
        <4> HIDE DEF n, l
        <4> QED
          BY <2>4, <2>5
      <3>3. \A i \in 1..l : a + i - 1 = m + i
        <4> HIDE DEF n, l
        <4> QED
          BY <2>4
      <3> HIDE DEF a, z, l, n
      <3>4. /\ t \in Seq(Nat) /\ Len(t) = z - a + 1
            /\ \A i \in 1..(z - a + 1) : t[i] = rows[f][a + i - 1]
        BY <3>1, <3>2, SubSeqProperties
      <3> HIDE DEF t
      <3>5. t \in Seq(Nat) /\ Len(t) = l /\ \A i \in 1..l : t[i] = rows[f][m + i]
        BY <3>2, <3>3, <3>4
      <3> QED
        BY <3>5 DEF t, a, z
    <2> DEFINE t == SubSeq(rows[f], m + 1, m + l)
    <2>9. PlannedRows(c.family, c.index) = t
      BY <2>6, <2>7
    <2> HIDE DEF t, l
    <2>10. t \in Seq(Nat) /\ Len(t) = Len(c.rows) /\ \A i \in 1..Len(t) : t[i] = c.rows[i]
      BY <2>5, <2>8 DEF t, l
    <2>11. c.rows = t
      BY <2>3, <2>10, SeqEqual
    <2> QED
      BY <2>9, <2>11
  <1> QED
    BY <1>1, ExecutorInvariance, PTL

\* The plan counts in naturals.
LEMMA PlanIsCounted ==
  ASSUME ExecutorTypeOK, NEW f \in Families
  PROVE  PlanShards[f] \in Int
  <1>1. Len(rows[f]) \in Nat /\ Height[f] \in Nat \ {0}
    BY HeightAssumption DEF ExecutorTypeOK
  <1> DEFINE n == Len(rows[f])
  <1>2. PlanShards[f] = (n + Height[f] - 1) \div Height[f]
    BY DEF PlanShards
  <1> HIDE DEF n
  <1>3. n + Height[f] - 1 \in Nat
    BY <1>1 DEF n
  <1> QED
    BY <1>1, <1>2, <1>3, QuotientIsNatural

\* The place i of f's plan, or none beyond it, among the shards handed over.
LEMMA FinishedPlaces ==
  ASSUME ExecutorInv, phase = "finished", NEW f \in Families, NEW i \in Nat,
         NEW positions,
         positions = {k \in 1..Len(handed) : handed[k].family = f /\ handed[k].index = i}
  PROVE  IF i < PlanShards[f] THEN \E k \in positions : positions = {k}
                              ELSE positions = {}
  <1> DEFINE n == Len(rows[f])
             h == Height[f]
  <1>0. ShardsInv /\ OnceInv /\ CoverInv /\ FlushInv /\ ExecutorTypeOK
    BY DEF ExecutorInv, CutInv
  <1>1. /\ n \in Nat /\ h \in Nat \ {0} /\ handed \in Seq(Chunk) /\ i \in Nat
    <2>1. rows[f] \in Seq(Nat)
      BY <1>0 DEF ExecutorTypeOK
    <2> QED
      BY <2>1, <1>0, HeightAssumption, MaxCyclesAssumption DEF ExecutorTypeOK
  <1>2. Cut = handed
    BY <1>0, <1>1 DEF FlushInv, Cut
  <1>3. Len(buffer[f]) = 0
    <2>1. PICK j \in 1..Len(BufferOrder) : BufferOrder[j] = f
      BY BufferOrderAssumption
    <2>2. buffer[f] = <<>>
      BY <2>1, <1>0 DEF FlushInv
    <2> QED
      BY <2>2
  <1>4. i < PlanShards[f] <=> i * h < n
    BY <1>1, CeilingCounts DEF PlanShards
  <1>5. CASE i * h < n
    <2>1. i \in 0..n
      <3>1. i <= i * h /\ i * h \in Nat
        BY <1>1, PlaceIsBounded, NextMultiple
      <3> DEFINE x == i * h
      <3>2. x < n
        BY <1>5
      <3> HIDE DEF n, x
      <3> QED
        BY <3>1, <3>2, <1>1 DEF x
    <2>2. i * h < n - 0
      <3> DEFINE x == i * h
      <3>1. x < n /\ x \in Nat
        BY <1>1, <1>5, NextMultiple
      <3> HIDE DEF x, n
      <3>2. x < n - 0
        BY <3>1, <1>1
      <3> QED
        BY <3>2 DEF x
    <2>3. PICK k \in 1..Len(Cut) : Cut[k].family = f /\ Cut[k].index = i
      BY <2>1, <2>2, <1>0, <1>3 DEF CoverInv
    <2>4. k \in positions
      BY <2>3, <1>2
    <2>5. ASSUME NEW j \in positions
          PROVE  j = k
      BY <2>3, <1>0, <1>2 DEF OnceInv
    <2>6. positions = {k}
      BY <2>4, <2>5
    <2> QED
      BY <2>4, <2>6, <1>4, <1>5
  <1>6. CASE ~(i * h < n)
    <2>1. ASSUME NEW k \in positions
          PROVE  FALSE
      <3> DEFINE l == Len(handed[k].rows)
                 x == i * h
      <3>1. Planned(handed[k], rows) /\ handed[k].family = f /\ handed[k].index = i
        BY <1>0, <1>2 DEF ShardsInv
      <3>2. l \in 1..h /\ x + l <= n
        BY <3>1 DEF Planned, Start
      <3>3. x \in Nat /\ ~(x < n)
        BY <1>1, <1>6, NextMultiple
      <3> HIDE DEF l, x, n, h
      <3> QED
        BY <3>2, <3>3, <1>1
    <2> QED
      BY <2>1, <1>4, <1>6
  <1> QED
    BY <1>5, <1>6

\* An execution that finishes has handed over each of plan_shards' places once
\* and nothing else.
THEOREM FinishedRunsAreThePlan == ExecutorSpec => []FinishedMeansThePlan
  <1>1. ExecutorInv => FinishedMeansThePlan
    <2>1. 0..(MaxCycles + 1) \subseteq Nat
      BY MaxCyclesAssumption
    <2> QED
      BY <2>1, FinishedPlaces DEF FinishedMeansThePlan
  <1> QED
    BY <1>1, ExecutorInvariance, PTL

-----------------------------------------------------------------------------
(* The executor inside the pipeline. *)

\* Each pipeline step is a step of the executor or leaves it alone.
LEMMA PipelineStepsTheExecutor == [Next]_vars => [ExecutorNext]_executorVars
  <1> SUFFICES ASSUME [Next]_vars PROVE [ExecutorNext]_executorVars
    OBVIOUS
  <1>1. ASSUME NEW w \in Workers, TakeLock(w) PROVE UNCHANGED executorVars
    BY <1>1 DEF TakeLock, Enter, FindPoison, Unwind
  <1>2. ASSUME NEW w \in Workers, Work(w) PROVE UNCHANGED executorVars
    BY <1>2 DEF Work, WorkOk, WorkFails, WorkPanics
  <1>3. ASSUME NEW w \in Workers, Leave(w) \/ Claim(w) \/ DrivePanics(w)
        PROVE  UNCHANGED executorVars
    BY <1>3 DEF Leave, Claim, DrivePanics
  <1>4. ASSUME NEW w \in Workers,
               DriveStep(w) \/ DriveHandOver(w) \/ DriveFlush(w) \/ DriveFinish(w)
        PROVE  ExecutorNext
    BY <1>4 DEF DriveStep, DriveHandOver, DriveFlush, DriveFinish, ExecutorNext
  <1>5. ASSUME Join \/ Answered \/ UNCHANGED vars PROVE UNCHANGED executorVars
    BY <1>5 DEF Join, Answered, vars
  <1> QED
    BY <1>1, <1>2, <1>3, <1>4, <1>5 DEF Next, HoldLock, Drive

\* Whatever the threads do, the executor they share runs as it would alone: its
\* shards are cut, handed over and flushed by the mutex's holder as by a single
\* caller (Source::claim, "the only place the guest is stepped").
THEOREM PipelineRunsTheExecutor == Spec => ExecutorSpec
  <1>1. Init => ExecutorInit
    BY DEF Init
  <1> QED
    BY <1>1, PipelineStepsTheExecutor, PTL DEF Spec, ExecutorSpec
-----------------------------------------------------------------------------
(* Who holds what. *)

\* Every variable's type, but for the counts, whose bounds are the next layer.
TypesInv ==
  /\ lock \in Workers \cup {NoWorker}
  /\ poisoned \in BOOLEAN
  /\ pc \in [Workers -> {"claim", "locked", "work", "unwind", "returned", "panicked"}]
  /\ hand \in [Workers -> Placed \cup {NoShard}]
  /\ verdict \in [Workers -> {"none", "ok", "err"}]
  /\ mine \in [Workers -> SUBSET Result]
  /\ waiting \in Seq(Placed)
  /\ filled \in Nat
  /\ failure \in Failure \cup {NoFailure}
  /\ stop \in BOOLEAN
  /\ answer \in {Running, Done, Reraised} \cup Failure

\* The lock's holder is the worker in the critical section, its hand empty; a
\* shard being worked has no outcome; one given back has been worked; and a
\* worker that left holds nothing, unless it found the lock poisoned.
HandsInv ==
  \A w \in Workers :
    /\ pc[w] = "locked" <=> lock = w
    /\ pc[w] = "locked" => hand[w] = NoShard
    /\ pc[w] = "work" => hand[w] # NoShard /\ verdict[w] = "none"
    /\ hand[w] = NoShard => verdict[w] = "none"
    /\ pc[w] = "claim" /\ hand[w] # NoShard => verdict[w] # "none"
    /\ pc[w] = "returned" /\ ~poisoned => hand[w] = NoShard

\* A poisoned lock and a stop both have a cause the join sees.
CausesInv ==
  /\ poisoned => \E w \in Workers : pc[w] \in {"unwind", "panicked"}
  /\ stop => failure # NoFailure \/ \E w \in Workers : pc[w] = "panicked"
  /\ failure # NoFailure => stop

\* A worker left because there was nothing more to claim.
LeftInv ==
  \A w \in Workers : pc[w] = "returned" =>
    stop \/ poisoned \/ (waiting = <<>> /\ phase = "finished")

HoldInv == TypesInv /\ HandsInv /\ CausesInv /\ LeftInv

\* What admit adds to the queue is placed.
LEMMA AdmittedArePlaced ==
  ASSUME NEW chunks \in Seq(Chunk), TypesInv
  PROVE  waiting \o [i \in 1..Len(chunks) |-> [seq |-> filled + i - 1, chunk |-> chunks[i]]]
           \in Seq(Placed)
  <1>1. \A i \in 1..Len(chunks) : filled + i - 1 \in Nat /\ chunks[i] \in Chunk
    BY DEF TypesInv
  <1>2. [i \in 1..Len(chunks) |-> [seq |-> filled + i - 1, chunk |-> chunks[i]]] \in Seq(Placed)
    BY <1>1 DEF Placed
  <1> QED
    BY <1>2 DEF TypesInv

\* Every step keeps the types of the workers' states, of the queue and of the failure.
LEMMA HoldTypesAreKept ==
  ASSUME ExecutorTypeOK, HoldInv, [Next]_vars
  PROVE  TypesInv'
  <1>0. TypesInv /\ HandsInv
    BY DEF HoldInv
  <1> USE <1>0 DEF TypesInv
  <1>1. ASSUME NEW at \in Nat, NEW by \in {"work", "executor"}, Fail(at, by)
        PROVE  failure' \in Failure \cup {NoFailure} /\ stop' \in BOOLEAN
    BY <1>1 DEF Fail, Failure
  <1>2. ASSUME NEW w \in Workers, Enter(w) PROVE TypesInv'
    <2>1. CASE hand[w] = NoShard
      BY <1>2, <2>1 DEF Enter, GiveBack
    <2>2. CASE hand[w] # NoShard
      <3>1. hand[w].seq \in Nat
        BY <2>2 DEF Placed
      <3>2. failure' \in Failure \cup {NoFailure} /\ stop' \in BOOLEAN
        BY <1>1, <1>2, <2>2, <3>1 DEF Enter, GiveBack
      <3> QED
        BY <1>2, <2>2, <3>2 DEF Enter, GiveBack
    <2> QED
      BY <2>1, <2>2
  <1>3. ASSUME NEW w \in Workers, FindPoison(w) \/ Unwind(w) \/ Leave(w) PROVE TypesInv'
    BY <1>3 DEF FindPoison, Unwind, Leave, Release, sourceVars
  <1>4. ASSUME NEW w \in Workers, Claim(w) PROVE TypesInv'
    <2>1. Head(waiting) \in Placed /\ Tail(waiting) \in Seq(Placed)
      BY <1>4 DEF Claim
    <2> QED
      BY <1>4, <2>1 DEF Claim, Release
  <1>5. ASSUME NEW w \in Workers, DriveStep(w) PROVE TypesInv'
    BY <1>1, <1>5 DEF DriveStep, workerVars
  <1>6. ASSUME NEW w \in Workers, NEW chunks \in Seq(Chunk), Admit(chunks)
        PROVE  waiting' \in Seq(Placed) /\ filled' \in Nat
    <2>1. waiting' \in Seq(Placed)
      BY <1>6, AdmittedArePlaced DEF Admit
    <2>2. filled' = filled + Len(chunks) /\ Len(chunks) \in Nat
      BY <1>6 DEF Admit
    <2> QED
      BY <2>1, <2>2
  <1>7. ASSUME NEW w \in Workers, DriveHandOver(w) PROVE TypesInv'
    BY <1>6, <1>7 DEF DriveHandOver, workerVars, ExecutorTypeOK
  <1>8. ASSUME NEW w \in Workers, DriveFlush(w) PROVE TypesInv'
    BY <1>8 DEF DriveFlush, workerVars, sourceVars
  <1>9. ASSUME NEW w \in Workers, DriveFinish(w) PROVE TypesInv'
    <2>1. CASE phase' = "failed"
      BY <1>1, <1>9, <2>1 DEF DriveFinish, workerVars
    <2>2. CASE phase' # "failed"
      BY <1>6, <1>9, <2>2 DEF DriveFinish, workerVars, ExecutorTypeOK
    <2> QED
      BY <2>1, <2>2
  <1>10. ASSUME NEW w \in Workers, DrivePanics(w) \/ WorkFails(w) \/ WorkPanics(w) PROVE TypesInv'
    BY <1>10 DEF DrivePanics, WorkFails, WorkPanics, Release, sourceVars
  <1>11. ASSUME NEW w \in Workers, WorkOk(w) PROVE TypesInv'
    <2>1. hand[w] \in Placed
      BY <1>11 DEF WorkOk, HandsInv
    <2>2. [seq |-> hand[w].seq, family |-> hand[w].chunk.family,
           index |-> hand[w].chunk.index] \in Result
      BY <2>1 DEF Placed, Chunk, Result
    <2> QED
      BY <1>11, <2>2 DEF WorkOk, sourceVars
  <1>12. ASSUME Join PROVE TypesInv'
    BY <1>12 DEF Join, sourceVars, workerVars
  <1>13. ASSUME Answered \/ UNCHANGED vars PROVE TypesInv'
    BY <1>13 DEF Answered, vars, sourceVars, workerVars
  <1> QED
    BY <1>2, <1>3, <1>4, <1>5, <1>7, <1>8, <1>9, <1>10, <1>11, <1>12, <1>13
    DEF Next, TakeLock, HoldLock, Drive, Work

\* Every step keeps what a hand may hold in each state of its worker.
LEMMA HandsAreKept ==
  ASSUME HoldInv, [Next]_vars
  PROVE  HandsInv'
  <1>0. TypesInv /\ HandsInv
    BY DEF HoldInv
  <1> USE <1>0, WorkersAssumption DEF TypesInv, HandsInv
  <1>1. ASSUME NEW w \in Workers, Enter(w) PROVE HandsInv'
    <2>1. /\ hand' = [hand EXCEPT ![w] = NoShard]
          /\ verdict' = [verdict EXCEPT ![w] = "none"]
      BY <1>1 DEF Enter, GiveBack
    <2> QED
      BY <1>1, <2>1 DEF Enter
  <1>2. ASSUME NEW w \in Workers, FindPoison(w) \/ Unwind(w) \/ Leave(w) PROVE HandsInv'
    BY <1>2 DEF FindPoison, Unwind, Leave, Release, sourceVars
  <1>3. ASSUME NEW w \in Workers, Claim(w) PROVE HandsInv'
    <2>1. Head(waiting) \in Placed
      BY <1>3 DEF Claim
    <2> QED
      BY <1>3, <2>1, MarksAssumption DEF Claim, Release
  <1>4. ASSUME NEW w \in Workers,
               DriveStep(w) \/ DriveHandOver(w) \/ DriveFlush(w) \/ DriveFinish(w)
        PROVE  HandsInv'
    <2>1. UNCHANGED workerVars
      BY <1>4 DEF DriveStep, DriveHandOver, DriveFlush, DriveFinish
    <2> QED
      BY <2>1 DEF workerVars
  <1>5. ASSUME NEW w \in Workers, DrivePanics(w) PROVE HandsInv'
    BY <1>5 DEF DrivePanics, MayDrive, Release, sourceVars
  <1>6. ASSUME NEW w \in Workers, Work(w) PROVE HandsInv'
    BY <1>6 DEF Work, WorkOk, WorkFails, WorkPanics, sourceVars
  <1>7. ASSUME Join \/ Answered \/ UNCHANGED vars PROVE HandsInv'
    BY <1>7 DEF Join, Answered, vars, workerVars
  <1> QED
    BY <1>1, <1>2, <1>3, <1>4, <1>5, <1>6, <1>7 DEF Next, TakeLock, HoldLock, Drive

\* A stop and a poisoned lock are for good, and a failure is never forgotten.
LEMMA StopsLast ==
  ASSUME HoldInv, [Next]_vars
  PROVE  /\ stop => stop'
         /\ poisoned => poisoned'
         /\ failure # NoFailure => failure' # NoFailure
         /\ \A w \in Workers :
              /\ pc[w] \in {"unwind", "panicked"} => pc'[w] \in {"unwind", "panicked"}
              /\ pc[w] = "panicked" => pc'[w] = "panicked"
  <1>0. TypesInv /\ HandsInv
    BY DEF HoldInv
  <1> USE <1>0 DEF TypesInv, HandsInv
  <1>1. ASSUME NEW at \in Nat, NEW by \in {"work", "executor"}, Fail(at, by)
        PROVE  stop' /\ failure' # NoFailure
    BY <1>1, MarksAssumption DEF Fail, Failure
  <1> DEFINE Lasts == /\ stop => stop'
                      /\ poisoned => poisoned'
                      /\ failure # NoFailure => failure' # NoFailure
             Threads == \A v \in Workers :
                /\ pc[v] \in {"unwind", "panicked"} => pc'[v] \in {"unwind", "panicked"}
                /\ pc[v] = "panicked" => pc'[v] = "panicked"
  <1>2. ASSUME NEW w \in Workers, Enter(w) PROVE Lasts /\ Threads
    <2>1. Threads
      BY <1>2 DEF Enter
    <2>2. CASE hand[w] = NoShard
      BY <1>2, <2>1, <2>2 DEF Enter, GiveBack
    <2>3. CASE hand[w] # NoShard
      <3>1. hand[w].seq \in Nat
        BY <2>3 DEF Placed
      <3> QED
        BY <1>1, <1>2, <2>1, <2>3, <3>1 DEF Enter, GiveBack
    <2> QED
      BY <2>2, <2>3
  <1>3. ASSUME NEW w \in Workers, FindPoison(w) \/ Unwind(w) \/ Leave(w) \/ Claim(w)
        PROVE Lasts /\ Threads
    BY <1>3 DEF FindPoison, Unwind, Leave, Claim, Release, sourceVars
  <1>4. ASSUME NEW w \in Workers, DriveStep(w) \/ DriveHandOver(w) \/ DriveFlush(w) \/ DriveFinish(w)
        PROVE  Lasts /\ Threads
    BY <1>1, <1>4 DEF DriveStep, DriveHandOver, DriveFlush, DriveFinish, workerVars, sourceVars
  <1>5. ASSUME NEW w \in Workers, DrivePanics(w) \/ Work(w) PROVE Lasts /\ Threads
    BY <1>5 DEF DrivePanics, Work, WorkOk, WorkFails, WorkPanics, MayDrive, Release, sourceVars
  <1>6. ASSUME Join \/ Answered \/ UNCHANGED vars PROVE Lasts /\ Threads
    BY <1>6 DEF Join, Answered, vars, workerVars, sourceVars
  <1> QED
    BY <1>2, <1>3, <1>4, <1>5, <1>6 DEF Next, TakeLock, HoldLock, Drive

\* Every step keeps that a stop, a failure and a finished guest have their causes.
LEMMA CausesAreKept ==
  ASSUME HoldInv, [Next]_vars
  PROVE  CausesInv'
  <1>0. TypesInv /\ HandsInv /\ CausesInv
    BY DEF HoldInv
  <1> USE <1>0 DEF TypesInv, CausesInv
  <1>1. ASSUME NEW at \in Nat, NEW by \in {"work", "executor"}, Fail(at, by)
        PROVE  stop' /\ failure' # NoFailure
    BY <1>1, MarksAssumption DEF Fail, Failure
  \* What is set, is set for a cause.
  <1> DEFINE Poison == poisoned' /\ ~poisoned => \E w \in Workers : pc'[w] = "unwind"
             Stops == stop' /\ ~stop => failure' # NoFailure \/ \E w \in Workers : pc'[w] = "panicked"
             Fails == failure' # NoFailure /\ failure = NoFailure => stop'
  <1>2. ASSUME NEW w \in Workers, Enter(w) PROVE Poison /\ Stops /\ Fails
    <2>2. CASE hand[w] = NoShard
      BY <1>2, <2>2 DEF Enter, GiveBack
    <2>3. CASE hand[w] # NoShard
      <3>1. hand[w].seq \in Nat
        BY <2>3 DEF Placed
      <3> QED
        BY <1>1, <1>2, <2>3, <3>1 DEF Enter, GiveBack
    <2> QED
      BY <2>2, <2>3
  <1>3. ASSUME NEW w \in Workers, FindPoison(w) \/ Leave(w) \/ Claim(w)
        PROVE Poison /\ Stops /\ Fails
    BY <1>3 DEF FindPoison, Leave, Claim, Release, sourceVars
  <1>4. ASSUME NEW w \in Workers, Unwind(w) \/ DrivePanics(w) PROVE Poison /\ Stops /\ Fails
    <2>1. pc' = [pc EXCEPT ![w] = "panicked"] => pc'[w] = "panicked"
      OBVIOUS
    <2>2. pc' = [pc EXCEPT ![w] = "unwind"] => pc'[w] = "unwind"
      OBVIOUS
    <2>3. CASE Unwind(w)
      BY <2>1, <2>3 DEF Unwind
    <2>4. CASE DrivePanics(w)
      BY <2>2, <2>4 DEF DrivePanics, Release, sourceVars
    <2> QED
      BY <1>4, <2>3, <2>4
  <1>5. ASSUME NEW w \in Workers, DriveStep(w) \/ DriveHandOver(w) \/ DriveFlush(w) \/ DriveFinish(w)
        PROVE  Poison /\ Stops /\ Fails
    BY <1>1, <1>5 DEF DriveStep, DriveHandOver, DriveFlush, DriveFinish, workerVars, sourceVars
  <1>6. ASSUME NEW w \in Workers, Work(w) PROVE Poison /\ Stops /\ Fails
    BY <1>6 DEF Work, WorkOk, WorkFails, WorkPanics, sourceVars
  <1>7. ASSUME Join \/ Answered \/ UNCHANGED vars PROVE Poison /\ Stops /\ Fails
    BY <1>7 DEF Join, Answered, vars, workerVars, sourceVars
  <1>8. Poison /\ Stops /\ Fails
    BY <1>2, <1>3, <1>4, <1>5, <1>6, <1>7 DEF Next, TakeLock, HoldLock, Drive
  <1> HIDE DEF Poison, Stops, Fails
  <1>9. poisoned' => \E w \in Workers : pc'[w] \in {"unwind", "panicked"}
    BY <1>8, StopsLast DEF Poison
  <1>10. stop' => failure' # NoFailure \/ \E w \in Workers : pc'[w] = "panicked"
    BY <1>8, StopsLast DEF Stops
  <1>11. failure' # NoFailure => stop'
    BY <1>8, StopsLast DEF Fails
  <1> QED
    BY <1>9, <1>10, <1>11

\* Every step keeps that a worker leaves only for a reason that lasts.
LEMMA LeftIsKept ==
  ASSUME HoldInv, [Next]_vars
  PROVE  LeftInv'
  <1>0. TypesInv /\ HandsInv /\ LeftInv
    BY DEF HoldInv
  <1> DEFINE Over == waiting = <<>> /\ phase = "finished"
  <1>1. ASSUME NEW w \in Workers, TakeLock(w) PROVE Over => Over'
    <2>1. UNCHANGED waiting /\ UNCHANGED phase
      BY <1>1 DEF TakeLock, Enter, FindPoison, Unwind, sourceVars, executorVars
    <2> QED
      BY <2>1
  <1>2. ASSUME NEW w \in Workers, Leave(w) \/ DrivePanics(w) \/ Work(w) PROVE Over => Over'
    BY <1>2 DEF Leave, DrivePanics, Work, WorkOk, WorkFails, WorkPanics, sourceVars, executorVars
  <1>3. ASSUME NEW w \in Workers, Claim(w) PROVE Over => Over'
    BY <1>3 DEF Claim
  <1>4. ASSUME NEW w \in Workers, DriveStep(w) \/ DriveHandOver(w) \/ DriveFlush(w) \/ DriveFinish(w)
        PROVE  ~Over
    BY <1>4 DEF DriveStep, DriveHandOver, DriveFlush, DriveFinish, Step, StepCycle, StepDelegation,
                StepExit, StepFails, MayStep, HandOver, BeginFinish, FlushBuffer, Finish
  <1>5. ASSUME Join \/ Answered \/ UNCHANGED vars PROVE Over => Over'
    BY <1>5 DEF Join, Answered, vars, executorVars, sourceVars
  <1>6. Over => Over'
    BY <1>1, <1>2, <1>3, <1>4, <1>5 DEF Next, HoldLock, Drive
  <1> DEFINE Enough == stop \/ poisoned \/ Over
  <1>7. Enough => Enough'
    BY <1>6, StopsLast
  <1>8. ASSUME NEW w \in Workers, NEW v \in Workers, TakeLock(w) \/ Leave(w),
               pc'[v] = "returned", pc[v] # "returned"
        PROVE  Enough'
    BY <1>0, <1>7, <1>8
    DEF TakeLock, Leave, Enter, FindPoison, Unwind, Release, sourceVars, executorVars, TypesInv
  <1>9. ASSUME NEW w \in Workers, NEW v \in Workers, Claim(w) \/ Drive(w) \/ Work(w),
               pc'[v] = "returned"
        PROVE  pc[v] = "returned"
    BY <1>0, <1>9
    DEF Claim, Drive, DriveStep, DriveHandOver, DriveFlush, DriveFinish, DrivePanics, Release,
        Work, WorkOk, WorkFails, WorkPanics, workerVars, TypesInv
  <1>10. ASSUME Join \/ Answered \/ UNCHANGED vars PROVE UNCHANGED pc
    BY <1>10 DEF Join, Answered, vars, workerVars
  <1> SUFFICES ASSUME NEW v \in Workers, pc'[v] = "returned" PROVE Enough'
    BY DEF LeftInv
  <1>11. CASE pc[v] = "returned"
    BY <1>0, <1>7, <1>11 DEF LeftInv
  <1>12. CASE pc[v] # "returned"
    BY <1>8, <1>9, <1>10, <1>12 DEF Next, HoldLock
  <1> QED
    BY <1>11, <1>12

\* The hold layer is true when the pipeline starts.
LEMMA HoldHoldsAtFirst == ASSUME Init PROVE HoldInv
  <1>1. TypesInv
    <2>1. <<>> \in Seq(Placed) /\ 0 \in Nat
      OBVIOUS
    <2>2. /\ pc \in [Workers -> {"claim"}] /\ hand \in [Workers -> {NoShard}]
          /\ verdict \in [Workers -> {"none"}] /\ mine \in [Workers -> {{}}]
      BY DEF Init
    <2> QED
      BY <2>1, <2>2 DEF Init, TypesInv
  <1>2. HandsInv
    BY WorkersAssumption DEF Init, HandsInv
  <1>3. CausesInv /\ LeftInv
    BY DEF Init, CausesInv, LeftInv
  <1> QED
    BY <1>1, <1>2, <1>3 DEF HoldInv

\* What each worker holds while it claims, works, reports, leaves or panics, for
\* any number of workers: the layer of the invariant that the others build on.
THEOREM HoldInvariance == Spec => [](ExecutorTypeOK /\ HoldInv)
  <1>1. ExecutorTypeOK /\ HoldInv /\ [Next]_vars => HoldInv'
    BY HoldTypesAreKept, HandsAreKept, CausesAreKept, LeftIsKept DEF HoldInv
  <1>2. Spec => []ExecutorTypeOK
    BY PipelineRunsTheExecutor, ExecutorTypeCorrect
  <1> QED
    BY <1>1, <1>2, HoldHoldsAtFirst, PTL DEF Spec
-----------------------------------------------------------------------------
(* The count of shards in flight. *)

CountInv == WorkingCountsTheHands /\ peak \in Nat

\* How many hands hold a shard is a number, at most the number of workers.
LEMMA HandsAreCounted ==
  ASSUME NEW S \in SUBSET Workers
  PROVE  /\ IsFiniteSet(S) /\ Cardinality(S) \in Nat
         /\ Cardinality(S) <= Cardinality(Workers)
  BY WorkersAssumption, FS_Subset, FS_CardinalityType

\* Where hand, working and peak are left alone, the count is.
LEMMA SameHandsSameCount ==
  ASSUME CountInv, UNCHANGED <<hand, working, peak>>
  PROVE  CountInv'
  BY DEF CountInv, WorkingCountsTheHands, InHand

\* Every step keeps the count of shards in flight (Source::claim, give_back).
LEMMA CountIsKept ==
  ASSUME HoldInv, CountInv, [Next]_vars
  PROVE  CountInv'
  <1>0. TypesInv /\ HandsInv
    BY DEF HoldInv
  <1>s. /\ InHand \in SUBSET Workers /\ InHand' \in SUBSET Workers
        /\ IsFiniteSet(InHand) /\ Cardinality(InHand) \in Nat
        /\ Cardinality(InHand') \in Nat
        /\ Cardinality(InHand') <= Cardinality(Workers) /\ Cardinality(Workers) \in Nat
    BY HandsAreCounted DEF InHand
  <1>c. working = Cardinality(InHand) /\ working <= peak /\ peak <= Cardinality(Workers) /\ peak \in Nat
    BY DEF CountInv, WorkingCountsTheHands
  <1>1. ASSUME NEW w \in Workers, Enter(w) PROVE CountInv'
    <2>1. CASE hand[w] = NoShard
      BY <1>1, <2>1, SameHandsSameCount DEF Enter, GiveBack
    <2>2. CASE hand[w] # NoShard
      <3>1. working' = working - 1 /\ hand' = [hand EXCEPT ![w] = NoShard] /\ peak' = peak
        BY <1>1, <2>2 DEF Enter, GiveBack
      <3>2. w \in InHand /\ InHand' = InHand \ {w}
        BY <1>0, <2>2, <3>1 DEF InHand, TypesInv
      <3>3. Cardinality(InHand') = Cardinality(InHand) - 1
        BY <1>s, <3>2, FS_RemoveElement
      <3> QED
        BY <1>s, <1>c, <3>1, <3>3 DEF CountInv, WorkingCountsTheHands
    <2> QED
      BY <2>1, <2>2
  <1>2. ASSUME NEW w \in Workers, Claim(w) PROVE CountInv'
    <2>1. /\ working' = working + 1
          /\ peak' = IF working + 1 > peak THEN working + 1 ELSE peak
          /\ hand' = [hand EXCEPT ![w] = Head(waiting)]
          /\ Head(waiting) \in Placed /\ hand[w] = NoShard
      BY <1>0, <1>2 DEF Claim, HandsInv, TypesInv
    <2>2. w \notin InHand /\ InHand' = InHand \cup {w}
      BY <1>0, <2>1, MarksAssumption DEF InHand, TypesInv
    <2>3. Cardinality(InHand') = Cardinality(InHand) + 1
      BY <1>s, <2>2, FS_AddElement
    <2> QED
      BY <1>s, <1>c, <2>1, <2>3 DEF CountInv, WorkingCountsTheHands
  <1>3. ASSUME NEW w \in Workers, FindPoison(w) \/ Unwind(w) \/ Leave(w) \/ DrivePanics(w) \/ Work(w)
        PROVE CountInv'
    <2>1. UNCHANGED <<hand, working, peak>>
      BY <1>3 DEF FindPoison, Unwind, Leave, DrivePanics, Work, WorkOk, WorkFails, WorkPanics, sourceVars
    <2> QED
      BY <2>1, SameHandsSameCount
  <1>4. ASSUME NEW w \in Workers,
               DriveStep(w) \/ DriveHandOver(w) \/ DriveFlush(w) \/ DriveFinish(w)
        PROVE  CountInv'
    <2>1. UNCHANGED <<hand, working, peak>>
      BY <1>4 DEF DriveStep, DriveHandOver, DriveFlush, DriveFinish, workerVars, sourceVars
    <2> QED
      BY <2>1, SameHandsSameCount
  <1>5. ASSUME Join \/ Answered \/ UNCHANGED vars PROVE CountInv'
    <2>1. UNCHANGED <<hand, working, peak>>
      BY <1>5 DEF Join, Answered, vars, workerVars, sourceVars
    <2> QED
      BY <2>1, SameHandsSameCount
  <1> QED
    BY <1>1, <1>2, <1>3, <1>4, <1>5 DEF Next, TakeLock, HoldLock, Drive

\* The count layer holds in every behaviour.
THEOREM CountInvariance == Spec => []CountInv
  <1>1. Init => CountInv
    <2> SUFFICES ASSUME Init PROVE CountInv
      OBVIOUS
    <2>1. InHand = {}
      BY DEF Init, InHand
    <2>2. Cardinality(InHand) = 0 /\ Cardinality(Workers) \in Nat
      BY <2>1, FS_EmptySet, HandsAreCounted
    <2> QED
      BY <2>2 DEF Init, CountInv, WorkingCountsTheHands
  <1> QED
    BY <1>1, CountIsKept, HoldInvariance, PTL DEF Spec

\* "The count of shards in flight never holds one twice or drops one": for any
\* number of workers and any fault, claim's assertion cannot fail.
THEOREM CountsAreRight == Spec => []WorkingCountsTheHands
  BY CountInvariance, PTL DEF CountInv

\* Every variable of the pipeline keeps its type, the counts included.
THEOREM PipelineTypeCorrect == Spec => []PipelineTypeOK
  <1>1. HoldInv /\ CountInv /\ ExecutorTypeOK => PipelineTypeOK
    <2> SUFFICES ASSUME HoldInv, CountInv, ExecutorTypeOK PROVE PipelineTypeOK
      OBVIOUS
    <2>1. working \in Nat
      BY HandsAreCounted DEF CountInv, WorkingCountsTheHands, InHand
    <2> QED
      BY <2>1 DEF HoldInv, TypesInv, CountInv, PipelineTypeOK
  <1> QED
    BY <1>1, CountInvariance, HoldInvariance, PTL
-----------------------------------------------------------------------------
(* The places claims take. *)

\* What waits is exactly the places not yet claimed.
QueueInv ==
  /\ Len(waiting) <= filled
  /\ \A i \in 1..Len(waiting) : waiting[i].seq = Claimed + i - 1

\* Of the first c places, each has one owner: the hand that holds it, or the
\* result it became.  A hand keeps its place until it is given back, so the
\* worker that succeeded has both.
Owners(c, h, v, m) ==
  /\ \A w \in Workers : h[w] # NoShard => h[w].seq < c
  /\ \A w \in Workers : \A r \in m[w] : r.seq < c
  /\ \A u, w \in Workers :
       h[u] # NoShard /\ h[w] # NoShard /\ h[u].seq = h[w].seq => u = w
  /\ \A u, w \in Workers : h[w] # NoShard /\ (u # w \/ v[w] # "ok") =>
       \A r \in m[u] : r.seq # h[w].seq
  /\ \A u, w \in Workers : \A r \in m[u], q \in m[w] :
       r.seq = q.seq => u = w /\ r = q

OkHasResult(h, v, m) ==
  \A w \in Workers : v[w] = "ok" => \E r \in m[w] : r.seq = h[w].seq

PlacesInv ==
  QueueInv /\ Owners(Claimed, hand, verdict, mine) /\ OkHasResult(hand, verdict, mine)

\* Every step keeps the queue dense and each claimed place with its one owner.
LEMMA PlacesAreKept ==
  ASSUME ExecutorTypeOK, HoldInv, PlacesInv, [Next]_vars
  PROVE  PlacesInv'
  <1>0. TypesInv /\ HandsInv
    BY DEF HoldInv
  <1>p. QueueInv /\ Owners(Claimed, hand, verdict, mine) /\ OkHasResult(hand, verdict, mine)
    BY DEF PlacesInv
  <1>c. Claimed \in Nat /\ filled \in Nat /\ Len(waiting) \in Nat
    BY <1>0, <1>p DEF TypesInv, QueueInv, Claimed
  <1>q. ASSUME UNCHANGED <<waiting, filled>> PROVE QueueInv' /\ Claimed' = Claimed
    BY <1>p, <1>q DEF QueueInv, Claimed
  <1>1. ASSUME NEW w \in Workers, Enter(w) PROVE PlacesInv'
    <2>1. /\ hand' = [hand EXCEPT ![w] = NoShard]
          /\ verdict' = [verdict EXCEPT ![w] = "none"]
          /\ mine' = mine
      BY <1>0, <1>1 DEF Enter, GiveBack, HandsInv, TypesInv
    <2>2. QueueInv' /\ Claimed' = Claimed
      BY <1>1, <1>q DEF Enter
    <2>3. \A u \in Workers : hand'[u] # NoShard =>
            hand'[u] = hand[u] /\ verdict'[u] = verdict[u] /\ u # w
      BY <1>0, <2>1 DEF TypesInv
    <2>4. Owners(Claimed, hand', verdict', mine)
      BY <1>p, <2>3 DEF Owners
    <2>5. OkHasResult(hand', verdict', mine)
      BY <1>0, <1>p, <2>1 DEF OkHasResult, TypesInv
    <2> QED
      BY <2>1, <2>2, <2>4, <2>5 DEF PlacesInv
  <1>2. ASSUME NEW w \in Workers, Claim(w) PROVE PlacesInv'
    <2>1. /\ waiting # <<>> /\ waiting' = Tail(waiting) /\ filled' = filled
          /\ hand' = [hand EXCEPT ![w] = Head(waiting)]
          /\ verdict' = verdict /\ mine' = mine /\ hand[w] = NoShard /\ verdict[w] = "none"
      BY <1>0, <1>2 DEF Claim, HandsInv
    <2>2. /\ Head(waiting) \in Placed /\ Head(waiting).seq = Claimed
          /\ Len(waiting') = Len(waiting) - 1
          /\ \A i \in 1..Len(waiting') : i + 1 \in 1..Len(waiting) /\ waiting'[i] = waiting[i + 1]
      <3>1. waiting \in Seq(Placed) /\ 1 \in 1..Len(waiting) /\ Head(waiting) = waiting[1]
        BY <1>0, <2>1 DEF TypesInv
      <3>2. waiting[1].seq = Claimed + 1 - 1
        BY <1>p, <3>1 DEF QueueInv
      <3> QED
        BY <1>c, <2>1, <3>1, <3>2
    <2>3. Claimed' = Claimed + 1
      BY <1>c, <2>1, <2>2 DEF Claimed
    <2>4. QueueInv'
      <3>1. Len(waiting') <= filled'
        BY <1>c, <1>p, <2>1, <2>2 DEF QueueInv
      <3>2. ASSUME NEW i \in 1..Len(waiting') PROVE waiting'[i].seq = Claimed' + i - 1
        <4>1. waiting[i + 1].seq = Claimed + (i + 1) - 1
          BY <1>p, <2>2, <3>2 DEF QueueInv
        <4>2. i \in Int
          BY <3>2
        <4> QED
          BY <1>c, <2>2, <2>3, <4>1, <4>2
      <3> QED
        BY <3>1, <3>2 DEF QueueInv
    <2>5. /\ hand'[w] # NoShard /\ hand'[w].seq = Claimed
          /\ \A u \in Workers \ {w} : hand'[u] = hand[u]
      BY <1>0, <2>1, <2>2, MarksAssumption DEF TypesInv
    <2>6. \A u \in Workers : hand[u] # NoShard => hand[u].seq \in Nat /\ hand[u].seq < Claimed
      BY <1>0, <1>p DEF TypesInv, Placed, Owners
    <2>7. \A u \in Workers : \A r \in mine[u] : r.seq \in Nat /\ r.seq < Claimed
      BY <1>0, <1>p DEF TypesInv, Result, Owners
    <2>8. Owners(Claimed + 1, hand', verdict, mine)
      <3>1. /\ \A u \in Workers : hand'[u] # NoShard => hand'[u].seq < Claimed + 1
            /\ \A u \in Workers : \A r \in mine[u] : r.seq < Claimed + 1
        BY <1>c, <2>5, <2>6, <2>7
      <3>2. \A u, v \in Workers : hand'[u] # NoShard /\ hand'[v] # NoShard
                                  /\ hand'[u].seq = hand'[v].seq => u = v
        BY <1>c, <1>p, <2>5, <2>6 DEF Owners
      <3>3. \A u, v \in Workers : hand'[v] # NoShard /\ (u # v \/ verdict[v] # "ok") =>
              \A r \in mine[u] : r.seq # hand'[v].seq
        BY <1>c, <1>p, <2>5, <2>7 DEF Owners
      <3> QED
        BY <1>p, <3>1, <3>2, <3>3 DEF Owners
    <2>9. OkHasResult(hand', verdict, mine)
      BY <1>p, <2>1, <2>5 DEF OkHasResult
    <2> QED
      BY <2>1, <2>3, <2>4, <2>8, <2>9 DEF PlacesInv
  <1>3. ASSUME NEW w \in Workers, WorkOk(w) PROVE PlacesInv'
    <2> DEFINE r == [seq |-> hand[w].seq, family |-> hand[w].chunk.family,
                     index |-> hand[w].chunk.index]
    <2>1. /\ mine' = [mine EXCEPT ![w] = @ \cup {r}]
          /\ verdict' = [verdict EXCEPT ![w] = "ok"]
          /\ hand' = hand /\ UNCHANGED <<waiting, filled>>
          /\ hand[w] # NoShard /\ verdict[w] = "none"
      BY <1>0, <1>3 DEF WorkOk, HandsInv, sourceVars
    <2>2. QueueInv' /\ Claimed' = Claimed
      BY <1>q, <2>1
    <2>3. r.seq = hand[w].seq /\ r.seq < Claimed
      BY <1>p, <2>1 DEF Owners
    <2>4. /\ mine'[w] = mine[w] \cup {r} /\ verdict'[w] = "ok"
          /\ \A u \in Workers \ {w} : mine'[u] = mine[u] /\ verdict'[u] = verdict[u]
      BY <1>0, <2>1 DEF TypesInv
    <2>5. \A u \in Workers : \A q \in mine[u] : q.seq # r.seq
      BY <1>p, <2>1, <2>3 DEF Owners
    <2>6. \A u \in Workers : hand[u] # NoShard /\ u # w => hand[u].seq # r.seq
      BY <1>p, <2>1, <2>3 DEF Owners
    <2> HIDE DEF r
    <2>7. \A u \in Workers : \A q \in mine'[u] : q \in mine[u] \/ (u = w /\ q = r)
      BY <2>4
    <2>8. Owners(Claimed, hand, verdict', mine')
      <3>1. \A u \in Workers : hand[u] # NoShard => hand[u].seq < Claimed
        BY <1>p DEF Owners
      <3>2. \A u \in Workers : \A q \in mine'[u] : q.seq < Claimed
        BY <1>p, <2>3, <2>7 DEF Owners
      <3>3. \A u, v \in Workers : hand[v] # NoShard /\ (u # v \/ verdict'[v] # "ok") =>
              \A q \in mine'[u] : q.seq # hand[v].seq
        <4> SUFFICES ASSUME NEW u \in Workers, NEW v \in Workers, hand[v] # NoShard,
                            u # v \/ verdict'[v] # "ok", NEW q \in mine'[u]
                     PROVE  q.seq # hand[v].seq
          OBVIOUS
        <4>1. u # v \/ verdict[v] # "ok"
          BY <2>4
        <4>2. CASE q \in mine[u]
          BY <1>p, <4>1, <4>2 DEF Owners
        <4>3. CASE u = w /\ q = r
          BY <2>4, <2>6, <4>3
        <4> QED
          BY <2>7, <4>2, <4>3
      <3>4. \A u, v \in Workers : \A x \in mine'[u], y \in mine'[v] :
              x.seq = y.seq => u = v /\ x = y
        BY <1>p, <2>5, <2>7 DEF Owners
      <3>5. \A u, v \in Workers :
              hand[u] # NoShard /\ hand[v] # NoShard /\ hand[u].seq = hand[v].seq => u = v
        BY <1>p DEF Owners
      <3> QED
        BY <3>1, <3>2, <3>3, <3>4, <3>5 DEF Owners
    <2>9. OkHasResult(hand, verdict', mine')
      BY <1>p, <2>3, <2>4 DEF OkHasResult
    <2> QED
      BY <2>1, <2>2, <2>8, <2>9 DEF PlacesInv
  <1>4. ASSUME NEW w \in Workers, WorkFails(w) PROVE PlacesInv'
    <2>1. /\ mine' = mine /\ verdict' = [verdict EXCEPT ![w] = "err"]
          /\ hand' = hand /\ UNCHANGED <<waiting, filled>> /\ verdict[w] = "none"
      BY <1>0, <1>4 DEF WorkFails, HandsInv, sourceVars
    <2>2. QueueInv' /\ Claimed' = Claimed
      BY <1>q, <2>1
    <2>3. \A u \in Workers : verdict'[u] = "ok" <=> verdict[u] = "ok"
      BY <1>0, <2>1 DEF TypesInv
    <2>4. Owners(Claimed, hand, verdict', mine) /\ OkHasResult(hand, verdict', mine)
      BY <1>p, <2>3 DEF Owners, OkHasResult
    <2> QED
      BY <2>1, <2>2, <2>4 DEF PlacesInv
  <1>5. ASSUME UNCHANGED <<hand, verdict, mine, waiting, filled>> PROVE PlacesInv'
    BY <1>5, <1>p, <1>q DEF PlacesInv
  <1>6. ASSUME NEW w \in Workers,
               FindPoison(w) \/ Unwind(w) \/ Leave(w) \/ DrivePanics(w) \/ WorkPanics(w)
        PROVE PlacesInv'
    BY <1>5, <1>6 DEF FindPoison, Unwind, Leave, DrivePanics, WorkPanics, sourceVars
  <1>7. ASSUME NEW chunks \in Seq(Chunk), Admit(chunks), UNCHANGED <<hand, verdict, mine>>
        PROVE  PlacesInv'
    <2> DEFINE n == Len(chunks)
               l == Len(waiting)
               b == [i \in 1..n |-> [seq |-> filled + i - 1, chunk |-> chunks[i]]]
    <2>1. n \in Nat /\ l \in Nat /\ filled' = filled + n /\ waiting' = waiting \o b
      BY <1>c, <1>7 DEF Admit
    <2>2. b \in Seq(Placed) /\ Len(b) = n /\ waiting \in Seq(Placed)
      <3>1. \A i \in 1..n : filled + i - 1 \in Nat /\ chunks[i] \in Chunk
        BY <1>c, <1>7
      <3> QED
        BY <1>0, <2>1, <3>1 DEF TypesInv, Placed
    <2>3. \A i \in 1..n : b[i].seq = filled + i - 1
      OBVIOUS
    <2> HIDE DEF b
    <2>4. Len(waiting') = l + n /\ Claimed' = Claimed
      <3>0. waiting \in Seq(Placed) /\ b \in Seq(Placed)
        BY <2>2
      <3>1. Len(waiting') = l + n
        <4>1. Len(waiting \o b) = Len(waiting) + Len(b)
          BY <3>0
        <4> QED
          BY <2>1, <2>2, <4>1
      <3>2. Claimed' = filled' - Len(waiting') /\ Claimed = filled - l
        BY DEF Claimed
      <3> HIDE DEF l, n
      <3> QED
        BY <1>c, <2>1, <3>1, <3>2
    <2>5. ASSUME NEW i \in 1..Len(waiting') PROVE waiting'[i].seq = Claimed + i - 1
      <3>1. CASE i <= l
        <4>1. i \in 1..l /\ waiting'[i] = waiting[i]
          BY <2>1, <2>2, <2>5, <3>1
        <4> QED
          BY <1>p, <4>1 DEF QueueInv
      <3>2. CASE i > l
        <4>1. i - l \in 1..n /\ waiting'[i] = b[i - l]
          BY <2>1, <2>2, <2>4, <2>5, <3>2
        <4>2. waiting'[i].seq = filled + (i - l) - 1
          BY <2>3, <4>1
        <4>3. i \in Int /\ Claimed = filled - l
          BY <2>5 DEF Claimed
        <4> HIDE DEF l
        <4> QED
          BY <1>c, <2>1, <4>2, <4>3
      <3> QED
        BY <2>1, <2>5, <3>1, <3>2
    <2>6. Len(waiting') <= filled'
      <3>1. l <= filled
        BY <1>p DEF QueueInv
      <3> HIDE DEF l, n
      <3> QED
        BY <1>c, <2>1, <2>4, <3>1
    <2>7. QueueInv'
      BY <2>4, <2>5, <2>6 DEF QueueInv
    <2> QED
      BY <1>p, <1>7, <2>4, <2>7 DEF PlacesInv
  <1>8. ASSUME NEW w \in Workers,
               DriveStep(w) \/ DriveHandOver(w) \/ DriveFlush(w) \/ DriveFinish(w)
        PROVE  PlacesInv'
    <2>1. UNCHANGED <<hand, verdict, mine>>
      BY <1>8 DEF DriveStep, DriveHandOver, DriveFlush, DriveFinish, workerVars
    <2>2. Admit(ready) \/ UNCHANGED <<waiting, filled>>
      BY <1>8 DEF DriveStep, DriveHandOver, DriveFlush, DriveFinish, sourceVars
    <2>3. ready \in Seq(Chunk)
      BY DEF ExecutorTypeOK
    <2> QED
      BY <1>5, <1>7, <2>1, <2>2, <2>3
  <1>9. ASSUME Join \/ Answered \/ UNCHANGED vars PROVE PlacesInv'
    BY <1>5, <1>9 DEF Join, Answered, vars, workerVars, sourceVars
  <1> QED
    BY <1>1, <1>2, <1>3, <1>4, <1>6, <1>8, <1>9 DEF Next, TakeLock, HoldLock, Drive, Work

\* The places layer holds in every behaviour.
THEOREM PlacesInvariance == Spec => []PlacesInv
  <1>1. Init => PlacesInv
    <2> SUFFICES ASSUME Init PROVE PlacesInv
      OBVIOUS
    <2>1. \A w \in Workers : hand[w] = NoShard /\ verdict[w] = "none" /\ mine[w] = {}
      BY DEF Init
    <2>2. waiting = <<>> /\ filled = 0 /\ Len(waiting) = 0
      BY DEF Init
    <2> QED
      BY <2>1, <2>2 DEF PlacesInv, QueueInv, Owners, OkHasResult
  <1> QED
    BY <1>1, PlacesAreKept, HoldInvariance, PTL DEF Spec

\* Claims follow fill order and no place is claimed twice, for any number of
\* workers: the shards are numbered densely, and no two workers ever hold, or
\* have results of, one of them.
THEOREM ClaimsFollowFillOrder == Spec => []ClaimedOnceInFillOrder
  <1>1. PlacesInv => ClaimedOnceInFillOrder
    BY DEF PlacesInv, QueueInv, Owners, ClaimedOnceInFillOrder, InHand
  <1> QED
    BY <1>1, PlacesInvariance, PTL
-----------------------------------------------------------------------------
(* Demand. *)

\* What a batch of chunks of different families becomes in an empty queue.
LEMMA AdmittedToEmpty ==
  ASSUME NEW chunks \in Seq(Chunk), waiting = <<>>, Admit(chunks),
         \A j, k \in 1..Len(chunks) : chunks[j].family = chunks[k].family => j = k
  PROVE  OneShardPerFamilyWaiting'
  <1> DEFINE n == Len(chunks)
             b == [i \in 1..n |-> [seq |-> filled + i - 1, chunk |-> chunks[i]]]
  <1>1. waiting' = <<>> \o b
    BY DEF Admit
  <1>2. \A i \in 1..n : b[i].chunk = chunks[i]
    OBVIOUS
  <1>3. b \in Seq({b[i] : i \in 1..n}) /\ Len(b) = n
    OBVIOUS
  <1> HIDE DEF b
  <1>4. waiting' = b
    BY <1>1, <1>3
  <1> QED
    BY <1>2, <1>3, <1>4 DEF OneShardPerFamilyWaiting

\* Every step keeps one waiting shard per family (Source::admit).
LEMMA DemandIsKept ==
  ASSUME ExecutorTypeOK, OneShardPerFamilyReady, HoldInv, OneShardPerFamilyWaiting, [Next]_vars
  PROVE  OneShardPerFamilyWaiting'
  <1>0. waiting \in Seq(Placed) /\ ready \in Seq(Chunk)
    BY DEF HoldInv, TypesInv, ExecutorTypeOK
  <1>1. ASSUME UNCHANGED waiting PROVE OneShardPerFamilyWaiting'
    BY <1>1 DEF OneShardPerFamilyWaiting
  <1>2. ASSUME NEW w \in Workers, Claim(w) PROVE OneShardPerFamilyWaiting'
    <2>1. waiting # <<>> /\ waiting' = Tail(waiting)
      BY <1>2 DEF Claim
    <2>2. \A i \in 1..Len(waiting') : i + 1 \in 1..Len(waiting) /\ waiting'[i] = waiting[i + 1]
      BY <1>0, <2>1
    <2>3. \A i, j \in 1..Len(waiting') : i + 1 = j + 1 => i = j
      OBVIOUS
    <2> QED
      BY <2>2, <2>3 DEF OneShardPerFamilyWaiting
  <1>3. ASSUME NEW w \in Workers, TakeLock(w) \/ Leave(w) \/ DrivePanics(w) \/ Work(w)
        PROVE UNCHANGED waiting
    BY <1>3 DEF TakeLock, Enter, FindPoison, Unwind, Leave, DrivePanics, Work, WorkOk, WorkFails,
                WorkPanics, sourceVars
  <1>4. ASSUME NEW w \in Workers,
               DriveStep(w) \/ DriveHandOver(w) \/ DriveFlush(w) \/ DriveFinish(w)
        PROVE  UNCHANGED waiting \/ (waiting = <<>> /\ Admit(ready))
    BY <1>4 DEF DriveStep, DriveHandOver, DriveFlush, DriveFinish, MayDrive, sourceVars
  <1>5. ASSUME Join \/ Answered \/ UNCHANGED vars PROVE UNCHANGED waiting
    BY <1>5 DEF Join, Answered, vars, sourceVars
  <1>6. waiting = <<>> /\ Admit(ready) => OneShardPerFamilyWaiting'
    BY <1>0, AdmittedToEmpty DEF OneShardPerFamilyReady
  <1> QED
    BY <1>1, <1>2, <1>3, <1>4, <1>5, <1>6 DEF Next, HoldLock, Drive

\* Production follows demand: whatever the schedule, no second shard of a
\* family waits, so Source::admit's assertion cannot fail and what waits is
\* bounded by the number of families.
THEOREM ProductionFollowsDemand == Spec => []OneShardPerFamilyWaiting
  <1>1. Init => OneShardPerFamilyWaiting
    BY DEF Init, OneShardPerFamilyWaiting
  <1>2. Spec => []OneShardPerFamilyReady
    BY PipelineRunsTheExecutor, BatchesHoldAFamilyOnce
  <1> QED
    BY <1>1, <1>2, DemandIsKept, HoldInvariance, PTL DEF Spec
-----------------------------------------------------------------------------
(* Stopping. *)

PoisonInv == poisoned => lock = NoWorker

\* Every step keeps a poisoned lock free.
LEMMA PoisonIsKept ==
  ASSUME HoldInv, PoisonInv, [Next]_vars
  PROVE  PoisonInv'
  <1> USE DEF PoisonInv
  <1>1. ASSUME NEW w \in Workers, TakeLock(w) PROVE PoisonInv'
    BY <1>1 DEF TakeLock, Enter, FindPoison, Unwind
  <1>2. ASSUME NEW w \in Workers, Leave(w) \/ Claim(w) \/ DrivePanics(w) PROVE PoisonInv'
    BY <1>2 DEF Leave, Claim, DrivePanics, Release
  <1>3. ASSUME NEW w \in Workers,
               DriveStep(w) \/ DriveHandOver(w) \/ DriveFlush(w) \/ DriveFinish(w)
        PROVE  PoisonInv'
    BY <1>3 DEF DriveStep, DriveHandOver, DriveFlush, DriveFinish, workerVars
  <1>4. ASSUME NEW w \in Workers, Work(w) PROVE PoisonInv'
    BY <1>4 DEF Work, WorkOk, WorkFails, WorkPanics
  <1>5. ASSUME Join \/ Answered \/ UNCHANGED vars PROVE PoisonInv'
    BY <1>5 DEF Join, Answered, vars, workerVars
  <1> QED
    BY <1>1, <1>2, <1>3, <1>4, <1>5 DEF Next, HoldLock, Drive

\* A stopped or poisoned pipeline leaves its queue alone.
LEMMA StoppedQueuesRest ==
  ASSUME PoisonInv, HoldInv, [Next]_vars, stop \/ poisoned
  PROVE  UNCHANGED <<waiting, filled>>
  <1>1. ASSUME NEW w \in Workers, lock = w PROVE stop
    BY <1>1, WorkersAssumption DEF PoisonInv
  <1>2. ASSUME NEW w \in Workers, Claim(w) \/ DriveStep(w) \/ DriveHandOver(w) \/ DriveFlush(w)
                                  \/ DriveFinish(w)
        PROVE FALSE
    BY <1>1, <1>2 DEF Claim, DriveStep, DriveHandOver, DriveFlush, DriveFinish, MayDrive
  <1>3. ASSUME NEW w \in Workers, TakeLock(w) \/ Leave(w) \/ DrivePanics(w) \/ Work(w)
        PROVE UNCHANGED <<waiting, filled>>
    BY <1>3 DEF TakeLock, Enter, FindPoison, Unwind, Leave, DrivePanics, Work, WorkOk, WorkFails,
                WorkPanics, sourceVars
  <1>4. ASSUME Join \/ Answered \/ UNCHANGED vars PROVE UNCHANGED <<waiting, filled>>
    BY <1>4 DEF Join, Answered, vars, sourceVars
  <1> QED
    BY <1>2, <1>3, <1>4 DEF Next, HoldLock, Drive

\* A panic inside the lock releases it: a poisoned mutex is held by no worker.
THEOREM PoisonInvariance == Spec => []PoisonInv
  BY PoisonIsKept, HoldInvariance, PTL DEF Spec, Init, PoisonInv

\* A failure or a panic ends the claims, for any number of workers: after a
\* stop or with the lock poisoned no shard is claimed or filled.
THEOREM StopsAreFinal == Spec => StopIsFinal
  <1>1. ASSUME PoisonInv, HoldInv, PlacesInv, [Next]_vars
        PROVE  stop \/ poisoned => Claimed' <= Claimed /\ filled' = filled
    <2> SUFFICES ASSUME stop \/ poisoned PROVE Claimed' <= Claimed /\ filled' = filled
      OBVIOUS
    <2>1. UNCHANGED <<waiting, filled>>
      BY <1>1, StoppedQueuesRest
    <2>2. Claimed' = Claimed /\ Claimed \in Int
      BY <1>1, <2>1 DEF Claimed, HoldInv, TypesInv
    <2> QED
      BY <2>1, <2>2
  <1> QED
    BY <1>1, PoisonInvariance, HoldInvariance, PlacesInvariance, PTL DEF Spec, StopIsFinal

\* What `pipeline` expects once no panic has been re-raised holds for any
\* number of workers: the lock is whole, and without a failure the guest ran to
\* its exit.
THEOREM JoinsAsExpected == Spec => []JoinExpectationsHold
  <1>1. HoldInv => JoinExpectationsHold
    <2> SUFFICES ASSUME HoldInv, AllStopped, ~Panicked
                 PROVE  ~poisoned /\ (failure # NoFailure \/ phase = "finished")
      BY DEF JoinExpectationsHold
    <2>1. \A w \in Workers : pc[w] = "returned"
      BY DEF AllStopped, Panicked
    <2>2. ~poisoned
      BY <2>1 DEF HoldInv, CausesInv
    <2>3. PICK w \in Workers : TRUE
      BY WorkersAssumption
    <2> QED
      BY <2>1, <2>2, <2>3 DEF HoldInv, CausesInv, LeftInv
  <1> QED
    BY <1>1, HoldInvariance, PTL
-----------------------------------------------------------------------------
(* What a failure says. *)

\* Place k is in a hand or among the results.
Owned(k, h, m) ==
  \/ \E w \in Workers : h[w] # NoShard /\ h[w].seq = k
  \/ \E w \in Workers : \E r \in m[w] : r.seq = k

\* Every claimed place before the earliest failure is accounted for.
AccountedFor(c, f, h, m) ==
  \A k \in 0..(c - 1) : f = NoFailure \/ k < f.at => Owned(k, h, m)

\* The place a work failure names was claimed, and is nobody's any more; an
\* executor failure's is past every shard, all of them claimed.
FailureSpeaks(c, n, f, h, m) ==
  f # NoFailure =>
    /\ f.by = "work" => f.at < c /\ ~Owned(f.at, h, m)
    /\ f.by = "executor" => f.at = n /\ c = n

FailureInv == /\ AccountedFor(Claimed, failure, hand, mine)
              /\ FailureSpeaks(Claimed, filled, failure, hand, mine)

\* Every step keeps the failure the first in fill order among those reported.
LEMMA FailureIsKept ==
  ASSUME ExecutorTypeOK, HoldInv, PlacesInv, PoisonInv, FailureInv, [Next]_vars
  PROVE  FailureInv'
  <1>0. TypesInv /\ HandsInv
    BY DEF HoldInv
  <1>p. QueueInv /\ Owners(Claimed, hand, verdict, mine) /\ OkHasResult(hand, verdict, mine)
    BY DEF PlacesInv
  <1>f. AccountedFor(Claimed, failure, hand, mine)
        /\ FailureSpeaks(Claimed, filled, failure, hand, mine)
    BY DEF FailureInv
  <1>c. Claimed \in Nat /\ filled \in Nat /\ Claimed <= filled /\ Len(waiting) \in Nat
    BY <1>0, <1>p DEF TypesInv, QueueInv, Claimed
  <1>q. ASSUME UNCHANGED <<waiting, filled>> PROVE Claimed' = Claimed /\ filled' = filled
    BY <1>q DEF Claimed
  \* A hand that is given back empty: the places owned but for its own.
  <1>1. ASSUME NEW w \in Workers, Enter(w) PROVE FailureInv'
    <2>0. mine' = mine /\ Claimed' = Claimed /\ filled' = filled
      BY <1>1, <1>q DEF Enter
    <2>1. CASE hand[w] = NoShard
      <3>1. hand' = hand /\ failure' = failure
        BY <1>1, <2>1 DEF Enter, GiveBack
      <3> QED
        BY <1>f, <2>0, <3>1 DEF FailureInv
    <2>2. CASE hand[w] # NoShard
      <3> DEFINE s == hand[w].seq
      <3>1. s \in Nat /\ s < Claimed
        BY <1>0, <1>p, <2>2 DEF TypesInv, Placed, Owners
      <3>2. hand' = [hand EXCEPT ![w] = NoShard]
        BY <1>1, <2>2 DEF Enter, GiveBack
      <3>3. \A k \in Nat : Owned(k, hand, mine) /\ k # s => Owned(k, hand', mine)
        BY <1>0, <3>2 DEF Owned, TypesInv
      <3>4. \A k \in Nat : Owned(k, hand', mine) => Owned(k, hand, mine)
        BY <1>0, <3>2 DEF Owned, TypesInv
      <3>5. CASE verdict[w] # "err"
        <4>1. failure' = failure
          BY <1>1, <2>2, <3>5 DEF Enter, GiveBack
        <4>2. verdict[w] = "ok"
          BY <1>0, <1>1, <2>2, <3>5 DEF Enter, HandsInv, TypesInv
        <4>3. Owned(s, hand', mine)
          BY <1>p, <4>2 DEF OkHasResult, Owned
        <4>4. AccountedFor(Claimed, failure, hand', mine)
          BY <1>c, <1>f, <3>3, <4>3 DEF AccountedFor
        <4>5. FailureSpeaks(Claimed, filled, failure, hand', mine)
          BY <1>0, <1>f, <3>4 DEF FailureSpeaks, TypesInv, Failure
        <4> QED
          BY <2>0, <4>1, <4>4, <4>5 DEF FailureInv
      <3>6. CASE verdict[w] = "err"
        <4>1. failure' = IF failure = NoFailure \/ s < failure.at
                         THEN [at |-> s, by |-> "work"] ELSE failure
          BY <1>1, <2>2, <3>6 DEF Enter, GiveBack, Fail
        <4>2. ~Owned(s, hand', mine)
          <5>1. ASSUME NEW u \in Workers, hand'[u] # NoShard PROVE hand'[u].seq # s
            <6>1. u # w /\ hand'[u] = hand[u]
              BY <1>0, <3>2, <5>1 DEF TypesInv
            <6> QED
              BY <1>p, <2>2, <5>1, <6>1 DEF Owners
          <5>2. ASSUME NEW u \in Workers, NEW r \in mine[u] PROVE r.seq # s
            BY <1>p, <2>2, <3>6 DEF Owners
          <5> QED
            BY <5>1, <5>2 DEF Owned
        <4> HIDE DEF s
        <4>3. CASE failure = NoFailure \/ s < failure.at
          <5>1. /\ failure' = [at |-> s, by |-> "work"] /\ failure' # NoFailure
            BY <3>1, <4>1, <4>3, MarksAssumption DEF Failure
          <5>2. \A k \in 0..(Claimed - 1) : k < s => Owned(k, hand', mine)
            <6> SUFFICES ASSUME NEW k \in 0..(Claimed - 1), k < s PROVE Owned(k, hand', mine)
              OBVIOUS
            <6>1. k \in Nat /\ k # s
              BY <1>c, <3>1
            <6>2. failure = NoFailure \/ k < failure.at
              BY <1>0, <3>1, <4>3, <6>1 DEF TypesInv, Failure
            <6> QED
              BY <1>f, <3>3, <6>1, <6>2 DEF AccountedFor
          <5>3. AccountedFor(Claimed, failure', hand', mine)
            BY <5>1, <5>2 DEF AccountedFor
          <5>4. FailureSpeaks(Claimed, filled, failure', hand', mine)
            BY <3>1, <4>2, <5>1 DEF FailureSpeaks
          <5> QED
            BY <2>0, <5>3, <5>4 DEF FailureInv
        <4>4. CASE ~(failure = NoFailure \/ s < failure.at)
          <5>1. failure' = failure /\ failure \in Failure
            BY <1>0, <4>1, <4>4 DEF TypesInv
          <5>2. \A k \in 0..(Claimed - 1) : k < failure.at => Owned(k, hand', mine)
            <6> SUFFICES ASSUME NEW k \in 0..(Claimed - 1), k < failure.at PROVE Owned(k, hand', mine)
              OBVIOUS
            <6>a. failure.at \in Nat /\ (Owned(k, hand, mine) \/ k = s)
              BY <1>f, <5>1 DEF AccountedFor, Failure
            <6>1. CASE k # s
              BY <1>c, <1>f, <3>3, <6>1, <6>a
            <6>2. CASE k = s
              <7>1. failure.at \in Nat /\ failure.at <= s
                BY <3>1, <4>4, <5>1 DEF Failure
              <7>2. FailureSpeaks(Claimed, filled, failure, hand, mine) /\ k < failure.at /\ k \in Nat
                BY <1>c, <1>f
              <7> QED
                BY <3>1, <4>4, <6>2, <7>1, <7>2
            <6> QED
              BY <6>1, <6>2
          <5>3. AccountedFor(Claimed, failure', hand', mine)
            BY <4>4, <5>1, <5>2 DEF AccountedFor
          <5>4. FailureSpeaks(Claimed, filled, failure', hand', mine)
            BY <1>f, <3>4, <5>1 DEF FailureSpeaks, Failure
          <5> QED
            BY <2>0, <5>3, <5>4 DEF FailureInv
        <4> QED
          BY <4>3, <4>4
      <3> QED
        BY <3>5, <3>6
    <2> QED
      BY <2>1, <2>2
  <1>2. ASSUME NEW w \in Workers, Claim(w) PROVE FailureInv'
    <2>1. /\ ~stop /\ waiting # <<>> /\ waiting' = Tail(waiting) /\ filled' = filled
          /\ hand' = [hand EXCEPT ![w] = Head(waiting)] /\ failure' = failure
          /\ mine' = mine /\ hand[w] = NoShard
      BY <1>0, <1>2 DEF Claim, HandsInv
    <2>2. failure = NoFailure
      BY <2>1 DEF HoldInv, CausesInv
    <2>3. Head(waiting) \in Placed /\ Head(waiting).seq = Claimed
      <3>1. waiting \in Seq(Placed) /\ 1 \in 1..Len(waiting) /\ Head(waiting) = waiting[1]
        BY <1>0, <2>1 DEF TypesInv
      <3>2. waiting[1].seq = Claimed + 1 - 1
        BY <1>p, <3>1 DEF QueueInv
      <3> QED
        BY <1>c, <3>1, <3>2
    <2>4. Claimed' = Claimed + 1
      <3>1. Len(waiting') = Len(waiting) - 1
        BY <1>0, <2>1 DEF TypesInv
      <3> QED
        BY <1>c, <2>1, <3>1 DEF Claimed
    <2>5. \A k \in Nat : Owned(k, hand, mine) => Owned(k, hand', mine)
      BY <1>0, <2>1 DEF Owned, TypesInv
    <2>6. Owned(Claimed, hand', mine)
      <3>1. hand'[w] = Head(waiting) /\ hand'[w] # NoShard
        BY <1>0, <2>1, <2>3, MarksAssumption DEF TypesInv
      <3> QED
        BY <2>3, <3>1 DEF Owned
    <2>7. \A k \in 0..Claimed : k = Claimed \/ k \in 0..(Claimed - 1)
      BY <1>c
    <2>8. \A k \in 0..Claimed : Owned(k, hand', mine)
      BY <1>c, <1>f, <2>2, <2>5, <2>6, <2>7 DEF AccountedFor
    <2> DEFINE c == Claimed + 1
    <2>9. \A k \in 0..(c - 1) : failure = NoFailure \/ k < failure.at => Owned(k, hand', mine)
      <3>1. c - 1 = Claimed
        BY <1>c
      <3> HIDE DEF c
      <3> QED
        BY <2>8, <3>1
    <2> HIDE DEF c
    <2>10. AccountedFor(c, failure, hand', mine)
      BY <2>9 DEF AccountedFor
    <2> QED
      BY <2>1, <2>2, <2>4, <2>10 DEF FailureInv, FailureSpeaks, c
  <1>3. ASSUME NEW w \in Workers, WorkOk(w) PROVE FailureInv'
    <2> DEFINE r == [seq |-> hand[w].seq, family |-> hand[w].chunk.family,
                     index |-> hand[w].chunk.index]
    <2>1. /\ mine' = [mine EXCEPT ![w] = @ \cup {r}]
          /\ hand' = hand /\ failure' = failure /\ UNCHANGED <<waiting, filled>>
          /\ hand[w] # NoShard
      BY <1>0, <1>3 DEF WorkOk, HandsInv, sourceVars
    <2>2. r.seq = hand[w].seq
      OBVIOUS
    <2> HIDE DEF r
    <2>3. mine'[w] = mine[w] \cup {r} /\ \A u \in Workers \ {w} : mine'[u] = mine[u]
      BY <1>0, <2>1 DEF TypesInv
    <2>4. \A k : Owned(k, hand, mine') <=> Owned(k, hand, mine)
      BY <2>1, <2>2, <2>3 DEF Owned
    <2>5. AccountedFor(Claimed, failure, hand, mine')
      BY <1>f, <2>4 DEF AccountedFor
    <2>6. FailureSpeaks(Claimed, filled, failure, hand, mine')
      BY <1>f, <2>4 DEF FailureSpeaks
    <2> QED
      BY <1>q, <2>1, <2>5, <2>6 DEF FailureInv
  <1>4. ASSUME UNCHANGED <<hand, mine, failure>>, Claimed' = Claimed, filled' = filled
        PROVE  FailureInv'
    BY <1>4, <1>f DEF FailureInv
  <1>5. ASSUME NEW w \in Workers,
               FindPoison(w) \/ Unwind(w) \/ Leave(w) \/ DrivePanics(w) \/ WorkFails(w) \/ WorkPanics(w)
        PROVE FailureInv'
    BY <1>4, <1>5, <1>q
    DEF FindPoison, Unwind, Leave, DrivePanics, WorkFails, WorkPanics, sourceVars
  \* The executor is stepped only while there is no failure and all is claimed.
  <1>6. ASSUME NEW w \in Workers, MayDrive(w) PROVE failure = NoFailure /\ Claimed = filled
    BY <1>6, <1>c DEF MayDrive, HoldInv, CausesInv, Claimed
  <1>7. ASSUME NEW w \in Workers, MayDrive(w), Fail(filled, "executor"),
               UNCHANGED <<hand, mine, waiting, filled>>
        PROVE  FailureInv'
    <2>1. failure' = [at |-> filled, by |-> "executor"]
      BY <1>6, <1>7 DEF Fail
    <2>2. Claimed' = Claimed /\ Claimed = filled /\ filled' = filled
      BY <1>6, <1>7, <1>q
    <2> QED
      BY <1>6, <1>7, <1>f, <2>1, <2>2 DEF FailureInv, AccountedFor, FailureSpeaks
  <1>8. ASSUME NEW w \in Workers, MayDrive(w), Admit(ready), UNCHANGED <<hand, mine, failure>>
        PROVE  FailureInv'
    <2>1. failure' = NoFailure /\ Claimed' = Claimed
      <3>1. ready \in Seq(Chunk)
        BY DEF ExecutorTypeOK
      <3> DEFINE n == Len(ready)
                 b == [i \in 1..n |-> [seq |-> filled + i - 1, chunk |-> ready[i]]]
      <3>2. n \in Nat /\ filled' = filled + n /\ waiting' = waiting \o b /\ Len(waiting) = 0
            /\ waiting = <<>>
        BY <1>8, <3>1 DEF Admit, MayDrive
      <3>3. Len(waiting') = n
        <4>1. b \in Seq({b[i] : i \in 1..n}) /\ Len(b) = n
          BY <3>2
        <4> HIDE DEF b
        <4> QED
          BY <3>2, <4>1
      <3> HIDE DEF n
      <3> QED
        BY <1>6, <1>8, <1>c, <3>2, <3>3 DEF Claimed
    <2>2. AccountedFor(Claimed', failure', hand', mine')
      BY <1>6, <1>8, <1>f, <2>1 DEF AccountedFor
    <2> QED
      BY <2>1, <2>2 DEF FailureInv, FailureSpeaks
  <1>9. ASSUME NEW w \in Workers,
               DriveStep(w) \/ DriveHandOver(w) \/ DriveFlush(w) \/ DriveFinish(w)
        PROVE  FailureInv'
    <2>1. MayDrive(w) /\ UNCHANGED <<hand, mine>>
      BY <1>9 DEF DriveStep, DriveHandOver, DriveFlush, DriveFinish, workerVars
    <2>2. \/ Fail(filled, "executor") /\ UNCHANGED <<waiting, filled>>
          \/ Admit(ready) /\ UNCHANGED failure
          \/ UNCHANGED <<waiting, filled, failure>>
      BY <1>9 DEF DriveStep, DriveHandOver, DriveFlush, DriveFinish, sourceVars
    <2> QED
      BY <1>4, <1>7, <1>8, <1>q, <2>1, <2>2
  <1>10. ASSUME Join \/ Answered \/ UNCHANGED vars PROVE FailureInv'
    BY <1>4, <1>10, <1>q DEF Join, Answered, vars, workerVars, sourceVars
  <1> QED
    BY <1>1, <1>2, <1>3, <1>5, <1>9, <1>10 DEF Next, TakeLock, HoldLock, Drive, Work

\* Every claimed shard before the recorded failure is accounted for, and every
\* failed shard is recorded or still in its worker's hand (Source::fail).
THEOREM FailureInvariance == Spec => []FailureInv
  <1>1. Init => FailureInv
    <2> SUFFICES ASSUME Init PROVE FailureInv
      OBVIOUS
    <2>1. failure = NoFailure /\ filled = 0 /\ Len(waiting) = 0
      BY DEF Init
    <2>2. Claimed = 0
      BY <2>1 DEF Claimed
    <2>3. 0..(Claimed - 1) = {}
      BY <2>2
    <2>4. AccountedFor(Claimed, failure, hand, mine)
      BY <2>3 DEF AccountedFor
    <2> QED
      BY <2>1, <2>4 DEF FailureInv, FailureSpeaks
  <1> QED
    BY <1>1, FailureIsKept, HoldInvariance, PlacesInvariance, PoisonInvariance, PTL DEF Spec
-----------------------------------------------------------------------------
(* The answer. *)

\* An answer is given once every worker has stopped, and for a reason.
AnswerInv ==
  /\ answer # Running => AllStopped
  /\ answer \in Failure => answer = failure /\ ~Panicked
  /\ answer = Done => failure = NoFailure /\ ~Panicked

\* Every step keeps the answer in agreement with panics and the failure.
LEMMA AnswerIsKept ==
  ASSUME HoldInv, AnswerInv, [Next]_vars
  PROVE  AnswerInv'
  <1>0. TypesInv /\ HandsInv
    BY DEF HoldInv
  \* Stopped workers take no step.
  <1>1. ASSUME NEW w \in Workers, TakeLock(w) \/ HoldLock(w) \/ Work(w)
        PROVE  ~AllStopped
    <2>1. CASE TakeLock(w)
      BY <2>1 DEF TakeLock, Enter, FindPoison, Unwind, AllStopped
    <2>2. CASE HoldLock(w)
      <3>1. lock = w
        BY <2>2 DEF HoldLock, Leave, Claim, Drive, DriveStep, DriveHandOver, DriveFlush,
                    DriveFinish, DrivePanics, MayDrive
      <3>2. pc[w] = "locked"
        BY <1>0, <3>1 DEF HandsInv
      <3> QED
        BY <3>2 DEF AllStopped
    <2>3. CASE Work(w)
      BY <2>3 DEF Work, WorkOk, WorkFails, WorkPanics, AllStopped
    <2> QED
      BY <1>1, <2>1, <2>2, <2>3
  <1>2. ASSUME NEW w \in Workers, TakeLock(w) \/ HoldLock(w) \/ Work(w)
        PROVE  UNCHANGED answer
    BY <1>2 DEF TakeLock, Enter, FindPoison, Unwind, HoldLock, Leave, Claim, Drive, DriveStep,
                DriveHandOver, DriveFlush, DriveFinish, DrivePanics, Work, WorkOk, WorkFails, WorkPanics
  <1>3. ASSUME NEW w \in Workers, TakeLock(w) \/ HoldLock(w) \/ Work(w)
        PROVE  AnswerInv'
    <2>1. answer' = Running
      BY <1>1, <1>2, <1>3 DEF AnswerInv
    <2> QED
      BY <2>1, MarksAssumption DEF AnswerInv
  <1>4. CASE Join
    <2>1. /\ AllStopped' = AllStopped /\ Panicked' = Panicked /\ failure' = failure
          /\ AllStopped
          /\ answer' = IF Panicked THEN Reraised ELSE IF failure # NoFailure THEN failure ELSE Done
      BY <1>4 DEF Join, sourceVars, workerVars, AllStopped, Panicked
    <2>2. Reraised \notin Failure /\ Reraised # Done /\ Done \notin Failure
      BY MarksAssumption
    <2>3. failure # NoFailure => failure \in Failure
      BY <1>0 DEF TypesInv
    <2> QED
      BY <2>1, <2>2, <2>3 DEF AnswerInv
  <1>5. CASE Answered \/ UNCHANGED vars
    BY <1>5 DEF Answered, vars, sourceVars, workerVars, AnswerInv, AllStopped, Panicked
  <1> QED
    BY <1>3, <1>4, <1>5 DEF Next

\* What pipeline answers: a panic if a worker panicked, else the failure if one is
\* recorded, else results.
THEOREM AnswerInvariance == Spec => []AnswerInv
  <1>1. Init => AnswerInv
    BY MarksAssumption DEF Init, AnswerInv
  <1> QED
    BY <1>1, AnswerIsKept, HoldInvariance, PTL DEF Spec

\* With every worker gone and none in panic, no hand holds a shard.
LEMMA HandsAreEmptyAtTheEnd ==
  ASSUME HoldInv, AllStopped, ~Panicked
  PROVE  /\ ~poisoned /\ \A w \in Workers : hand[w] = NoShard /\ pc[w] = "returned"
         /\ failure = NoFailure => waiting = <<>> /\ phase = "finished"
  <1>1. \A w \in Workers : pc[w] = "returned"
    BY DEF AllStopped, Panicked
  <1>2. ~poisoned
    BY <1>1 DEF HoldInv, CausesInv
  <1>3. \A w \in Workers : hand[w] = NoShard
    BY <1>1, <1>2 DEF HoldInv, HandsInv
  <1>4. PICK w \in Workers : TRUE
    BY WorkersAssumption
  <1>5. failure = NoFailure => ~stop
    BY <1>1 DEF HoldInv, CausesInv
  <1> QED
    BY <1>1, <1>2, <1>3, <1>4, <1>5 DEF HoldInv, LeftInv

\* A shard whose work succeeded and which no hand holds has its result with a worker.
LEMMA SucceededIsOwned ==
  ASSUME NEW k, \A w \in Workers : hand[w] = NoShard
  PROVE  Owned(k, hand, mine) <=> k \in Succeeded
  <1>1. k \in Succeeded <=> \E w \in Workers : \E r \in mine[w] : r.seq = k
    BY DEF Succeeded, Results
  <1> QED
    BY <1>1 DEF Owned

\* The failure returned is the one a single worker would have met, at any
\* worker count and whatever the schedule (streaming.md section 5).
THEOREM TheFirstFailureIsReturned == Spec => []FirstFailureIsReturned
  <1>1. HoldInv /\ PlacesInv /\ FailureInv /\ AnswerInv => FirstFailureIsReturned
    <2> SUFFICES ASSUME HoldInv, PlacesInv, FailureInv, AnswerInv, answer \in Failure
                 PROVE  /\ \A k \in 0..(answer.at - 1) : k \in Succeeded
                        /\ answer.by = "executor" => answer.at = filled
                        /\ answer.by = "work" => answer.at < Claimed /\ answer.at \notin Succeeded
      BY DEF FirstFailureIsReturned
    <2>1. answer = failure /\ failure # NoFailure /\ AllStopped /\ ~Panicked
      BY MarksAssumption DEF AnswerInv
    <2>2. \A w \in Workers : hand[w] = NoShard
      BY <2>1, HandsAreEmptyAtTheEnd
    <2>3. FailureSpeaks(Claimed, filled, failure, hand, mine)
          /\ AccountedFor(Claimed, failure, hand, mine)
      BY DEF FailureInv
    <2>4. failure \in Failure /\ failure.at \in Nat /\ failure.by \in {"work", "executor"}
      BY <2>1 DEF Failure
    <2>5. Claimed \in Nat /\ filled \in Nat
      BY DEF HoldInv, TypesInv, PlacesInv, QueueInv, Claimed
    <2>6. failure.at <= Claimed
      BY <2>1, <2>3, <2>4, <2>5 DEF FailureSpeaks
    <2>7. ASSUME NEW k \in 0..(failure.at - 1) PROVE k \in Succeeded
      <3>1. k \in 0..(Claimed - 1) /\ k < failure.at
        BY <2>4, <2>5, <2>6
      <3> QED
        BY <2>2, <2>3, <3>1, SucceededIsOwned DEF AccountedFor
    <2>8. failure.at \in Succeeded <=> Owned(failure.at, hand, mine)
      BY <2>2, SucceededIsOwned
    <2> QED
      BY <2>1, <2>3, <2>7, <2>8 DEF FailureSpeaks
  <1> QED
    BY <1>1, HoldInvariance, PlacesInvariance, FailureInvariance, AnswerInvariance, PTL
-----------------------------------------------------------------------------
(* Places are positions of the execution. *)

\* Place k is the shard the executor handed over as its k + 1st, wherever it
\* has got to: the queue, a hand or the results.
LinkInv ==
  /\ Len(handed) = filled
  /\ \A i \in 1..Len(waiting) : waiting[i].chunk = handed[waiting[i].seq + 1]
  /\ \A w \in Workers : hand[w] # NoShard => hand[w].chunk = handed[hand[w].seq + 1]
  /\ \A w \in Workers : \A r \in mine[w] :
       handed[r.seq + 1].family = r.family /\ handed[r.seq + 1].index = r.index

\* Every step keeps places, waiting shards and results those of the shards the
\* executor handed over.
LEMMA LinkIsKept ==
  ASSUME ExecutorTypeOK, HoldInv, PlacesInv, LinkInv, [Next]_vars
  PROVE  LinkInv'
  <1>0. TypesInv /\ HandsInv
    BY DEF HoldInv
  <1>p. QueueInv /\ Owners(Claimed, hand, verdict, mine)
    BY DEF PlacesInv
  <1>h. handed \in Seq(Chunk) /\ ready \in Seq(Chunk) /\ waiting \in Seq(Placed) /\ filled \in Nat
    BY <1>0 DEF ExecutorTypeOK, TypesInv
  <1>c. Claimed \in Nat /\ Claimed <= filled /\ Len(waiting) \in Nat /\ Claimed = filled - Len(waiting)
    BY <1>0, <1>p DEF TypesInv, QueueInv, Claimed
  <1>l. Len(handed) = filled
    BY DEF LinkInv
  <1>1. ASSUME NEW w \in Workers, Enter(w) PROVE LinkInv'
    <2>1. /\ hand' = [hand EXCEPT ![w] = NoShard]
          /\ UNCHANGED <<handed, waiting, filled, mine>>
      BY <1>0, <1>1 DEF Enter, GiveBack, HandsInv, TypesInv, executorVars
    <2>2. \A u \in Workers : hand'[u] # NoShard => hand'[u] = hand[u]
      BY <1>0, <2>1 DEF TypesInv
    <2> QED
      BY <2>1, <2>2 DEF LinkInv
  <1>2. ASSUME NEW w \in Workers, Claim(w) PROVE LinkInv'
    <2>1. /\ waiting # <<>> /\ waiting' = Tail(waiting)
          /\ hand' = [hand EXCEPT ![w] = Head(waiting)]
          /\ UNCHANGED <<handed, filled, mine>>
      BY <1>2 DEF Claim, executorVars
    <2>2. /\ 1 \in 1..Len(waiting) /\ Head(waiting) = waiting[1]
          /\ \A i \in 1..Len(waiting') : i + 1 \in 1..Len(waiting) /\ waiting'[i] = waiting[i + 1]
      BY <1>h, <2>1
    <2>3. hand'[w] = waiting[1] /\ \A u \in Workers \ {w} : hand'[u] = hand[u]
      BY <1>0, <2>1, <2>2 DEF TypesInv
    <2>4. \A i \in 1..Len(waiting') : waiting'[i].chunk = handed[waiting'[i].seq + 1]
      BY <2>2 DEF LinkInv
    <2>5. \A u \in Workers : hand'[u] # NoShard => hand'[u].chunk = handed[hand'[u].seq + 1]
      BY <2>2, <2>3 DEF LinkInv
    <2> QED
      BY <2>1, <2>4, <2>5 DEF LinkInv
  <1>3. ASSUME NEW w \in Workers, WorkOk(w) PROVE LinkInv'
    <2> DEFINE r == [seq |-> hand[w].seq, family |-> hand[w].chunk.family,
                     index |-> hand[w].chunk.index]
    <2>1. /\ mine' = [mine EXCEPT ![w] = @ \cup {r}]
          /\ UNCHANGED <<hand, handed, waiting, filled>> /\ hand[w] # NoShard
      BY <1>0, <1>3 DEF WorkOk, HandsInv, sourceVars, executorVars
    <2>2. handed[r.seq + 1].family = r.family /\ handed[r.seq + 1].index = r.index
      BY <2>1 DEF LinkInv
    <2> HIDE DEF r
    <2>3. \A u \in Workers : \A q \in mine'[u] : q \in mine[u] \/ q = r
      BY <1>0, <2>1 DEF TypesInv
    <2>4. \A u \in Workers : \A q \in mine'[u] :
            handed[q.seq + 1].family = q.family /\ handed[q.seq + 1].index = q.index
      BY <2>2, <2>3 DEF LinkInv
    <2> QED
      BY <2>1, <2>4 DEF LinkInv
  <1>4. ASSUME UNCHANGED <<handed, hand, mine, waiting, filled>> PROVE LinkInv'
    BY <1>4 DEF LinkInv
  <1>5. ASSUME NEW w \in Workers,
               FindPoison(w) \/ Unwind(w) \/ Leave(w) \/ DrivePanics(w) \/ WorkFails(w) \/ WorkPanics(w)
        PROVE LinkInv'
    BY <1>4, <1>5
    DEF FindPoison, Unwind, Leave, DrivePanics, WorkFails, WorkPanics, sourceVars, executorVars
  <1>6. ASSUME Admit(ready), handed' = handed \o ready, UNCHANGED <<hand, mine>>
        PROVE  LinkInv'
    <2> DEFINE n == Len(ready)
               l == Len(waiting)
               b == [i \in 1..n |-> [seq |-> filled + i - 1, chunk |-> ready[i]]]
    <2>1. n \in Nat /\ l \in Nat /\ filled' = filled + n /\ waiting' = waiting \o b
      BY <1>c, <1>h, <1>6 DEF Admit
    <2>2. \A i \in 1..n : b[i].seq = filled + i - 1 /\ b[i].chunk = ready[i]
      OBVIOUS
    <2>3. b \in Seq(Placed) /\ Len(b) = n
      <3>1. \A i \in 1..n : filled + i - 1 \in Nat /\ ready[i] \in Chunk
        BY <1>h, <2>1
      <3> QED
        BY <2>1, <3>1 DEF Placed
    <2> HIDE DEF b
    <2>4. /\ Len(handed') = filled'
          /\ \A k \in 1..filled : handed'[k] = handed[k]
          /\ \A k \in 1..n : handed'[filled + k] = ready[k]
      <3>1. /\ Len(handed \o ready) = Len(handed) + Len(ready)
            /\ \A k \in 1..Len(handed) : (handed \o ready)[k] = handed[k]
            /\ \A k \in 1..Len(ready) : (handed \o ready)[Len(handed) + k] = ready[k]
        BY <1>h
      <3> QED
        BY <1>l, <1>6, <2>1, <3>1
    <2>5. ASSUME NEW i \in 1..Len(waiting')
          PROVE  waiting'[i].chunk = handed'[waiting'[i].seq + 1]
      <3>0. Len(waiting') = l + n
        <4>1. Len(waiting \o b) = Len(waiting) + Len(b)
          <5>1. waiting \in Seq(Placed) /\ b \in Seq(Placed)
            BY <1>h, <2>3
          <5> QED
            BY <5>1
        <4> QED
          BY <2>1, <2>3, <4>1
      <3>1. CASE i \in 1..l
        <4>1. waiting'[i] = waiting[i]
          BY <1>h, <2>1, <2>3, <3>1
        <4>2. waiting[i].seq = Claimed + i - 1
          BY <1>p, <3>1 DEF QueueInv
        <4>3. waiting[i].seq + 1 \in 1..filled
          <5>1. i \in Int /\ 1 <= i /\ i <= l /\ Claimed = filled - l
            BY <1>c, <2>1, <3>1
          <5> HIDE DEF l
          <5> QED
            BY <1>c, <1>h, <2>1, <4>2, <5>1
        <4> QED
          BY <2>4, <3>1, <4>1, <4>3 DEF LinkInv
      <3>2. CASE i \notin 1..l
        <4>1. i - l \in 1..n /\ i = l + (i - l)
          <5> HIDE DEF l, n
          <5> QED
            BY <2>1, <2>5, <3>0, <3>2
        <4>2. waiting'[i] = b[i - l]
          BY <1>h, <2>1, <2>3, <4>1
        <4>3. waiting'[i].seq + 1 = filled + (i - l) /\ waiting'[i].chunk = ready[i - l]
          <5>1. b[i - l].seq = filled + (i - l) - 1 /\ b[i - l].chunk = ready[i - l]
            BY <2>2, <4>1
          <5>2. i - l \in Int
            BY <4>1
          <5> HIDE DEF l
          <5> QED
            BY <1>h, <4>2, <5>1, <5>2
        <4> QED
          BY <2>4, <4>1, <4>3
      <3> QED
        BY <3>1, <3>2
    <2>6. ASSUME NEW w \in Workers, hand[w] # NoShard
          PROVE  hand[w].chunk = handed'[hand[w].seq + 1]
      <3>1. hand[w].seq \in Nat /\ hand[w].seq < Claimed
        BY <1>0, <1>p, <2>6 DEF TypesInv, Placed, Owners
      <3>2. hand[w].seq + 1 \in 1..filled
        BY <1>c, <1>h, <3>1
      <3> QED
        BY <2>4, <2>6, <3>2 DEF LinkInv
    <2>7. ASSUME NEW w \in Workers, NEW r \in mine[w]
          PROVE  handed'[r.seq + 1].family = r.family /\ handed'[r.seq + 1].index = r.index
      <3>1. r.seq \in Nat /\ r.seq < Claimed
        BY <1>0, <1>p DEF TypesInv, Result, Owners
      <3>2. r.seq + 1 \in 1..filled
        BY <1>c, <1>h, <3>1
      <3> QED
        BY <2>4, <3>2 DEF LinkInv
    <2> QED
      BY <1>6, <2>4, <2>5, <2>6, <2>7 DEF LinkInv
  <1>7. ASSUME NEW w \in Workers,
               DriveStep(w) \/ DriveHandOver(w) \/ DriveFlush(w) \/ DriveFinish(w)
        PROVE  LinkInv'
    <2>1. UNCHANGED <<hand, mine>>
      BY <1>7 DEF DriveStep, DriveHandOver, DriveFlush, DriveFinish, workerVars
    <2>2. DriveStep(w) => UNCHANGED <<handed, waiting, filled>>
      BY DEF DriveStep, Step, StepCycle, StepDelegation, StepExit, StepFails, Commit
    <2>3. DriveFlush(w) => UNCHANGED <<handed, waiting, filled>>
      BY DEF DriveFlush, BeginFinish, FlushBuffer, sourceVars
    <2>4. DriveHandOver(w) => Admit(ready) /\ handed' = handed \o ready
      BY DEF DriveHandOver, HandOver
    <2>5. DriveFinish(w) => \/ Admit(ready) /\ handed' = handed \o ready
                            \/ UNCHANGED <<handed, waiting, filled>>
      BY DEF DriveFinish, Finish
    <2> QED
      BY <1>4, <1>6, <1>7, <2>1, <2>2, <2>3, <2>4, <2>5
  <1>8. ASSUME Join \/ Answered \/ UNCHANGED vars PROVE LinkInv'
    BY <1>4, <1>8 DEF Join, Answered, vars, workerVars, sourceVars, executorVars
  <1> QED
    BY <1>1, <1>2, <1>3, <1>5, <1>7, <1>8 DEF Next, TakeLock, HoldLock, Drive, Work

\* Places, waiting shards and results are those of the shards handed over, in the
\* order the executor handed them over.
THEOREM LinkInvariance == Spec => []LinkInv
  <1>1. Init => LinkInv
    BY DEF Init, ExecutorInit, LinkInv
  <1> QED
    BY <1>1, LinkIsKept, HoldInvariance, PlacesInvariance, PTL DEF Spec

\* Results of distinct places, one for each of 0 .. n - 1, are n results.
LEMMA OneResultAPlace ==
  ASSUME NEW S, NEW n \in Nat, {r.seq : r \in S} = 0..(n - 1),
         \A r, q \in S : r.seq = q.seq => r = q
  PROVE  Cardinality(S) = n
  <1> DEFINE I == 0..(n - 1)
             g == [k \in I |-> CHOOSE r \in S : r.seq = k]
  <1>1. \A k \in I : g[k] \in S /\ g[k].seq = k
    <2> SUFFICES ASSUME NEW k \in I PROVE g[k] \in S /\ g[k].seq = k
      OBVIOUS
    <2>1. k \in {r.seq : r \in S}
      OBVIOUS
    <2>2. \E r \in S : r.seq = k
      BY <2>1
    <2> QED
      BY <2>2
  <1>2. \A r \in S : r.seq \in I
    OBVIOUS
  <1>a. g \in [I -> S] /\ \A j, k \in I : g[j] = g[k] => j = k
    BY <1>1
  <1>b. \A r \in S : \E k \in I : g[k] = r
    BY <1>1, <1>2
  <1> HIDE DEF g
  <1>3. g \in Bijection(I, S)
    BY <1>a, <1>b DEF Bijection, Injection, Surjection, IsInjective
  <1>4. ExistsBijection(I, S)
    BY <1>3 DEF ExistsBijection
  <1>5. IsFiniteSet(I) /\ Cardinality(I) = n
    <2>1. IsFiniteSet(I) /\ Cardinality(I) = IF 0 > n - 1 THEN 0 ELSE (n - 1) - 0 + 1
      BY FS_Interval
    <2> QED
      BY <2>1
  <1> QED
    BY <1>4, <1>5, FS_Bijection

\* A pipeline that returns results returns the shard plan's, each shard's once,
\* for every execution, every number of workers and every schedule.
THEOREM ResultsAreThePlan == Spec => []DoneIsThePlan
  <1>1. ExecutorInv /\ HoldInv /\ PlacesInv /\ FailureInv /\ AnswerInv /\ LinkInv => DoneIsThePlan
    <2> SUFFICES ASSUME ExecutorInv, HoldInv, PlacesInv, FailureInv, AnswerInv, LinkInv, answer = Done
                 PROVE  /\ phase = "finished"
                        /\ Succeeded = 0..(filled - 1)
                        /\ Cardinality(Results) = filled
                        /\ {<<r.family, r.index>> : r \in Results}
                             = UNION {{<<f, i>> : i \in 0..(PlanShards[f] - 1)} : f \in Families}
      BY DEF DoneIsThePlan
    <2>1. failure = NoFailure /\ AllStopped /\ ~Panicked
      BY MarksAssumption DEF AnswerInv
    <2>2. /\ \A w \in Workers : hand[w] = NoShard
          /\ waiting = <<>> /\ phase = "finished"
      BY <2>1, HandsAreEmptyAtTheEnd
    <2>3. filled \in Nat /\ Claimed = filled
      BY <2>2 DEF HoldInv, TypesInv, Claimed
    <2>4. \A k \in 0..(filled - 1) : k \in Succeeded
      BY <2>1, <2>2, <2>3, SucceededIsOwned DEF FailureInv, AccountedFor
    <2>5. \A r \in Results : /\ r \in Result /\ r.seq \in 0..(filled - 1)
                             /\ handed[r.seq + 1].family = r.family
                             /\ handed[r.seq + 1].index = r.index
      <3> SUFFICES ASSUME NEW w \in Workers, NEW r \in mine[w]
                   PROVE  /\ r \in Result /\ r.seq \in 0..(filled - 1)
                          /\ handed[r.seq + 1].family = r.family
                          /\ handed[r.seq + 1].index = r.index
        BY DEF Results
      <3>1. r \in Result /\ r.seq \in Nat
        BY DEF HoldInv, TypesInv, Result
      <3>2. r.seq < Claimed
        BY DEF PlacesInv, Owners
      <3> QED
        BY <2>3, <3>1, <3>2 DEF LinkInv
    <2>6. Succeeded = 0..(filled - 1)
      BY <2>4, <2>5 DEF Succeeded
    <2>7. \A r, q \in Results : r.seq = q.seq => r = q
      BY DEF Results, PlacesInv, Owners
    <2>8. Cardinality(Results) = filled
      BY <2>3, <2>6, <2>7, OneResultAPlace DEF Succeeded
    <2>9. Len(handed) = filled /\ handed \in Seq(Chunk)
      BY DEF LinkInv, ExecutorInv, ExecutorTypeOK
    \* Every result is the plan's.
    <2>10. ASSUME NEW r \in Results
           PROVE  r.family \in Families /\ r.index \in 0..(PlanShards[r.family] - 1)
      <3> DEFINE at == {k \in 1..Len(handed) : handed[k].family = r.family /\ handed[k].index = r.index}
      <3>1. r.family \in Families /\ r.index \in Nat /\ r.seq + 1 \in at
        <4>1. r.seq + 1 \in 1..filled
          BY <2>3, <2>5
        <4> QED
          BY <2>5, <2>9, <4>1 DEF Result
      <3>2. r.index < PlanShards[r.family]
        BY <2>2, <3>1, FinishedPlaces
      <3>3. PlanShards[r.family] \in Int
        BY <3>1, PlanIsCounted DEF ExecutorInv
      <3> QED
        BY <3>1, <3>2, <3>3
    \* Every place of the plan has a result.
    <2>11. ASSUME NEW f \in Families, NEW i \in 0..(PlanShards[f] - 1)
           PROVE  \E r \in Results : r.family = f /\ r.index = i
      <3> DEFINE at == {k \in 1..Len(handed) : handed[k].family = f /\ handed[k].index = i}
      <3>1. i \in Nat /\ i < PlanShards[f]
        BY PlanIsCounted DEF ExecutorInv
      <3>2. \E k \in at : TRUE
        BY <2>2, <3>1, FinishedPlaces
      <3>3. PICK k \in 1..Len(handed) : handed[k].family = f /\ handed[k].index = i
        BY <3>2
      <3>4. k - 1 \in 0..(filled - 1) /\ (k - 1) + 1 = k
        BY <2>3, <2>9, <3>3
      <3>5. PICK r \in Results : r.seq = k - 1
        BY <2>4, <3>4 DEF Succeeded
      <3> QED
        BY <2>5, <3>3, <3>4, <3>5
    <2>12. {<<r.family, r.index>> : r \in Results}
             = UNION {{<<f, i>> : i \in 0..(PlanShards[f] - 1)} : f \in Families}
      <3>1. ASSUME NEW x \in {<<r.family, r.index>> : r \in Results}
            PROVE  x \in UNION {{<<f, i>> : i \in 0..(PlanShards[f] - 1)} : f \in Families}
        <4>1. PICK r \in Results : x = <<r.family, r.index>>
          BY <3>1
        <4> QED
          BY <2>10, <4>1
      <3>2. ASSUME NEW x \in UNION {{<<f, i>> : i \in 0..(PlanShards[f] - 1)} : f \in Families}
            PROVE  x \in {<<r.family, r.index>> : r \in Results}
        <4>1. PICK f \in Families : \E i \in 0..(PlanShards[f] - 1) : x = <<f, i>>
          BY <3>2
        <4>2. PICK i \in 0..(PlanShards[f] - 1) : x = <<f, i>>
          BY <4>1
        <4>3. PICK r \in Results : r.family = f /\ r.index = i
          BY <2>11
        <4> QED
          BY <4>2, <4>3
      <3> QED
        BY <3>1, <3>2
    <2> QED
      BY <2>2, <2>6, <2>8, <2>12
  <1>2. Spec => []ExecutorInv
    BY PipelineRunsTheExecutor, ExecutorInvariance
  <1> QED
    BY <1>1, <1>2, HoldInvariance, PlacesInvariance, FailureInvariance, AnswerInvariance,
       LinkInvariance, PTL

-----------------------------------------------------------------------------
(* The queue the pipeline implements. *)

\* A worker that unwinds with the lock whole holds the shard whose work
\* panicked; one that found the lock poisoned had worked the shard it holds; and
\* the executor has failed exactly when that was reported.
LeaversInv ==
  /\ \A w \in Workers : pc[w] \in {"unwind", "panicked"} /\ ~poisoned => hand[w] # NoShard
  /\ \A w \in Workers : pc[w] = "returned" /\ hand[w] # NoShard => verdict[w] # "none"
  /\ phase = "failed" => stop
  /\ failure # NoFailure /\ failure.by = "executor" => phase = "failed"

\* Every step keeps what a worker leaves with.
LEMMA LeaversAreKept ==
  ASSUME ExecutorTypeOK, HoldInv, LeaversInv, [Next]_vars
  PROVE  LeaversInv'
  <1>0. TypesInv /\ HandsInv /\ \A w \in Workers : w # NoWorker
    BY WorkersAssumption DEF HoldInv
  <1>f. ASSUME NEW at \in Nat, NEW by \in {"work", "executor"}, Fail(at, by)
        PROVE  /\ stop'
               /\ failure' \in {failure, [at |-> at, by |-> by]}
    BY <1>f DEF Fail
  <1>1. ASSUME NEW w \in Workers, Enter(w) PROVE LeaversInv'
    <2>1. /\ \A v \in Workers : v # w => /\ pc'[v] = pc[v] /\ hand'[v] = hand[v]
                                         /\ verdict'[v] = verdict[v]
          /\ pc'[w] = "locked" /\ UNCHANGED <<phase, poisoned>>
      BY <1>0, <1>1 DEF Enter, GiveBack, TypesInv, executorVars
    <2>2. /\ phase' = "failed" => stop'
          /\ failure' # NoFailure /\ failure'.by = "executor" => phase' = "failed"
      <3>1. CASE hand[w] = NoShard \/ verdict[w] # "err"
        BY <2>1, <1>1, <3>1 DEF Enter, GiveBack, LeaversInv
      <3>2. CASE hand[w] # NoShard /\ verdict[w] = "err"
        <4>1. hand[w].seq \in Nat /\ Fail(hand[w].seq, "work")
          BY <1>0, <1>1, <3>2 DEF Enter, GiveBack, TypesInv, Placed
        <4>2. stop' /\ failure' \in {failure, [at |-> hand[w].seq, by |-> "work"]}
          BY <1>f, <4>1
        <4> QED
          BY <2>1, <4>2 DEF LeaversInv
      <3> QED
        BY <3>1, <3>2
    <2> QED
      BY <2>1, <2>2 DEF LeaversInv
  <1>2. ASSUME NEW w \in Workers, FindPoison(w) PROVE LeaversInv'
    <2>1. /\ \A v \in Workers : v # w => pc'[v] = pc[v]
          /\ pc[w] = "claim" /\ pc'[w] = "returned"
          /\ UNCHANGED <<phase, poisoned, hand, verdict, stop, failure>>
      BY <1>0, <1>2 DEF FindPoison, TypesInv, executorVars, sourceVars
    <2>2. hand[w] # NoShard => verdict[w] # "none"
      BY <1>0, <2>1 DEF HandsInv
    <2> QED
      BY <2>1, <2>2 DEF LeaversInv
  <1>3. ASSUME NEW w \in Workers, Unwind(w) PROVE LeaversInv'
    <2>1. /\ \A v \in Workers : v # w => pc'[v] = pc[v]
          /\ pc[w] = "unwind" /\ pc'[w] = "panicked" /\ (stop => stop')
          /\ UNCHANGED <<phase, poisoned, hand, verdict, failure>>
      BY <1>0, <1>3 DEF Unwind, TypesInv, executorVars
    <2> QED
      BY <2>1 DEF LeaversInv
  <1>4. ASSUME NEW w \in Workers, Leave(w) PROVE LeaversInv'
    <2>1. /\ \A v \in Workers : v # w => pc'[v] = pc[v]
          /\ pc[w] = "locked" /\ pc'[w] = "returned"
          /\ UNCHANGED <<phase, poisoned, hand, verdict, stop, failure>>
      BY <1>0, <1>4 DEF Leave, Release, TypesInv, HandsInv, executorVars, sourceVars
    <2>2. hand[w] = NoShard
      BY <1>0, <2>1 DEF HandsInv
    <2> QED
      BY <2>1, <2>2 DEF LeaversInv
  <1>5. ASSUME NEW w \in Workers, Claim(w) PROVE LeaversInv'
    <2>1. /\ \A v \in Workers : v # w => pc'[v] = pc[v] /\ hand'[v] = hand[v]
          /\ pc'[w] = "work"
          /\ UNCHANGED <<phase, poisoned, verdict, stop, failure>>
      BY <1>0, <1>5 DEF Claim, Release, TypesInv, executorVars
    <2> QED
      BY <2>1 DEF LeaversInv
  <1>6. ASSUME NEW w \in Workers, DriveStep(w) \/ DriveHandOver(w) \/ DriveFlush(w) \/ DriveFinish(w)
        PROVE  LeaversInv'
    <2>1. UNCHANGED <<pc, poisoned, hand, verdict>>
      BY <1>6 DEF DriveStep, DriveHandOver, DriveFlush, DriveFinish, workerVars
    <2>2. phase # "failed" /\ ~stop
      BY <1>6 DEF DriveStep, DriveHandOver, DriveFlush, DriveFinish, MayDrive, Step, StepCycle,
                  StepDelegation, StepExit, StepFails, MayStep, HandOver, BeginFinish, FlushBuffer,
                  Finish
    <2>3. failure = NoFailure
      BY <2>2 DEF HoldInv, CausesInv
    <2>4. \/ phase' = "failed" /\ Fail(filled, "executor")
          \/ phase' # "failed" /\ UNCHANGED <<failure, stop>>
      <3>1. CASE DriveStep(w) \/ DriveFinish(w)
        BY <3>1 DEF DriveStep, DriveFinish
      <3>2. CASE DriveHandOver(w)
        BY <2>2, <3>2 DEF DriveHandOver, HandOver
      <3>3. CASE DriveFlush(w)
        BY <2>2, <3>3 DEF DriveFlush, BeginFinish, FlushBuffer, sourceVars
      <3> QED
        BY <1>6, <3>1, <3>2, <3>3
    <2>5. /\ phase' = "failed" => stop'
          /\ failure' # NoFailure => phase' = "failed"
      <3>1. filled \in Nat
        BY <1>0 DEF TypesInv
      <3> QED
        BY <1>f, <2>3, <2>4, <3>1
    <2> QED
      BY <2>1, <2>5 DEF LeaversInv
  <1>7. ASSUME NEW w \in Workers, DrivePanics(w) PROVE LeaversInv'
    <2>1. /\ \A v \in Workers : v # w => pc'[v] = pc[v]
          /\ pc'[w] = "unwind" /\ poisoned'
          /\ UNCHANGED <<phase, hand, verdict, stop, failure>>
      BY <1>0, <1>7 DEF DrivePanics, Release, TypesInv, executorVars, sourceVars
    <2> QED
      BY <2>1 DEF LeaversInv
  <1>8. ASSUME NEW w \in Workers, Work(w) PROVE LeaversInv'
    <2>1. /\ \A v \in Workers : v # w => pc'[v] = pc[v] /\ verdict'[v] = verdict[v]
          /\ pc[w] = "work" /\ pc'[w] \in {"claim", "unwind"}
          /\ UNCHANGED <<phase, poisoned, hand, stop, failure>>
      BY <1>0, <1>8 DEF Work, WorkOk, WorkFails, WorkPanics, TypesInv, executorVars, sourceVars
    <2>2. hand[w] # NoShard
      BY <1>0, <2>1 DEF HandsInv
    <2> QED
      BY <2>1, <2>2 DEF LeaversInv
  <1>9. ASSUME Join \/ Answered \/ UNCHANGED vars PROVE LeaversInv'
    BY <1>9 DEF Join, Answered, vars, executorVars, workerVars, sourceVars, LeaversInv
  <1> QED
    BY <1>1, <1>2, <1>3, <1>4, <1>5, <1>6, <1>7, <1>8, <1>9 DEF Next, TakeLock, HoldLock, Drive

\* What a worker leaves with holds in every behaviour.
THEOREM LeaversInvariance == Spec => []LeaversInv
  <1>1. Init => LeaversInv
    BY MarksAssumption DEF Init, ExecutorInit, LeaversInv
  <1> QED
    BY <1>1, LeaversAreKept, HoldInvariance, PTL DEF Spec


\* An executor that panicked had neither finished nor failed.
BrokenOffInv == poisoned => phase \notin {"finished", "failed"}

\* Every step keeps a poisoned execution where it panicked.
LEMMA BrokenOffIsKept ==
  ASSUME HoldInv, PoisonInv, LeaversInv, BrokenOffInv, [Next]_vars
  PROVE  BrokenOffInv'
  <1> USE DEF BrokenOffInv
  <1>1. ASSUME NEW w \in Workers, TakeLock(w) \/ Leave(w) \/ Claim(w) \/ Work(w) PROVE BrokenOffInv'
    BY <1>1 DEF TakeLock, Enter, FindPoison, Unwind, Leave, Claim, Work, WorkOk, WorkFails,
                WorkPanics, executorVars
  <1>2. ASSUME NEW w \in Workers,
               DriveStep(w) \/ DriveHandOver(w) \/ DriveFlush(w) \/ DriveFinish(w)
        PROVE  BrokenOffInv'
    <2>1. lock = w /\ UNCHANGED poisoned
      BY <1>2 DEF DriveStep, DriveHandOver, DriveFlush, DriveFinish, MayDrive, workerVars
    <2> QED
      BY <2>1, WorkersAssumption DEF PoisonInv
  <1>3. ASSUME NEW w \in Workers, DrivePanics(w) PROVE BrokenOffInv'
    BY <1>3 DEF DrivePanics, MayDrive, LeaversInv, executorVars
  <1>4. ASSUME Join \/ Answered \/ UNCHANGED vars PROVE BrokenOffInv'
    BY <1>4 DEF Join, Answered, vars, executorVars, workerVars
  <1> QED
    BY <1>1, <1>2, <1>3, <1>4 DEF Next, HoldLock, Drive

\* A panic of the executor's ends the execution short of its end.
THEOREM BrokenOffInvariance == Spec => []BrokenOffInv
  <1>1. Init => BrokenOffInv
    BY DEF Init, BrokenOffInv
  <1> QED
    BY <1>1, BrokenOffIsKept, HoldInvariance, PoisonInvariance, LeaversInvariance, PTL DEF Spec


\* No two hands hold one place.
HandsApart == \A u, w \in InHand : hand[u].seq = hand[w].seq => u = w

\* What a worker in this state makes of the shard it holds.
Shown(p, v) ==
  IF p \in {"unwind", "panicked"} THEN "panicked" ELSE IF v = "none" THEN "working" ELSE v

\* The queue's outcome, and its source, as the refinement maps them.
Outcomes == [i \in 1..Claimed |-> OutcomeOf(i - 1)]
SourceOf == CASE poisoned             -> "panicked"
              [] phase = "finished"   -> "exited"
              [] phase = "failed"     -> "failed"
              [] OTHER                -> "running"

\* A place in hand shows its worker's state; one in no hand, whether it succeeded.
HeldShow == \A k \in Nat : \A w \in InHand :
  hand[w].seq = k => OutcomeOf(k) = Shown(pc[w], verdict[w])
FreeShow == \A k \in Nat : (\A w \in InHand : hand[w].seq # k) =>
  OutcomeOf(k) = IF k \in Succeeded THEN "ok" ELSE "err"
Shows == HeldShow /\ FreeShow

\* What OutcomeOf returns, its choice of a worker being a choice of one.
LEMMA OutcomesShow == HandsApart => Shows
  <1> SUFFICES ASSUME HandsApart PROVE Shows
    OBVIOUS
  <1>1. ASSUME NEW k \in Nat, NEW w \in InHand, hand[w].seq = k
        PROVE  OutcomeOf(k) = Shown(pc[w], verdict[w])
    <2> DEFINE c == CHOOSE v \in InHand : hand[v].seq = k
    <2>1. c = w
      <3>1. c \in InHand /\ hand[c].seq = k
        BY <1>1
      <3> QED
        BY <1>1, <3>1 DEF HandsApart
    <2>2. OutcomeOf(k) = Shown(pc[c], verdict[c])
      BY <1>1 DEF OutcomeOf, Shown
    <2> QED
      BY <2>1, <2>2
  <1>2. ASSUME NEW k \in Nat, \A w \in InHand : hand[w].seq # k
        PROVE  OutcomeOf(k) = IF k \in Succeeded THEN "ok" ELSE "err"
    BY <1>2 DEF OutcomeOf
  <1> QED
    BY <1>1, <1>2 DEF Shows, HeldShow, FreeShow

\* Owned places are apart.
LEMMA HandsAreApart == PlacesInv => HandsApart
  BY DEF PlacesInv, Owners, HandsApart, InHand

\* Before a step and after it, no place is in two hands and outcomes show.
LEMMA OutcomesShowOn ==
  ASSUME ExecutorTypeOK, HoldInv, PlacesInv, [Next]_vars
  PROVE  Shows /\ Shows' /\ PlacesInv'
  <1>1. PlacesInv'
    BY PlacesAreKept
  <1>2. HandsApart /\ HandsApart'
    BY <1>1, HandsAreApart, PTL
  <1>3. Shows /\ Shows'
    BY <1>2, OutcomesShow, PTL
  <1> QED
    BY <1>1, <1>2, <1>3

\* Outcomes rest while hands and results do, and no worker that holds a shard
\* shows anything else.
LEMMA OutcomesRest ==
  ASSUME TypesInv, Claimed \in Nat, Shows, Shows', Claimed' = Claimed, UNCHANGED <<hand, mine>>,
         \A w \in InHand : Shown(pc'[w], verdict'[w]) = Shown(pc[w], verdict[w])
  PROVE  Outcomes' = Outcomes
  <1>1. InHand' = InHand /\ Succeeded' = Succeeded
    BY DEF InHand, Succeeded, Results
  <1>2. ASSUME NEW k \in Nat PROVE OutcomeOf(k)' = OutcomeOf(k)
    <2>1. CASE \E w \in InHand : hand[w].seq = k
      <3>1. PICK w \in InHand : hand[w].seq = k
        BY <2>1
      <3>2. OutcomeOf(k)' = Shown(pc'[w], verdict'[w])
        BY <1>1, <3>1 DEF Shows, HeldShow
      <3>3. OutcomeOf(k) = Shown(pc[w], verdict[w])
        BY <3>1 DEF Shows, HeldShow
      <3> QED
        BY <3>1, <3>2, <3>3
    <2>2. CASE \A w \in InHand : hand[w].seq # k
      <3>1. OutcomeOf(k)' = IF k \in Succeeded THEN "ok" ELSE "err"
        BY <1>1, <2>2 DEF Shows, FreeShow
      <3>2. OutcomeOf(k) = IF k \in Succeeded THEN "ok" ELSE "err"
        BY <2>2 DEF Shows, FreeShow
      <3> QED
        BY <3>1, <3>2
    <2> QED
      BY <2>1, <2>2
  <1> QED
    BY <1>1, <1>2 DEF Outcomes


\* The pipeline takes no more claims.
Halted == stop \/ poisoned

\* Places whose work has not ended, and whether some shard's ended this way.
InWork == {k \in 1..Len(Outcomes) : Outcomes[k] = "working"}
WorkEnded(o) == \E k \in 1..Len(Outcomes) : Outcomes[k] = o

(* Each action of the queue, in the pipeline's terms. *)

\* A step the queue does not see.
LEMMA QueueRests ==
  ASSUME UNCHANGED <<filled, Outcomes, SourceOf, Halted, answer>>
  PROVE  UNCHANGED Queue!queueVars
  BY DEF Queue!queueVars, Outcomes, SourceOf, Halted

\* admit numbers what the executor filled.
LEMMA QueueFills ==
  ASSUME ~Halted, SourceOf = "running", Len(Outcomes) = filled, filled' > filled,
         UNCHANGED <<Outcomes, SourceOf, Halted, answer>>
  PROVE  Queue!Fill
  BY DEF Queue!Fill, Queue!Demanded, Outcomes, SourceOf, Halted

\* The guest has exited and its last shards are admitted.
LEMMA QueueExits ==
  ASSUME ~Halted, SourceOf = "running", Len(Outcomes) = filled, filled' >= filled,
         SourceOf' = "exited", UNCHANGED <<Outcomes, Halted, answer>>
  PROVE  Queue!Exit
  BY DEF Queue!Exit, Queue!Demanded, Outcomes, SourceOf, Halted

\* The executor fails or panics under the lock.
LEMMA QueueBreaks ==
  ASSUME ~Halted, SourceOf = "running", Len(Outcomes) = filled, SourceOf' \in {"failed", "panicked"},
         Halted', UNCHANGED <<filled, Outcomes, answer>>
  PROVE  Queue!Break
  BY DEF Queue!Break, Queue!Demanded, Outcomes, SourceOf, Halted

\* The instance's Cardinality is the library's.
LEMMA QueueCountsAlike ==
  ASSUME NEW S PROVE Queue!Cardinality(S) = Cardinality(S)
  BY Zenon DEF Queue!Cardinality, Cardinality

\* claim takes the shard that has waited longest.
LEMMA QueueBegins ==
  ASSUME ~Halted, Len(Outcomes) < filled, Cardinality(InWork) < Cardinality(Workers),
         Outcomes' = Append(Outcomes, "working"),
         UNCHANGED <<filled, SourceOf, Halted, answer>>
  PROVE  Queue!Begin
  <1>1. Queue!Unfinished = InWork
    BY DEF Queue!Unfinished, InWork, Outcomes
  <1>2. Queue!Cardinality(Queue!Unfinished) < Cardinality(Workers)
    BY <1>1, QueueCountsAlike
  <1> QED
    BY <1>2 DEF Queue!Begin, Outcomes, SourceOf, Halted

\* The work of a claimed shard ends.
LEMMA QueueConcludes ==
  ASSUME NEW k \in 1..Len(Outcomes), NEW o \in {"ok", "err", "panicked"},
         Outcomes[k] = "working", Outcomes' = [Outcomes EXCEPT ![k] = o],
         UNCHANGED <<filled, SourceOf, Halted, answer>>
  PROVE  Queue!Conclude
  BY DEF Queue!Conclude, Queue!Unfinished, Outcomes, SourceOf, Halted

\* A failure given back or a panic unwinding stops the claims.
LEMMA QueueStops ==
  ASSUME NEW k \in 1..Len(Outcomes), Outcomes[k] \in {"err", "panicked"}, ~Halted, Halted',
         UNCHANGED <<filled, Outcomes, SourceOf, answer>>
  PROVE  Queue!StopBeginning
  BY DEF Queue!StopBeginning, Queue!Wrong, Outcomes, SourceOf, Halted

\* pipeline answers.
LEMMA QueueTells ==
  ASSUME answer = Running, \A k \in 1..Len(Outcomes) : Outcomes[k] # "working",
         IF SourceOf = "panicked" \/ WorkEnded("panicked")
         THEN answer' = Reraised
         ELSE IF WorkEnded("err")
         THEN \E k \in 1..Len(Outcomes) :
                /\ Outcomes[k] = "err" /\ \A j \in 1..(k - 1) : Outcomes[j] = "ok"
                /\ answer' = [at |-> k - 1, by |-> "work"]
         ELSE IF SourceOf = "failed"
         THEN answer' = [at |-> filled, by |-> "executor"]
         ELSE SourceOf = "exited" /\ Len(Outcomes) = filled /\ answer' = Done,
         UNCHANGED <<filled, Outcomes, SourceOf, Halted>>
  PROVE  Queue!Tell
  BY DEF Queue!Tell, Queue!Unfinished, Queue!Wrong, WorkEnded, Outcomes, SourceOf, Halted


\* What a step is to the queue.
QueueStep == Queue!QueueNext \/ UNCHANGED Queue!queueVars

\* What the queue's steps are read from.
QueueSight ==
  /\ ExecutorTypeOK /\ HoldInv /\ CountInv /\ PlacesInv /\ PoisonInv /\ FailureInv /\ LeaversInv
  /\ BrokenOffInv

\* The claimed places are the outcomes, as many as were filled when none waits.
LEMMA OutcomesAreClaimed ==
  ASSUME TypesInv, QueueInv
  PROVE  /\ Claimed \in Nat /\ filled \in Nat /\ Claimed = filled - Len(waiting)
         /\ Len(Outcomes) = Claimed /\ Claimed <= filled
         /\ \A k \in 1..Claimed : k - 1 \in Nat /\ Outcomes[k] = OutcomeOf(k - 1)
         /\ waiting = <<>> <=> Claimed = filled
  <1>1. Len(waiting) \in Nat /\ (waiting = <<>> <=> Len(waiting) = 0)
    BY DEF TypesInv
  <1>2. Claimed \in Nat /\ filled \in Nat /\ Claimed = filled - Len(waiting)
    BY <1>1 DEF TypesInv, QueueInv, Claimed
  <1>3. Len(Outcomes) = Claimed /\ \A k \in 1..Claimed : k - 1 \in Nat /\ Outcomes[k] = OutcomeOf(k - 1)
    BY <1>2 DEF Outcomes
  <1> QED
    BY <1>1, <1>2, <1>3

\* A place in hand is an outcome.
LEMMA HeldOutcome ==
  ASSUME TypesInv, PlacesInv, Shows, NEW w \in Workers, hand[w] # NoShard
  PROVE  /\ hand[w].seq \in Nat /\ hand[w].seq + 1 \in 1..Len(Outcomes)
         /\ Outcomes[hand[w].seq + 1] = Shown(pc[w], verdict[w])
  <1>1. hand[w].seq \in Nat /\ hand[w].seq < Claimed /\ w \in InHand
    BY DEF TypesInv, Placed, PlacesInv, Owners, InHand
  <1>2. hand[w].seq + 1 \in 1..Claimed /\ (hand[w].seq + 1) - 1 = hand[w].seq
    BY <1>1, OutcomesAreClaimed DEF PlacesInv
  <1>3. Outcomes[hand[w].seq + 1] = OutcomeOf(hand[w].seq)
    BY <1>2, OutcomesAreClaimed DEF PlacesInv
  <1> QED
    BY <1>1, <1>2, <1>3, OutcomesAreClaimed DEF PlacesInv, Shows, HeldShow

\* Giving a shard back leaves its outcome; a failure given back stops the queue.
LEMMA EnterIsAQueueStep ==
  ASSUME QueueSight, [Next]_vars, NEW w \in Workers, Enter(w)
  PROVE  QueueStep
  <1>0. TypesInv /\ HandsInv /\ PlacesInv /\ QueueInv /\ Shows /\ Shows'
    BY OutcomesShowOn DEF QueueSight, HoldInv, PlacesInv
  <1>1. /\ UNCHANGED <<mine, waiting, filled, poisoned, phase, answer>>
        /\ pc[w] = "claim" /\ pc'[w] = "locked" /\ ~poisoned
        /\ \A v \in Workers : v # w => pc'[v] = pc[v]
        /\ \A v \in Workers : v # w => hand'[v] = hand[v] /\ verdict'[v] = verdict[v]
    BY <1>0 DEF Enter, GiveBack, TypesInv, executorVars
  <1>2. Claimed' = Claimed /\ Succeeded' = Succeeded /\ SourceOf' = SourceOf
    BY <1>1 DEF Claimed, Succeeded, Results, SourceOf
  <1>3. CASE hand[w] = NoShard
    <2>1. UNCHANGED <<hand, verdict, stop>>
      BY <1>3 DEF Enter, GiveBack
    <2>2. \A v \in InHand : Shown(pc'[v], verdict'[v]) = Shown(pc[v], verdict[v])
      BY <1>1, <1>3, <2>1 DEF InHand
    <2>3. Outcomes' = Outcomes
      BY <1>0, <1>1, <1>2, <2>1, <2>2, OutcomesAreClaimed, OutcomesRest
    <2>4. Halted' = Halted
      BY <1>1, <2>1 DEF Halted
    <2> QED
      BY <1>1, <1>2, <2>3, <2>4, QueueRests DEF QueueStep
  <1>4. CASE hand[w] # NoShard
    <2> DEFINE at == hand[w].seq
    <2>1. /\ hand'[w] = NoShard
          /\ IF verdict[w] = "err" THEN Fail(at, "work") ELSE UNCHANGED <<failure, stop>>
      BY <1>0, <1>4 DEF Enter, GiveBack, TypesInv
    <2>2. /\ at \in Nat /\ at + 1 \in 1..Len(Outcomes) /\ Outcomes[at + 1] = Shown(pc[w], verdict[w])
          /\ w \in InHand /\ InHand' = InHand \ {w}
      BY <1>0, <1>1, <1>4, <2>1, HeldOutcome DEF InHand
    <2>3. verdict[w] \in {"ok", "err"} /\ Outcomes[at + 1] = verdict[w]
      BY <1>0, <1>1, <1>4, <2>2 DEF HandsInv, TypesInv, Shown
    <2>4. at \in Succeeded <=> verdict[w] = "ok"
      <3>1. at \in Succeeded <=> \E u \in Workers : \E r \in mine[u] : r.seq = at
        BY DEF Succeeded, Results
      <3> QED
        BY <1>0, <1>4, <2>3, <3>1 DEF PlacesInv, Owners, OkHasResult
    <2>5. \A v \in InHand : v # w => hand[v].seq # at
      BY <1>0, <1>4 DEF PlacesInv, Owners, InHand
    <2>6. ASSUME NEW k \in Nat PROVE OutcomeOf(k)' = OutcomeOf(k)
      <3>1. CASE k = at
        <4>1. OutcomeOf(k)' = IF k \in Succeeded THEN "ok" ELSE "err"
          BY <1>0, <1>1, <1>2, <2>2, <2>5, <3>1 DEF Shows, FreeShow, InHand
        <4>2. OutcomeOf(k) = Shown(pc[w], verdict[w])
          BY <1>0, <2>2, <3>1 DEF Shows, HeldShow
        <4> QED
          BY <1>1, <2>3, <2>4, <3>1, <4>1, <4>2 DEF Shown
      <3>2. CASE \E v \in InHand : v # w /\ hand[v].seq = k
        <4>1. PICK v \in InHand : v # w /\ hand[v].seq = k
          BY <3>2
        <4>2. v \in InHand' /\ hand'[v].seq = k /\ Shown(pc'[v], verdict'[v]) = Shown(pc[v], verdict[v])
          BY <1>1, <2>2, <4>1 DEF InHand
        <4>3. OutcomeOf(k)' = Shown(pc'[v], verdict'[v])
          BY <1>0, <4>2 DEF Shows, HeldShow
        <4>4. OutcomeOf(k) = Shown(pc[v], verdict[v])
          BY <1>0, <4>1 DEF Shows, HeldShow
        <4> QED
          BY <4>2, <4>3, <4>4
      <3>3. CASE k # at /\ ~\E v \in InHand : v # w /\ hand[v].seq = k
        <4>1. /\ \A v \in InHand : hand[v].seq # k
              /\ \A v \in InHand' : hand'[v].seq # k
          BY <1>1, <2>2, <3>3 DEF InHand
        <4>2. OutcomeOf(k)' = IF k \in Succeeded THEN "ok" ELSE "err"
          BY <1>0, <1>2, <4>1 DEF Shows, FreeShow
        <4>3. OutcomeOf(k) = IF k \in Succeeded THEN "ok" ELSE "err"
          BY <1>0, <4>1 DEF Shows, FreeShow
        <4> QED
          BY <4>2, <4>3
      <3> QED
        BY <3>1, <3>2, <3>3
    <2>7. Outcomes' = Outcomes
      BY <1>0, <1>2, <2>6, OutcomesAreClaimed DEF Outcomes
    <2>8. CASE verdict[w] = "err" /\ ~stop
      <3>1. stop' /\ ~Halted /\ Halted'
        BY <1>1, <2>1, <2>8 DEF Fail, Halted
      <3>2. Queue!StopBeginning
        BY <1>1, <1>2, <2>2, <2>3, <2>7, <2>8, <3>1, QueueStops
      <3> QED
        BY <3>2 DEF QueueStep, Queue!QueueNext
    <2>9. CASE ~(verdict[w] = "err" /\ ~stop)
      <3>1. Halted' = Halted
        BY <1>1, <2>1, <2>9 DEF Fail, Halted
      <3> QED
        BY <1>1, <1>2, <2>7, <3>1, QueueRests DEF QueueStep
    <2> QED
      BY <2>8, <2>9
  <1> QED
    BY <1>3, <1>4


\* What a worker does without touching the shards is nothing to the queue, or,
\* when it unwinds from a shard, stops it.
LEMMA LeavingIsAQueueStep ==
  ASSUME QueueSight, [Next]_vars, NEW w \in Workers, FindPoison(w) \/ Unwind(w) \/ Leave(w)
  PROVE  QueueStep
  <1>0. TypesInv /\ HandsInv /\ PlacesInv /\ QueueInv /\ Shows /\ Shows' /\ LeaversInv
    BY OutcomesShowOn DEF QueueSight, HoldInv, PlacesInv
  <1>1. /\ UNCHANGED <<hand, verdict, mine, waiting, filled, poisoned, phase, answer>>
        /\ \A v \in Workers : v # w => pc'[v] = pc[v]
        /\ \/ pc[w] = "claim" /\ pc'[w] = "returned" /\ stop' = stop
           \/ pc[w] = "unwind" /\ pc'[w] = "panicked" /\ stop' = (stop \/ ~poisoned)
           \/ pc[w] = "locked" /\ pc'[w] = "returned" /\ stop' = stop
    BY <1>0 DEF FindPoison, Unwind, Leave, Release, HandsInv, TypesInv, executorVars, sourceVars
  <1>2. Claimed' = Claimed /\ SourceOf' = SourceOf
    BY <1>1 DEF Claimed, SourceOf
  <1>3. \A v \in InHand : Shown(pc'[v], verdict'[v]) = Shown(pc[v], verdict[v])
    BY <1>1 DEF InHand, Shown
  <1>4. Outcomes' = Outcomes
    BY <1>0, <1>1, <1>2, <1>3, OutcomesAreClaimed, OutcomesRest
  <1>5. CASE Halted' = Halted
    BY <1>1, <1>2, <1>4, <1>5, QueueRests DEF QueueStep
  <1>6. CASE Halted' # Halted
    <2>1. pc[w] = "unwind" /\ ~Halted /\ Halted' /\ ~poisoned
      BY <1>0, <1>1, <1>6 DEF Halted, TypesInv
    <2>2. hand[w] # NoShard
      BY <1>0, <2>1 DEF LeaversInv
    <2>3. hand[w].seq + 1 \in 1..Len(Outcomes) /\ Outcomes[hand[w].seq + 1] = "panicked"
      BY <1>0, <2>1, <2>2, HeldOutcome DEF Shown
    <2>4. Queue!StopBeginning
      BY <1>1, <1>2, <1>4, <2>1, <2>3, QueueStops
    <2> QED
      BY <2>4 DEF QueueStep, Queue!QueueNext
  <1> QED
    BY <1>5, <1>6

\* A place in work is in a hand, so fewer are than there are workers while one
\* of the hands is empty.
LEMMA AnEmptyHandIsRoom ==
  ASSUME TypesInv, PlacesInv, Shows, NEW w \in Workers, hand[w] = NoShard
  PROVE  Cardinality(InWork) < Cardinality(Workers)
  <1>0. QueueInv
    BY DEF PlacesInv
  <1> DEFINE f == [k \in InWork |-> CHOOSE v \in InHand : hand[v].seq = k - 1]
  <1>1. ASSUME NEW k \in InWork PROVE f[k] \in InHand /\ hand[f[k]].seq = k - 1
    <2>1. k - 1 \in Nat /\ OutcomeOf(k - 1) = "working"
      BY <1>0, OutcomesAreClaimed DEF InWork
    <2>2. \E v \in InHand : hand[v].seq = k - 1
      BY <2>1 DEF Shows, FreeShow
    <2> QED
      BY <2>2
  <1>2. \A k \in InWork : k \in Int
    BY <1>0, OutcomesAreClaimed DEF InWork
  <1>3. f \in [InWork -> InHand] /\ \A j, k \in InWork : f[j] = f[k] => j = k
    <2>1. f \in [InWork -> InHand]
      BY <1>1
    <2>2. ASSUME NEW j \in InWork, NEW k \in InWork, f[j] = f[k] PROVE j = k
      <3>1. hand[f[j]].seq = j - 1 /\ hand[f[k]].seq = k - 1 /\ j \in Int /\ k \in Int
        BY <1>1, <1>2
      <3> HIDE DEF f
      <3>2. j - 1 = k - 1
        BY <2>2, <3>1
      <3> QED
        BY <3>1, <3>2
    <2> QED
      BY <2>1, <2>2
  <1> HIDE DEF f
  <1>4. f \in Injection(InWork, InHand)
    BY <1>3 DEF Injection, IsInjective
  <1>5. IsFiniteSet(Workers) /\ InHand \in SUBSET (Workers \ {w})
    BY WorkersAssumption DEF InHand
  <1>6. /\ IsFiniteSet(Workers \ {w}) /\ Cardinality(Workers \ {w}) = Cardinality(Workers) - 1
        /\ Cardinality(Workers) \in Nat
    BY <1>5, FS_RemoveElement, FS_CardinalityType
  <1>7. /\ IsFiniteSet(InHand) /\ Cardinality(InHand) \in Nat
        /\ Cardinality(InHand) <= Cardinality(Workers \ {w})
    BY <1>5, <1>6, FS_Subset, FS_CardinalityType
  <1>8. /\ IsFiniteSet(InWork) /\ Cardinality(InWork) \in Nat
        /\ Cardinality(InWork) <= Cardinality(InHand)
    BY <1>4, <1>7, FS_Injection, FS_CardinalityType
  <1> QED
    BY <1>6, <1>7, <1>8

Outcome == {"working", "ok", "err", "panicked"}

\* Outcomes are a sequence of the four.
LEMMA OutcomesAreOutcomes ==
  ASSUME TypesInv, QueueInv, Shows
  PROVE  Outcomes \in Seq(Outcome)
  <1>1. ASSUME NEW k \in Nat PROVE OutcomeOf(k) \in Outcome
    <2>1. CASE \E w \in InHand : hand[w].seq = k
      BY <2>1 DEF Shows, HeldShow, Shown, TypesInv, InHand, Outcome
    <2>2. CASE \A w \in InHand : hand[w].seq # k
      BY <2>2 DEF Shows, FreeShow, Outcome
    <2> QED
      BY <2>1, <2>2
  <1>2. \A i \in 1..Claimed : OutcomeOf(i - 1) \in Outcome
    BY <1>1, OutcomesAreClaimed
  <1> QED
    BY <1>2, OutcomesAreClaimed DEF Outcomes

\* A claim begins the next shard in fill order.
LEMMA ClaimIsAQueueStep ==
  ASSUME QueueSight, [Next]_vars, NEW w \in Workers, Claim(w)
  PROVE  QueueStep
  <1>0. /\ TypesInv /\ HandsInv /\ PlacesInv /\ QueueInv /\ Shows /\ Shows'
        /\ PoisonInv /\ w # NoWorker
    BY OutcomesShowOn, WorkersAssumption DEF QueueSight, HoldInv, PlacesInv
  <1>1. /\ UNCHANGED <<verdict, mine, filled, stop, poisoned, phase, answer>>
        /\ lock = w /\ ~stop /\ waiting # <<>> /\ waiting' = Tail(waiting)
        /\ hand' = [hand EXCEPT ![w] = Head(waiting)]
        /\ pc[w] = "locked" /\ pc'[w] = "work" /\ hand[w] = NoShard /\ verdict[w] = "none"
        /\ \A v \in Workers : v # w => pc'[v] = pc[v]
    BY <1>0 DEF Claim, Release, HandsInv, TypesInv, executorVars
  <1>2. /\ Head(waiting) \in Placed /\ Head(waiting).seq = Claimed
        /\ Len(waiting') = Len(waiting) - 1
    <2>1. waiting \in Seq(Placed) /\ 1 \in 1..Len(waiting) /\ Head(waiting) = waiting[1]
      BY <1>0, <1>1 DEF TypesInv
    <2>2. waiting[1].seq = Claimed + 1 - 1 /\ Claimed \in Nat
      BY <1>0, <2>1, OutcomesAreClaimed DEF QueueInv
    <2> QED
      BY <1>1, <2>1, <2>2
  <1>3. /\ Claimed \in Nat /\ filled \in Nat /\ Claimed < filled /\ Claimed' = Claimed + 1
        /\ Len(Outcomes) = Claimed
    <2>1. Claimed' = filled - Len(waiting')
      BY <1>1 DEF Claimed
    <2> QED
      BY <1>0, <1>1, <1>2, <2>1, OutcomesAreClaimed DEF TypesInv
  <1>4. ~Halted /\ Halted' = Halted /\ SourceOf' = SourceOf /\ Succeeded' = Succeeded
    BY <1>0, <1>1 DEF Halted, PoisonInv, SourceOf, Succeeded, Results
  <1>5. /\ hand'[w] = Head(waiting) /\ hand'[w] # NoShard
        /\ \A v \in Workers : v # w => hand'[v] = hand[v]
        /\ InHand' = InHand \cup {w} /\ w \notin InHand
    BY <1>0, <1>1, <1>2, MarksAssumption DEF TypesInv, InHand
  <1>6. ASSUME NEW k \in Nat, k # Claimed PROVE OutcomeOf(k)' = OutcomeOf(k)
    <2>1. CASE \E v \in InHand : hand[v].seq = k
      <3>1. PICK v \in InHand : hand[v].seq = k
        BY <2>1
      <3>2. v \in InHand' /\ hand'[v].seq = k /\ pc'[v] = pc[v] /\ verdict'[v] = verdict[v]
        BY <1>1, <1>5, <3>1 DEF InHand
      <3>3. OutcomeOf(k)' = Shown(pc'[v], verdict'[v])
        BY <1>0, <3>2 DEF Shows, HeldShow
      <3>4. OutcomeOf(k) = Shown(pc[v], verdict[v])
        BY <1>0, <3>1 DEF Shows, HeldShow
      <3> QED
        BY <3>2, <3>3, <3>4
    <2>2. CASE \A v \in InHand : hand[v].seq # k
      <3>1. \A v \in InHand' : hand'[v].seq # k
        BY <1>2, <1>5, <1>6, <2>2 DEF InHand
      <3>2. OutcomeOf(k)' = IF k \in Succeeded THEN "ok" ELSE "err"
        BY <1>0, <1>4, <3>1 DEF Shows, FreeShow
      <3>3. OutcomeOf(k) = IF k \in Succeeded THEN "ok" ELSE "err"
        BY <1>0, <2>2 DEF Shows, FreeShow
      <3> QED
        BY <3>2, <3>3
    <2> QED
      BY <2>1, <2>2
  <1>7. ASSUME NEW k \in Nat, k = Claimed PROVE OutcomeOf(k)' = "working"
    <2>1. w \in InHand' /\ hand'[w].seq = k /\ Shown(pc'[w], verdict'[w]) = "working"
      BY <1>1, <1>2, <1>5, <1>7 DEF Shown
    <2> QED
      BY <1>0, <2>1 DEF Shows, HeldShow
  <1>8. Outcomes' = Append(Outcomes, "working")
    <2>1. Outcomes \in Seq(Outcome) /\ Len(Outcomes) = Claimed
      BY <1>0, <1>3, OutcomesAreOutcomes
    <2>2. Outcomes' = [i \in 1..(Claimed + 1) |-> OutcomeOf(i - 1)']
      BY <1>3 DEF Outcomes
    <2>3. ASSUME NEW i \in 1..(Claimed + 1) PROVE OutcomeOf(i - 1)' = Append(Outcomes, "working")[i]
      <3>1. CASE i \in 1..Claimed
        <4>1. i - 1 \in Nat /\ i - 1 # Claimed /\ Outcomes[i] = OutcomeOf(i - 1)
          BY <1>0, <1>3, <3>1, OutcomesAreClaimed
        <4>2. Append(Outcomes, "working")[i] = Outcomes[i]
          BY <2>1, <3>1
        <4> QED
          BY <1>6, <4>1, <4>2
      <3>2. CASE i = Claimed + 1
        <4>1. i - 1 \in Nat /\ i - 1 = Claimed
          BY <1>3, <3>2
        <4>2. Append(Outcomes, "working")[i] = "working"
          BY <2>1, <3>2
        <4> QED
          BY <1>7, <4>1, <4>2
      <3> QED
        BY <1>3, <3>1, <3>2
    <2>4. Append(Outcomes, "working") = [i \in 1..(Claimed + 1) |-> Append(Outcomes, "working")[i]]
      <3> DEFINE s == Append(Outcomes, "working")
      <3>1. s \in Seq(Outcome) /\ Len(s) = Claimed + 1
        BY <1>3, <2>1 DEF Outcome
      <3> HIDE DEF s
      <3>2. s = [i \in 1..Len(s) |-> s[i]]
        BY <3>1
      <3>3. s = [i \in 1..(Claimed + 1) |-> s[i]]
        BY <3>1, <3>2
      <3> QED
        BY <3>3 DEF s
    <2> QED
      BY <2>2, <2>3, <2>4
  <1>9. Queue!Begin
    BY <1>0, <1>1, <1>3, <1>4, <1>8, AnEmptyHandIsRoom, QueueBegins
  <1> QED
    BY <1>9 DEF QueueStep, Queue!QueueNext


\* Driving the executor fills shards, exits, breaks off, or is nothing to the queue.
LEMMA DriveIsAQueueStep ==
  ASSUME QueueSight, [Next]_vars, NEW w \in Workers, Drive(w)
  PROVE  QueueStep
  <1>0. /\ TypesInv /\ HandsInv /\ PlacesInv /\ QueueInv /\ Shows /\ Shows'
        /\ PoisonInv /\ LeaversInv /\ ExecutorTypeOK /\ w # NoWorker
    BY OutcomesShowOn, WorkersAssumption DEF QueueSight, HoldInv, PlacesInv
  <1>1. /\ lock = w /\ ~stop /\ waiting = <<>>
        /\ phase \notin {"finished", "failed"}
        /\ UNCHANGED <<hand, verdict, mine, answer>>
    BY <1>0 DEF LeaversInv, Drive, DriveStep, DriveHandOver, DriveFlush, DriveFinish, DrivePanics,
                MayDrive, workerVars, Step, StepCycle, StepDelegation, StepExit, StepFails, MayStep,
                HandOver, BeginFinish, FlushBuffer, Finish
  <1>2. ~poisoned /\ ~Halted /\ SourceOf = "running"
    BY <1>0, <1>1 DEF PoisonInv, Halted, SourceOf
  <1>3. Claimed \in Nat /\ filled \in Nat /\ Claimed = filled /\ Len(Outcomes) = filled
    BY <1>0, <1>1, OutcomesAreClaimed
  <1>4. ASSUME Claimed' = Claimed, \A v \in InHand : pc'[v] = pc[v] PROVE Outcomes' = Outcomes
    <2>1. \A v \in InHand : Shown(pc'[v], verdict'[v]) = Shown(pc[v], verdict[v])
      BY <1>1, <1>4 DEF Shown
    <2> QED
      BY <1>0, <1>1, <1>3, <1>4, <2>1, OutcomesRest
  <1>5. ASSUME UNCHANGED workerVars, phase' = "failed", Fail(filled, "executor"),
               UNCHANGED <<waiting, filled>>
        PROVE  QueueStep
    <2>1. Claimed' = Claimed /\ Halted' /\ SourceOf' = "failed" /\ UNCHANGED pc
      BY <1>2, <1>5 DEF Claimed, Halted, Fail, SourceOf, workerVars
    <2>2. Queue!Break
      BY <1>1, <1>2, <1>3, <1>4, <1>5, <2>1, QueueBreaks
    <2> QED
      BY <2>2 DEF QueueStep, Queue!QueueNext
  <1>6. ASSUME UNCHANGED workerVars, UNCHANGED <<waiting, filled, stop>>,
               phase' \notin {"finished", "failed"}
        PROVE  QueueStep
    <2>1. Claimed' = Claimed /\ Halted' = Halted /\ SourceOf' = SourceOf /\ UNCHANGED pc
      BY <1>2, <1>6 DEF Claimed, Halted, SourceOf, workerVars
    <2> QED
      BY <1>1, <1>4, <1>6, <2>1, QueueRests DEF QueueStep
  <1>7. ASSUME UNCHANGED workerVars, Admit(ready), UNCHANGED stop
        PROVE  /\ filled' = filled + Len(ready) /\ Len(ready) \in Nat
               /\ UNCHANGED <<Outcomes, Halted, poisoned>>
    <2>1. ready \in Seq(Chunk) /\ Len(ready) \in Nat
      BY <1>0 DEF ExecutorTypeOK
    <2>2. waiting' \in Seq(Placed) /\ Len(waiting') = Len(ready) /\ filled' = filled + Len(ready)
      <3> DEFINE b == [i \in 1..Len(ready) |-> [seq |-> filled + i - 1, chunk |-> ready[i]]]
      <3>1. waiting' = <<>> \o b /\ filled' = filled + Len(ready)
        BY <1>1, <1>7 DEF Admit
      <3>2. b \in Seq(Placed) /\ Len(b) = Len(ready)
        <4>1. \A i \in 1..Len(ready) : filled + i - 1 \in Nat /\ ready[i] \in Chunk
          BY <1>3, <2>1
        <4> QED
          BY <2>1, <4>1 DEF Placed
      <3> HIDE DEF b
      <3> QED
        BY <3>1, <3>2
    <2>3. Claimed' = Claimed
      <3>1. Claimed' = filled' - Len(waiting')
        BY DEF Claimed
      <3> QED
        BY <1>3, <2>1, <2>2, <3>1
    <2>4. UNCHANGED <<pc, poisoned>>
      BY <1>7 DEF workerVars
    <2> QED
      BY <1>4, <1>7, <2>1, <2>2, <2>3, <2>4 DEF Halted
  <1>8. CASE DriveStep(w)
    <2>1. UNCHANGED <<waiting, filled, workerVars>> /\ phase' \in {phase, "exited", "failed"}
      BY <1>8 DEF DriveStep, Step, StepCycle, StepDelegation, StepExit, StepFails
    <2>2. IF phase' = "failed" THEN Fail(filled, "executor") ELSE UNCHANGED <<failure, stop>>
      BY <1>8 DEF DriveStep
    <2> QED
      BY <1>1, <1>5, <1>6, <2>1, <2>2
  <1>9. CASE DriveHandOver(w)
    <2>1. UNCHANGED <<workerVars, stop, phase>> /\ Admit(ready) /\ ready # <<>>
      BY <1>9 DEF DriveHandOver, HandOver
    <2>2. filled' > filled /\ SourceOf' = SourceOf
      <3>1. Len(ready) # 0
        BY <1>0, <2>1 DEF ExecutorTypeOK
      <3>2. Len(ready) \in Nat /\ filled' = filled + Len(ready) /\ UNCHANGED poisoned
        BY <1>7, <2>1
      <3> QED
        BY <1>3, <2>1, <3>1, <3>2 DEF SourceOf
    <2>3. Queue!Fill
      BY <1>1, <1>2, <1>3, <1>7, <2>1, <2>2, QueueFills
    <2> QED
      BY <2>3 DEF QueueStep, Queue!QueueNext
  <1>10. CASE DriveFlush(w)
    <2>1. UNCHANGED <<workerVars, waiting, filled, stop>> /\ phase' = "flushing"
      BY <1>10 DEF DriveFlush, BeginFinish, FlushBuffer, sourceVars
    <2> QED
      BY <1>6, <2>1
  <1>11. CASE DriveFinish(w)
    <2>1. UNCHANGED workerVars /\ phase' \in {"finished", "failed"}
      BY <1>11 DEF DriveFinish, Finish
    <2>2. CASE phase' = "failed"
      BY <1>5, <1>11, <2>1, <2>2 DEF DriveFinish
    <2>3. CASE phase' = "finished"
      <3>1. Admit(ready) /\ UNCHANGED stop
        BY <1>11, <2>3 DEF DriveFinish
      <3>2. Len(ready) \in Nat /\ filled' = filled + Len(ready) /\ UNCHANGED poisoned
        BY <1>7, <2>1, <3>1
      <3>3. filled' >= filled /\ SourceOf' = "exited"
        BY <1>2, <1>3, <2>3, <3>2 DEF SourceOf
      <3>4. Queue!Exit
        BY <1>1, <1>2, <1>3, <1>7, <2>1, <3>1, <3>3, QueueExits
      <3> QED
        BY <3>4 DEF QueueStep, Queue!QueueNext
    <2> QED
      BY <2>1, <2>2, <2>3
  <1>12. CASE DrivePanics(w)
    <2>1. /\ UNCHANGED <<waiting, filled, phase>> /\ poisoned'
          /\ \A v \in Workers : v # w => pc'[v] = pc[v]
      BY <1>0, <1>12 DEF DrivePanics, Release, TypesInv, executorVars, sourceVars
    <2>2. w \notin InHand
      BY <1>0, <1>1 DEF HandsInv, InHand
    <2>3. \A v \in InHand : pc'[v] = pc[v]
      BY <2>1, <2>2 DEF InHand
    <2>4. Claimed' = Claimed /\ Halted' /\ SourceOf' = "panicked"
      BY <1>1, <2>1 DEF Claimed, Halted, SourceOf
    <2>5. Queue!Break
      BY <1>1, <1>2, <1>3, <1>4, <2>1, <2>3, <2>4, QueueBreaks
    <2> QED
      BY <2>5 DEF QueueStep, Queue!QueueNext
  <1> QED
    BY <1>8, <1>9, <1>10, <1>11, <1>12 DEF Drive

\* The end of a shard's work concludes it, for better or worse.
LEMMA WorkIsAQueueStep ==
  ASSUME QueueSight, [Next]_vars, NEW w \in Workers, Work(w)
  PROVE  QueueStep
  <1>0. TypesInv /\ HandsInv /\ PlacesInv /\ QueueInv /\ Shows /\ Shows'
    BY OutcomesShowOn DEF QueueSight, HoldInv, PlacesInv
  <1> DEFINE at == hand[w].seq
  <1>1. /\ UNCHANGED <<hand, waiting, filled, stop, poisoned, phase, answer>>
        /\ \A v \in Workers : v # w => pc'[v] = pc[v] /\ verdict'[v] = verdict[v] /\ mine'[v] = mine[v]
        /\ pc[w] = "work" /\ hand[w] # NoShard /\ verdict[w] = "none"
    BY <1>0 DEF Work, WorkOk, WorkFails, WorkPanics, TypesInv, HandsInv, executorVars, sourceVars
  <1>2. /\ Shown(pc'[w], verdict'[w]) \in {"ok", "err", "panicked"}
        /\ mine'[w] = mine[w] \/ \E r : r.seq = at /\ mine'[w] = mine[w] \cup {r}
    <2>1. CASE WorkOk(w)
      <3> DEFINE r == [seq |-> hand[w].seq, family |-> hand[w].chunk.family,
                       index |-> hand[w].chunk.index]
      <3>1. pc'[w] = "claim" /\ verdict'[w] = "ok" /\ mine'[w] = mine[w] \cup {r}
        BY <1>0, <2>1 DEF WorkOk, TypesInv
      <3>2. r.seq = at
        OBVIOUS
      <3> QED
        BY <3>1, <3>2 DEF Shown
    <2>2. CASE WorkFails(w) \/ WorkPanics(w)
      BY <1>0, <2>2 DEF WorkFails, WorkPanics, Shown, TypesInv
    <2> QED
      BY <2>1, <2>2 DEF Work
  <1>3. /\ at \in Nat /\ at + 1 \in 1..Len(Outcomes) /\ Outcomes[at + 1] = "working"
        /\ w \in InHand /\ InHand' = InHand
    BY <1>0, <1>1, HeldOutcome DEF Shown, InHand
  <1>4. Claimed' = Claimed /\ Halted' = Halted /\ SourceOf' = SourceOf
    BY <1>1 DEF Claimed, Halted, SourceOf
  <1>5. ASSUME NEW k \in Nat, k # at PROVE k \in Succeeded' <=> k \in Succeeded
    <2>1. k \in Succeeded <=> \E u \in Workers : \E r \in mine[u] : r.seq = k
      BY DEF Succeeded, Results
    <2>2. k \in Succeeded' <=> \E u \in Workers : \E r \in mine'[u] : r.seq = k
      BY DEF Succeeded, Results
    <2>3. \A u \in Workers : (\E r \in mine'[u] : r.seq = k) <=> (\E r \in mine[u] : r.seq = k)
      BY <1>1, <1>2, <1>5
    <2> QED
      BY <2>1, <2>2, <2>3
  <1>6. ASSUME NEW k \in Nat, k # at PROVE OutcomeOf(k)' = OutcomeOf(k)
    <2>1. CASE \E v \in InHand : hand[v].seq = k
      <3>1. PICK v \in InHand : hand[v].seq = k
        BY <2>1
      <3>2. v \in InHand' /\ hand'[v].seq = k /\ pc'[v] = pc[v] /\ verdict'[v] = verdict[v]
        BY <1>1, <1>3, <1>6, <3>1 DEF InHand
      <3>3. OutcomeOf(k)' = Shown(pc'[v], verdict'[v])
        BY <1>0, <3>2 DEF Shows, HeldShow
      <3>4. OutcomeOf(k) = Shown(pc[v], verdict[v])
        BY <1>0, <3>1 DEF Shows, HeldShow
      <3> QED
        BY <3>2, <3>3, <3>4
    <2>2. CASE \A v \in InHand : hand[v].seq # k
      <3>1. \A v \in InHand' : hand'[v].seq # k
        BY <1>1, <1>3, <2>2
      <3>2. OutcomeOf(k)' = IF k \in Succeeded' THEN "ok" ELSE "err"
        BY <1>0, <3>1 DEF Shows, FreeShow
      <3>3. OutcomeOf(k) = IF k \in Succeeded THEN "ok" ELSE "err"
        BY <1>0, <2>2 DEF Shows, FreeShow
      <3> QED
        BY <1>5, <1>6, <3>2, <3>3
    <2> QED
      BY <2>1, <2>2
  <1>7. Outcomes' = [Outcomes EXCEPT ![at + 1] = Shown(pc'[w], verdict'[w])]
    <2> DEFINE e == Shown(pc'[w], verdict'[w])
    <2>1. Claimed \in Nat /\ Outcomes = [i \in 1..Claimed |-> OutcomeOf(i - 1)]
      BY <1>0, OutcomesAreClaimed DEF Outcomes
    <2>2. Outcomes' = [i \in 1..Claimed |-> OutcomeOf(i - 1)']
      BY <1>4 DEF Outcomes
    <2>3. ASSUME NEW i \in 1..Claimed
          PROVE  OutcomeOf(i - 1)' = IF i = at + 1 THEN e ELSE OutcomeOf(i - 1)
      <3>1. i - 1 \in Nat /\ (i - 1 = at <=> i = at + 1)
        BY <1>3, <2>1
      <3>2. CASE i - 1 = at
        BY <1>0, <1>1, <1>3, <3>1, <3>2 DEF Shows, HeldShow
      <3>3. CASE i - 1 # at
        BY <1>6, <3>1, <3>3
      <3> QED
        BY <3>2, <3>3
    <2> HIDE DEF e
    <2> QED
      BY <1>3, <2>1, <2>2, <2>3 DEF e
  <1>8. Queue!Conclude
    BY <1>1, <1>2, <1>3, <1>4, <1>7, QueueConcludes
  <1> QED
    BY <1>8 DEF QueueStep, Queue!QueueNext


\* Nothing is in work once every worker has stopped, and a panic shows.
LEMMA StoppedOutcomes ==
  ASSUME HoldInv, PlacesInv, Shows, LeaversInv, AllStopped
  PROVE  /\ \A k \in 1..Len(Outcomes) : Outcomes[k] # "working"
         /\ Panicked <=> (poisoned \/ WorkEnded("panicked"))
  <1>0. TypesInv /\ HandsInv /\ QueueInv /\ CausesInv
    BY DEF HoldInv, PlacesInv
  <1>1. \A w \in Workers : pc[w] \in {"returned", "panicked"}
    BY DEF AllStopped
  <1>2. ASSUME NEW k \in 1..Len(Outcomes)
        PROVE  /\ Outcomes[k] # "working"
               /\ Outcomes[k] = "panicked" => Panicked
    <2>1. k - 1 \in Nat /\ Outcomes[k] = OutcomeOf(k - 1)
      BY <1>0, OutcomesAreClaimed
    <2>2. CASE \E w \in InHand : hand[w].seq = k - 1
      <3>1. PICK w \in InHand : hand[w].seq = k - 1
        BY <2>2
      <3>2. Outcomes[k] = Shown(pc[w], verdict[w])
        BY <2>1, <3>1 DEF Shows, HeldShow
      <3>3. pc[w] = "returned" => verdict[w] \in {"ok", "err"}
        BY <1>0, <3>1 DEF LeaversInv, InHand, TypesInv
      <3> QED
        BY <1>1, <3>2, <3>3 DEF Shown, InHand, Panicked
    <2>3. CASE \A w \in InHand : hand[w].seq # k - 1
      BY <2>1, <2>3 DEF Shows, FreeShow
    <2> QED
      BY <2>2, <2>3
  <1>3. ASSUME Panicked, ~poisoned PROVE WorkEnded("panicked")
    <2>1. PICK w \in Workers : pc[w] = "panicked"
      BY <1>3 DEF Panicked
    <2>2. hand[w] # NoShard
      BY <1>3, <2>1 DEF LeaversInv
    <2>3. hand[w].seq + 1 \in 1..Len(Outcomes) /\ Outcomes[hand[w].seq + 1] = "panicked"
      BY <1>0, <2>1, <2>2, HeldOutcome DEF Shown
    <2> QED
      BY <2>3 DEF WorkEnded
  <1>4. poisoned => Panicked
    BY <1>0, <1>1 DEF CausesInv, Panicked
  <1> QED
    BY <1>2, <1>3, <1>4 DEF WorkEnded

\* With every worker gone and none in panic, an outcome says whether the shard's
\* work succeeded.
LEMMA JoinedOutcomes ==
  ASSUME HoldInv, PlacesInv, Shows, AllStopped, ~Panicked, NEW k \in 1..Len(Outcomes)
  PROVE  Outcomes[k] = IF k - 1 \in Succeeded THEN "ok" ELSE "err"
  <1>1. \A w \in Workers : hand[w] = NoShard
    BY HandsAreEmptyAtTheEnd
  <1>2. TypesInv /\ QueueInv
    BY DEF HoldInv, PlacesInv
  <1>3. k - 1 \in Nat /\ Outcomes[k] = OutcomeOf(k - 1)
    BY <1>2, OutcomesAreClaimed
  <1> QED
    BY <1>1, <1>3 DEF Shows, FreeShow, InHand

\* Joining the workers tells what a single worker would have returned.
LEMMA JoinIsAQueueStep ==
  ASSUME QueueSight, [Next]_vars, Join
  PROVE  QueueStep
  <1>0. /\ TypesInv /\ HandsInv /\ PlacesInv /\ QueueInv /\ Shows /\ Shows'
        /\ HoldInv /\ FailureInv /\ LeaversInv /\ BrokenOffInv
    BY OutcomesShowOn DEF QueueSight, HoldInv, PlacesInv
  <1>1. /\ AllStopped /\ answer = Running
        /\ answer' = IF Panicked THEN Reraised ELSE IF failure # NoFailure THEN failure ELSE Done
        /\ UNCHANGED <<pc, hand, verdict, mine, waiting, filled, stop, poisoned, phase>>
    BY DEF Join, executorVars, sourceVars, workerVars
  <1>2. UNCHANGED <<filled, Outcomes, SourceOf, Halted>>
    <2>1. Claimed' = Claimed /\ SourceOf' = SourceOf /\ Halted' = Halted
      BY <1>1 DEF Claimed, SourceOf, Halted
    <2>2. Outcomes' = Outcomes
      BY <1>0, <1>1, <2>1, OutcomesAreClaimed, OutcomesRest
    <2> QED
      BY <1>1, <2>1, <2>2
  <1>3. /\ \A k \in 1..Len(Outcomes) : Outcomes[k] # "working"
        /\ Panicked <=> (poisoned \/ WorkEnded("panicked"))
    BY <1>0, <1>1, StoppedOutcomes
  <1>n. Claimed \in Nat /\ filled \in Nat /\ Len(Outcomes) = Claimed /\ Claimed <= filled
    BY <1>0, OutcomesAreClaimed
  <1>4. CASE Panicked
    <2>1. SourceOf = "panicked" \/ WorkEnded("panicked")
      <3>1. CASE poisoned
        BY <1>0, <3>1 DEF SourceOf, BrokenOffInv
      <3> QED
        BY <1>3, <1>4, <3>1
    <2>2. answer' = Reraised
      BY <1>1, <1>4
    <2>3. Queue!Tell
      BY <1>1, <1>2, <1>3, <2>1, <2>2, QueueTells
    <2> QED
      BY <2>3 DEF QueueStep, Queue!QueueNext
  <1>5. CASE ~Panicked
    <2>1. /\ \A w \in Workers : hand[w] = NoShard
          /\ failure = NoFailure => waiting = <<>> /\ phase = "finished"
          /\ ~poisoned
      BY <1>0, <1>1, <1>5, HandsAreEmptyAtTheEnd
    <2>2. \A k \in 1..Len(Outcomes) : Outcomes[k] = IF k - 1 \in Succeeded THEN "ok" ELSE "err"
      BY <1>0, <1>1, <1>5, JoinedOutcomes
    <2>3. ~WorkEnded("panicked") /\ SourceOf # "panicked"
      BY <1>3, <1>5, <2>1 DEF SourceOf
    <2>4. \A k \in 0..(Claimed - 1) : failure = NoFailure \/ k < failure.at => k \in Succeeded
      BY <1>0, <2>1, SucceededIsOwned DEF FailureInv, AccountedFor
    <2>5. CASE failure = NoFailure
      <3>1. \A k \in 1..Len(Outcomes) : Outcomes[k] = "ok"
        <4>1. \A k \in 1..Len(Outcomes) : k - 1 \in 0..(Claimed - 1)
          BY <1>n
        <4> QED
          BY <2>2, <2>4, <2>5, <4>1
      <3>2. ~WorkEnded("err") /\ SourceOf = "exited" /\ answer' = Done
        BY <1>1, <1>5, <2>1, <2>5, <3>1 DEF WorkEnded, SourceOf
      <3>3. Len(Outcomes) = filled
        BY <1>0, <2>1, <2>5, OutcomesAreClaimed
      <3>4. Queue!Tell
        BY <1>1, <1>2, <1>3, <2>3, <3>2, <3>3, QueueTells
      <3> QED
        BY <3>4 DEF QueueStep, Queue!QueueNext
    <2>6. CASE failure # NoFailure
      <3>1. /\ failure \in Failure /\ failure.at \in Nat /\ failure.by \in {"work", "executor"}
            /\ failure = [at |-> failure.at, by |-> failure.by] /\ answer' = failure
        BY <1>0, <1>1, <1>5, <2>6 DEF TypesInv, Failure
      <3>2. FailureSpeaks(Claimed, filled, failure, hand, mine)
        BY <1>0 DEF FailureInv
      <3>3. CASE failure.by = "work"
        <4> DEFINE k == failure.at + 1
        <4>1. failure.at < Claimed /\ failure.at \notin Succeeded
          <5>1. failure.at \in Succeeded <=> Owned(failure.at, hand, mine)
            BY <2>1, SucceededIsOwned
          <5> QED
            BY <2>6, <3>2, <3>3, <5>1 DEF FailureSpeaks
        <4>2. k \in 1..Len(Outcomes) /\ k - 1 = failure.at
          BY <1>n, <3>1, <4>1
        <4>3. Outcomes[k] = "err"
          BY <2>2, <4>1, <4>2
        <4>4. ASSUME NEW j \in 1..(k - 1) PROVE Outcomes[j] = "ok"
          <5>1. j \in 1..Len(Outcomes) /\ j - 1 \in 0..(Claimed - 1) /\ j - 1 < failure.at
            BY <1>n, <4>2
          <5> QED
            BY <2>2, <2>4, <5>1
        <4>5. answer' = [at |-> k - 1, by |-> "work"]
          BY <3>1, <3>3, <4>2
        <4>6. WorkEnded("err")
          BY <4>2, <4>3 DEF WorkEnded
        <4> HIDE DEF k
        <4>7. \E i \in 1..Len(Outcomes) :
                /\ Outcomes[i] = "err" /\ \A j \in 1..(i - 1) : Outcomes[j] = "ok"
                /\ answer' = [at |-> i - 1, by |-> "work"]
          BY <4>2, <4>3, <4>4, <4>5
        <4>8. Queue!Tell
          BY <1>1, <1>2, <1>3, <2>3, <4>6, <4>7, QueueTells
        <4> QED
          BY <4>8 DEF QueueStep, Queue!QueueNext
      <3>4. CASE failure.by = "executor"
        <4>1. failure.at = filled /\ Claimed = filled
          BY <2>6, <3>2, <3>4 DEF FailureSpeaks
        <4>2. \A i \in 1..Len(Outcomes) : Outcomes[i] = "ok"
          <5>1. ASSUME NEW i \in 1..Len(Outcomes) PROVE i - 1 \in 0..(Claimed - 1) /\ i - 1 < failure.at
            BY <1>n, <4>1
          <5> QED
            BY <2>2, <2>4, <5>1
        <4>3. ~WorkEnded("err")
          BY <4>2 DEF WorkEnded
        <4>4. SourceOf = "failed"
          BY <1>0, <2>1, <2>6, <3>4 DEF LeaversInv, SourceOf
        <4>5. answer' = [at |-> filled, by |-> "executor"]
          BY <3>1, <3>4, <4>1
        <4>6. Queue!Tell
          BY <1>1, <1>2, <1>3, <2>3, <4>3, <4>4, <4>5, QueueTells
        <4> QED
          BY <4>6 DEF QueueStep, Queue!QueueNext
      <3> QED
        BY <3>1, <3>3, <3>4
    <2> QED
      BY <2>5, <2>6
  <1> QED
    BY <1>4, <1>5

\* An answered pipeline, and a step that changes nothing, rest.
LEMMA StillnessIsAQueueStep ==
  ASSUME QueueSight, [Next]_vars, UNCHANGED vars
  PROVE  QueueStep
  <1>0. TypesInv /\ PlacesInv /\ QueueInv /\ Shows /\ Shows'
    BY OutcomesShowOn DEF QueueSight, HoldInv, PlacesInv
  <1>1. UNCHANGED <<pc, hand, verdict, mine, waiting, filled, stop, poisoned, phase, answer>>
    BY DEF vars, executorVars, sourceVars, workerVars
  <1>2. Claimed' = Claimed /\ SourceOf' = SourceOf /\ Halted' = Halted
    BY <1>1 DEF Claimed, SourceOf, Halted
  <1>3. Outcomes' = Outcomes
    BY <1>0, <1>1, <1>2, OutcomesAreClaimed, OutcomesRest
  <1> QED
    BY <1>1, <1>2, <1>3, QueueRests DEF QueueStep

\* Every step of the pipeline is a step of the queue or leaves it alone.
LEMMA StepsAreQueueSteps ==
  ASSUME QueueSight, [Next]_vars
  PROVE  QueueStep
  BY EnterIsAQueueStep, LeavingIsAQueueStep, ClaimIsAQueueStep, DriveIsAQueueStep, WorkIsAQueueStep,
     JoinIsAQueueStep, StillnessIsAQueueStep DEF Next, TakeLock, HoldLock, Answered

\* The pipeline implements the queue, for any number of workers, any execution
\* and every fault: shards begin in fill order, at most `max_in_flight` of them
\* unfinished and filled only on demand, and the answer is a single worker's
\* unless something panicked (streaming.md section 5).
THEOREM PipelineImplementsTheQueue == Spec => ImplementsTheQueue
  <1>1. Init => Queue!QueueInit
    <2> SUFFICES ASSUME Init PROVE Queue!QueueInit
      OBVIOUS
    <2>1. filled = 0 /\ Len(waiting) = 0
      BY DEF Init
    <2>2. 1..Claimed = {}
      BY <2>1 DEF Claimed
    <2>3. Outcomes = <<>>
      BY <2>2 DEF Outcomes
    <2>4. SourceOf = "running" /\ ~Halted /\ answer = Running
      BY DEF Init, ExecutorInit, SourceOf, Halted
    <2> QED
      BY <2>1, <2>3, <2>4 DEF Queue!QueueInit, Outcomes, SourceOf, Halted
  <1>2. QueueSight /\ [Next]_vars => [Queue!QueueNext]_Queue!queueVars
    BY StepsAreQueueSteps DEF QueueStep
  <1>3. Spec => []QueueSight
    BY HoldInvariance, CountInvariance, PlacesInvariance, PoisonInvariance, FailureInvariance,
       LeaversInvariance, BrokenOffInvariance, PTL DEF QueueSight
  <1> QED
    BY <1>1, <1>2, <1>3, PTL DEF Spec, ImplementsTheQueue, Queue!QueueSpec

=============================================================================
