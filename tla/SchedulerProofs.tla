--------------------------- MODULE SchedulerProofs ---------------------------
(***************************************************************************)
(* Theorems about TreeScheduler, for every plan, every number of processes *)
(* and any stops: the shards in flight are within the budget, and a node   *)
(* that is ready waits for a place and never for shards.                   *)
(*                                                                         *)
(* Neither is inductive.  What is: of the shards nobody holds there is one *)
(* for every node that is ready and has a place.  A start takes an equal   *)
(* share or less of what is spare, and an end gives back a shard at least  *)
(* and makes one node ready at most, its parent in the tree.               *)
(***************************************************************************)
EXTENDS TreeScheduler, FiniteSetTheorems, SequenceTheorems, WellFoundedInduction, TLAPS

-----------------------------------------------------------------------------
(* Numbers *)

\* A set of naturals that is not empty has a least element: Min is one.
LEMMA MinIsLeast ==
  ASSUME NEW S \in SUBSET Nat, S # {}
  PROVE  Min(S) \in S /\ \A x \in S : Min(S) <= x
<1> DEFINE R == {ss \in Nat \X Nat : ss[1] < ss[2]}
<1>1. IsWellFoundedOn(R, Nat)
  BY NatLessThanWellFounded DEF OpToRel
<1>2. \A x, y \in Nat : x < y => <<x, y>> \in R
  OBVIOUS
<1> HIDE DEF R
<1>3. PICK m \in S : \A x \in S : ~(<<x, m>> \in R)
  BY <1>1, WFMin
<1>4. \A x \in S : ~(x < m)
  BY <1>2, <1>3
<1>5. \E m1 \in S : \A x \in S : m1 <= x
  BY <1>4
<1> QED
  BY <1>5 DEF Min

\* An equal share of x among m, at least 1, leaves the others 1 each.
LEMMA EqualShares ==
  ASSUME NEW x \in Nat, NEW m \in Nat \ {0}, m <= x
  PROVE  /\ x \div m \in Nat /\ 1 <= x \div m
         /\ x - (x \div m) >= m - 1
<1> DEFINE q == x \div m
           r == x % m
<1>1. q \in Int /\ r \in 0..m - 1 /\ x = m * q + r
  OBVIOUS
<1> HIDE DEF q, r
<1>2. q >= 1
  <2>1. CASE q <= 0
    <3>1. m * q <= 0
      BY <1>1, <2>1
    <3> QED
      BY <3>1, <1>1
  <2> QED
    BY <2>1, <1>1
<1>3. x - q >= m - 1
  <2>1. (m - 1) * (q - 1) >= 0
    BY <1>1, <1>2
  <2>2. (m - 1) * (q - 1) = m * q - m - q + 1
    BY <1>1
  <2> QED
    BY <2>1, <2>2, <1>1
<1> QED
  BY <1>1, <1>2, <1>3 DEF q

-----------------------------------------------------------------------------
(* Shards held *)

Share1 == Nat \ {0}
Run == Pid \X Share1

\* The slots of one run.
LEMMA OneRunsSlots ==
  ASSUME NEW k \in Nat, NEW m \in Nat
  PROVE  IsFiniteSet({k} \X (1..m)) /\ Cardinality({k} \X (1..m)) = m
<1>1. IsFiniteSet({k}) /\ Cardinality({k}) = 1
  BY FS_Singleton
<1>2. IsFiniteSet(1..m) /\ Cardinality(1..m) = IF 1 > m THEN 0 ELSE m - 1 + 1
  BY FS_Interval
<1>3. /\ IsFiniteSet({k} \X (1..m))
      /\ Cardinality({k} \X (1..m)) = Cardinality({k}) * Cardinality(1..m)
  BY <1>1, <1>2, FS_Product
<1> QED
  BY <1>1, <1>2, <1>3

\* A node that starts adds its share.
LEMMA StartedSlots ==
  ASSUME NEW runs \in Seq(Run), NEW r \in Run, IsFiniteSet(Slots(runs))
  PROVE  /\ IsFiniteSet(Slots(Append(runs, r)))
         /\ Cardinality(Slots(Append(runs, r))) = Cardinality(Slots(runs)) + r[2]
<1> DEFINE n == Len(runs)
           new == {n + 1} \X (1..r[2])
           longer == Append(runs, r)
<1>0. n \in Nat /\ r[2] \in Nat /\ DOMAIN runs = 1..n /\ DOMAIN longer = 1..n + 1
  BY DEF Run, Share1
<1>1. longer[n + 1] = r /\ \A k \in 1..n : longer[k] = runs[k]
  OBVIOUS
<1>2. Slots(longer) = Slots(runs) \cup new
  <2>1. Slots(longer) = UNION {{k} \X (1..longer[k][2]) : k \in 1..n + 1}
    BY <1>0 DEF Slots
  <2>2. Slots(runs) = UNION {{k} \X (1..runs[k][2]) : k \in 1..n}
    BY <1>0 DEF Slots
  <2>3. 1..n + 1 = 1..n \cup {n + 1}
    BY <1>0
  <2> HIDE DEF longer
  <2> QED
    BY <2>1, <2>2, <2>3, <1>1
<1>3. Slots(runs) \cap new = {}
  <2>1. \A x \in Slots(runs) : x[1] \in 1..n
    BY <1>0 DEF Slots
  <2>2. \A x \in new : x[1] = n + 1
    OBVIOUS
  <2> QED
    BY <2>1, <2>2, <1>0
<1>4. IsFiniteSet(new) /\ Cardinality(new) = r[2]
  <2>1. n + 1 \in Nat
    BY <1>0
  <2> QED
    BY <2>1, <1>0, OneRunsSlots
<1>5. /\ IsFiniteSet(Slots(runs) \cup new)
      /\ Cardinality(Slots(runs) \cup new)
           = Cardinality(Slots(runs)) + Cardinality(new) - Cardinality(Slots(runs) \cap new)
  BY <1>4, FS_Union
<1>6. Cardinality({}) = 0
  BY FS_EmptySet
<1>7. Cardinality(Slots(runs)) \in Nat
  BY FS_CardinalityType
<1> HIDE DEF new, longer
<1>8. Cardinality(Slots(longer)) = Cardinality(Slots(runs)) + r[2]
  <2>1. Cardinality(Slots(runs) \cap new) = 0
    BY <1>3, <1>6
  <2>2. Cardinality(Slots(runs) \cup new) = Cardinality(Slots(runs)) + r[2] - 0
    BY <2>1, <1>4, <1>5
  <2>3. r[2] \in Nat
    BY <1>0
  <2> QED
    BY <2>2, <2>3, <1>2, <1>7
<1> QED
  BY <1>2, <1>5, <1>8 DEF longer

\* A sequence of runs without its k-th.
LEMMA WithoutOne ==
  ASSUME NEW runs \in Seq(Run), NEW k \in 1..Len(runs)
  PROVE  /\ RemoveAt(runs, k) \in Seq(Run)
         /\ Len(RemoveAt(runs, k)) = Len(runs) - 1
         /\ \A j \in 1..Len(runs) - 1 : RemoveAt(runs, k)[j] = runs[IF j < k THEN j ELSE j + 1]
<1> DEFINE n == Len(runs)
           before == SubSeq(runs, 1, k - 1)
           after == SubSeq(runs, k + 1, n)
<1>0. n \in Nat /\ k \in Int /\ 1 <= k /\ k <= n /\ \A i \in 1..n : runs[i] \in Run
  OBVIOUS
<1>1. /\ before \in Seq(Run) /\ Len(before) = k - 1
      /\ \A i \in 1..k - 1 : before[i] = runs[i]
  <2>1. \A i \in 1..k - 1 : runs[i] \in Run
    BY <1>0
  <2>2. /\ before \in Seq(Run)
        /\ Len(before) = IF 1 <= k - 1 THEN (k - 1) - 1 + 1 ELSE 0
        /\ \A i \in 1..(k - 1) - 1 + 1 : before[i] = runs[1 + i - 1]
    BY <2>1, <1>0, SubSeqProperties
  <2> QED
    BY <2>2, <1>0
<1>2. /\ after \in Seq(Run) /\ Len(after) = n - k
      /\ \A i \in 1..n - k : after[i] = runs[k + i]
  <2>1. \A i \in k + 1..n : runs[i] \in Run
    BY <1>0
  <2>2. /\ after \in Seq(Run)
        /\ Len(after) = IF k + 1 <= n THEN n - (k + 1) + 1 ELSE 0
        /\ \A i \in 1..n - (k + 1) + 1 : after[i] = runs[(k + 1) + i - 1]
    BY <2>1, <1>0, SubSeqProperties
  <2> QED
    BY <2>2, <1>0
<1> HIDE DEF before, after
<1>3. /\ before \o after \in Seq(Run)
      /\ Len(before \o after) = n - 1
      /\ \A j \in 1..n - 1 : (before \o after)[j] = IF j <= k - 1 THEN before[j] ELSE after[j - (k - 1)]
  <2>1. /\ before \o after \in Seq(Run)
        /\ Len(before \o after) = Len(before) + Len(after)
        /\ \A i \in 1..Len(before) + Len(after) :
             (before \o after)[i] = IF i <= Len(before) THEN before[i] ELSE after[i - Len(before)]
    BY <1>1, <1>2, ConcatProperties
  <2>2. Len(before) + Len(after) = n - 1
    BY <1>0, <1>1, <1>2
  <2> QED
    BY <2>1, <2>2, <1>1
<1>4. ASSUME NEW j \in 1..n - 1
      PROVE  (before \o after)[j] = runs[IF j < k THEN j ELSE j + 1]
  <2>1. CASE j < k
    BY <2>1, <1>0, <1>1, <1>3
  <2>2. CASE ~(j < k)
    <3>1. j - (k - 1) \in 1..n - k /\ k + (j - (k - 1)) = j + 1
      BY <2>2, <1>0
    <3>2. after[j - (k - 1)] = runs[j + 1]
      BY <3>1, <1>2
    <3> QED
      BY <3>2, <2>2, <1>0, <1>3
  <2> QED
    BY <2>1, <2>2
<1> QED
  BY <1>3, <1>4 DEF RemoveAt, before, after

\* A node that ends gives its share back.
LEMMA EndedSlots ==
  ASSUME NEW runs \in Seq(Run), NEW k \in 1..Len(runs), IsFiniteSet(Slots(runs))
  PROVE  /\ IsFiniteSet(Slots(RemoveAt(runs, k)))
         /\ Cardinality(Slots(RemoveAt(runs, k))) = Cardinality(Slots(runs)) - runs[k][2]
<1> DEFINE n == Len(runs)
           rest == RemoveAt(runs, k)
           old == {k} \X (1..runs[k][2])
           kept == Slots(runs) \ old
           f == [x \in kept |-> <<IF x[1] < k THEN x[1] ELSE x[1] - 1, x[2]>>]
<1>0. /\ n \in Nat /\ k \in 1..n /\ DOMAIN runs = 1..n
      /\ \A i \in 1..n : runs[i] \in Run /\ runs[i][2] \in Nat
  BY DEF Run, Share1
<1>1. /\ rest \in Seq(Run) /\ Len(rest) = n - 1 /\ DOMAIN rest = 1..n - 1
      /\ \A j \in 1..n - 1 : rest[j] = runs[IF j < k THEN j ELSE j + 1]
  BY WithoutOne
<1> HIDE DEF rest
<1>2. \A x : x \in Slots(runs) <=> \E i \in 1..n, s \in Nat : s \in 1..runs[i][2] /\ x = <<i, s>>
  BY <1>0 DEF Slots
<1>3. \A x : x \in Slots(rest) <=> \E i \in 1..n - 1, s \in Nat : s \in 1..rest[i][2] /\ x = <<i, s>>
  BY <1>1 DEF Slots
<1>4. \A x : x \in kept <=> \E i \in 1..n, s \in Nat : s \in 1..runs[i][2] /\ i # k /\ x = <<i, s>>
  BY <1>2
<1> HIDE DEF kept
<1>5. \A x \in kept : f[x] \in Slots(rest)
  <2> TAKE x \in kept
  <2>1. PICK i \in 1..n, s \in Nat : s \in 1..runs[i][2] /\ i # k /\ x = <<i, s>>
    BY <1>4
  <2>2. f[x] = <<IF i < k THEN i ELSE i - 1, s>>
    BY <2>1
  <2>3. CASE i < k
    <3>1. i \in 1..n - 1 /\ rest[i] = runs[i]
      BY <2>1, <2>3, <1>0, <1>1
    <3> QED
      BY <3>1, <2>1, <2>2, <2>3, <1>3
  <2>4. CASE ~(i < k)
    <3>1. i - 1 \in 1..n - 1 /\ ~(i - 1 < k) /\ (i - 1) + 1 = i
      BY <2>1, <2>4, <1>0
    <3>2. rest[i - 1] = runs[i]
      BY <3>1, <1>1
    <3> QED
      BY <3>1, <3>2, <2>1, <2>2, <2>4, <1>3
  <2> QED
    BY <2>3, <2>4
<1>6. \A x, y \in kept : f[x] = f[y] => x = y
  <2> TAKE x, y \in kept
  <2>1. PICK i \in 1..n, s \in Nat : s \in 1..runs[i][2] /\ i # k /\ x = <<i, s>>
    BY <1>4
  <2>2. PICK j \in 1..n, t \in Nat : t \in 1..runs[j][2] /\ j # k /\ y = <<j, t>>
    BY <1>4
  <2>3. f[x] = <<IF i < k THEN i ELSE i - 1, s>> /\ f[y] = <<IF j < k THEN j ELSE j - 1, t>>
    BY <2>1, <2>2
  <2>4. f[x] = f[y] => s = t /\ (IF i < k THEN i ELSE i - 1) = (IF j < k THEN j ELSE j - 1)
    BY <2>3
  <2> HIDE DEF f
  <2>5. (IF i < k THEN i ELSE i - 1) = (IF j < k THEN j ELSE j - 1) => i = j
    BY <2>1, <2>2, <1>0
  <2> QED
    BY <2>1, <2>2, <2>4, <2>5
<1>7. \A y \in Slots(rest) : \E x \in kept : f[x] = y
  <2> TAKE y \in Slots(rest)
  <2>1. PICK j \in 1..n - 1, s \in Nat : s \in 1..rest[j][2] /\ y = <<j, s>>
    BY <1>3
  <2> DEFINE i == IF j < k THEN j ELSE j + 1
  <2>2. i \in 1..n /\ i # k /\ rest[j] = runs[i] /\ (IF i < k THEN i ELSE i - 1) = j
    BY <1>0, <1>1
  <2> HIDE DEF i
  <2>3. <<i, s>> \in kept
    BY <2>1, <2>2, <1>4
  <2>4. f[<<i, s>>] = <<IF i < k THEN i ELSE i - 1, s>>
    BY <2>3
  <2> QED
    BY <2>1, <2>2, <2>3, <2>4
<1>8. f \in Bijection(kept, Slots(rest))
  <2>1. f \in [kept -> Slots(rest)] /\ DOMAIN f = kept
    BY <1>5
  <2> HIDE DEF f
  <2> QED
    BY <2>1, <1>6, <1>7 DEF Bijection, Injection, Surjection, IsInjective
<1>9. IsFiniteSet(kept) /\ Cardinality(kept) = Cardinality(Slots(runs)) - runs[k][2]
  <2>1. IsFiniteSet(old) /\ Cardinality(old) = runs[k][2]
    <3>1. k \in Nat
      BY <1>0
    <3> QED
      BY <3>1, <1>0, OneRunsSlots
  <2>2. Slots(runs) \cap old = old
    BY <1>0, <1>2
  <2>3. /\ IsFiniteSet(Slots(runs) \ old)
        /\ Cardinality(Slots(runs) \ old) = Cardinality(Slots(runs)) - Cardinality(Slots(runs) \cap old)
    BY FS_Difference
  <2> QED
    BY <2>1, <2>2, <2>3 DEF kept
<1> HIDE DEF f
<1>10. IsFiniteSet(Slots(rest)) /\ Cardinality(Slots(rest)) = Cardinality(kept)
  BY <1>8, <1>9, FS_Bijection DEF ExistsBijection
<1> QED
  BY <1>9, <1>10 DEF rest

-----------------------------------------------------------------------------
(* The invariant *)

States == {"free", "started", "proving", "writing", "written"} \cup Ended

SchedulerTypeOK ==
  /\ done \in SUBSET Nodes
  /\ running \in Seq(Run)
  /\ proc \in [Pid -> [id : Nat, at : States]]
  /\ IsFiniteSet(Slots(running))

\* A run's nodes are proved by processes of their own.
OwnProcesses ==
  \A k \in 1..Len(running) :
    /\ proc[running[k][1]].at # "free" /\ proc[running[k][1]].id \in Nodes
    /\ \A j \in 1..Len(running) : running[j][1] = running[k][1] => j = k

\* A shard is spare for every node that is ready and has a place.
RoomForTheReady ==
  /\ Len(running) <= InFlight
  /\ Held + Least(Cardinality(Ready), InFlight - Len(running)) <= InFlight * ShardsInFlight

SchedulerInv == SchedulerTypeOK /\ OwnProcesses /\ RoomForTheReady

\* What the constants are.
LEMMA Budget ==
  /\ InFlight \in Nat /\ ShardsInFlight \in Nat /\ 1 <= InFlight /\ 1 <= ShardsInFlight
  /\ InFlight * ShardsInFlight \in Nat /\ InFlight <= InFlight * ShardsInFlight
<1>1. InFlight \in Nat /\ ShardsInFlight \in Nat /\ 1 <= InFlight /\ 1 <= ShardsInFlight
  BY TreeAssumption
<1>2. InFlight * (ShardsInFlight - 1) >= 0 /\ InFlight * ShardsInFlight \in Nat
  BY <1>1
<1>3. InFlight * (ShardsInFlight - 1) = InFlight * ShardsInFlight - InFlight
  BY <1>1
<1> QED
  BY <1>1, <1>2, <1>3

\* Two nodes have no child in common.
LEMMA OneParent ==
  ASSUME NEW c \in Nodes, NEW m \in Nodes, NEW n \in Nodes, c \in Children[m], c \in Children[n]
  PROVE  m = n
<1> DEFINE P == {x \in Nodes : c \in Children[x]}
<1>1. IsFiniteSet(P) /\ P # {} /\ m \in P /\ n \in P
  BY TreeAssumption, FS_Subset
<1>2. Cardinality(P) = 0 \/ Cardinality(P) = 1
  BY TreeAssumption
<1> HIDE DEF P
<1>3. Cardinality(P) # 0
  BY <1>1, FS_EmptySet
<1>4. \E x : P = {x}
  BY <1>1, <1>2, <1>3, FS_Singleton
<1> QED
  BY <1>1, <1>4

\* The nodes ready are finitely many nodes.
LEMMA ReadyIsFinite ==
  Ready \subseteq Nodes /\ IsFiniteSet(Ready) /\ Cardinality(Ready) \in Nat
<1>1. Ready \subseteq Nodes /\ IsFiniteSet(Nodes)
  BY TreeAssumption DEF Ready
<1>2. IsFiniteSet(Ready)
  BY <1>1, FS_Subset
<1> QED
  BY <1>1, <1>2, FS_CardinalityType

\* With no runs there is room.
LEMMA IdleHasRoom ==
  running = <<>> => IsFiniteSet(Slots(running)) /\ OwnProcesses /\ RoomForTheReady
<1> SUFFICES ASSUME running = <<>>
             PROVE  IsFiniteSet(Slots(running)) /\ OwnProcesses /\ RoomForTheReady
  OBVIOUS
<1>1. Slots(running) = {} /\ Len(running) = 0
  BY DEF Slots
<1>2. IsFiniteSet(Slots(running)) /\ Held = 0
  BY <1>1, FS_EmptySet DEF Held
<1>3. Least(Cardinality(Ready), InFlight) <= InFlight
  BY ReadyIsFinite, Budget DEF Least
<1>4. Least(Cardinality(Ready), InFlight) \in Nat
  BY ReadyIsFinite, Budget DEF Least
<1> QED
  BY <1>1, <1>2, <1>3, <1>4, Budget DEF OwnProcesses, RoomForTheReady

\* A run whose nodes move on keeps its room.
LEMMA MovesKeepRoom ==
  ASSUME SchedulerInv, UNCHANGED <<done, running>>,
         \A k \in 1..Len(running) :
           proc'[running[k][1]].id = proc[running[k][1]].id /\ proc'[running[k][1]].at # "free"
  PROVE  IsFiniteSet(Slots(running))' /\ OwnProcesses' /\ RoomForTheReady'
<1>1. DOMAIN running = 1..Len(running)
  BY DEF SchedulerInv, SchedulerTypeOK
<1>2. Ready' = Ready
  BY <1>1 DEF Ready, Runs
<1>3. Held' = Held
  BY DEF Held
<1> QED
  BY <1>2, <1>3 DEF SchedulerInv, SchedulerTypeOK, OwnProcesses, RoomForTheReady

\* A process that is not free moves on, or frees itself when no run waits for
\* it.
LEMMA ProcessMoves ==
  ASSUME SchedulerInv, UNCHANGED <<done, running>>, NEW p \in Pid, proc[p].at # "free",
         NEW at \in States \ {"free"}, proc' = Moved(p, at) \/ proc' = Exit(p, at)
  PROVE  SchedulerInv'
<1>0. proc \in [Pid -> [id : Nat, at : States]]
  BY DEF SchedulerInv, SchedulerTypeOK
<1>1. \A k \in 1..Len(running) : running[k][1] \in Processes /\ running[k][1] \in Pid
  <2>1. running \in Seq(Run) /\ DOMAIN running = 1..Len(running)
    BY DEF SchedulerInv, SchedulerTypeOK
  <2>2. \A k \in 1..Len(running) : running[k] \in Run
    BY <2>1
  <2> QED
    BY <2>1, <2>2 DEF Run, Processes, Runs
<1>2. CASE proc' = Moved(p, at)
  <2>1. /\ proc' \in [Pid -> [id : Nat, at : States]]
        /\ \A q \in Pid : proc'[q].id = proc[q].id /\ (proc[q].at # "free" => proc'[q].at # "free")
    BY <1>0, <1>2 DEF Moved
  <2>2. \A k \in 1..Len(running) :
          proc'[running[k][1]].id = proc[running[k][1]].id /\ proc'[running[k][1]].at # "free"
    BY <1>1, <2>1 DEF SchedulerInv, OwnProcesses
  <2> QED
    BY <2>1, <2>2, MovesKeepRoom DEF SchedulerInv, SchedulerTypeOK
<1>3. CASE p \notin Processes /\ proc' = Reaped({p})
  <2>1. /\ proc' \in [Pid -> [id : Nat, at : States]]
        /\ \A q \in Pid \ {p} : proc'[q] = proc[q]
    BY <1>0, <1>3 DEF Reaped, Free, States
  <2>2. \A k \in 1..Len(running) : running[k][1] \in Pid \ {p}
    BY <1>1, <1>3
  <2>3. \A k \in 1..Len(running) :
          proc'[running[k][1]].id = proc[running[k][1]].id /\ proc'[running[k][1]].at # "free"
    BY <2>1, <2>2 DEF SchedulerInv, OwnProcesses
  <2> QED
    BY <2>1, <2>3, MovesKeepRoom DEF SchedulerInv, SchedulerTypeOK
<1> QED
  BY <1>2, <1>3 DEF Exit

\* What a start gives is a share, and leaves the others one each.
LEMMA ShareLeavesOneEach ==
  ASSUME SchedulerInv, MayStart
  PROVE  /\ Share \in Nat \ {0}
         /\ Held \in Nat
         /\ Held + Share + Least(Cardinality(Ready) - 1, InFlight - Len(running) - 1)
              <= InFlight * ShardsInFlight
<1> DEFINE m == Least(Cardinality(Ready), InFlight - Len(running))
<1>1. Cardinality(Ready) \in Nat \ {0}
  BY ReadyIsFinite, FS_EmptySet DEF MayStart
<1>2. Len(running) \in Nat /\ Len(running) < InFlight
  BY DEF SchedulerInv, SchedulerTypeOK, MayStart
<1>3. Held \in Nat
  BY FS_CardinalityType DEF SchedulerInv, SchedulerTypeOK, Held
<1>4. m \in Nat \ {0} /\ Spare \in Nat /\ m <= Spare
  BY <1>1, <1>2, <1>3, Budget DEF SchedulerInv, RoomForTheReady, Spare, Least
<1>5. Spare \div m \in Nat /\ 1 <= Spare \div m /\ Spare - (Spare \div m) >= m - 1
  BY <1>4, EqualShares
<1>6. Share = Spare \div m
  <2>1. Share = Max({Spare \div m, 1})
    BY DEF Share
  <2> HIDE DEF m
  <2> QED
    BY <2>1, <1>5 DEF Max
<1>7. Least(Cardinality(Ready) - 1, InFlight - Len(running) - 1) = m - 1
  BY <1>1, <1>2, Budget DEF Least
<1> HIDE DEF m
<1> QED
  BY <1>3, <1>4, <1>5, <1>6, <1>7, Budget DEF Spare

\* A run's places and processes.
LEMMA RunsTyped ==
  ASSUME SchedulerInv
  PROVE  /\ Len(running) \in Nat /\ Runs = 1..Len(running)
         /\ \A k \in 1..Len(running) : /\ running[k] \in Run /\ running[k][1] \in Pid
                                      /\ running[k][2] \in Nat /\ 1 <= running[k][2]
         /\ Held \in Nat
<1>1. running \in Seq(Run) /\ IsFiniteSet(Slots(running))
  BY DEF SchedulerInv, SchedulerTypeOK
<1>2. \A r \in Run : r[1] \in Pid /\ r[2] \in Nat /\ 1 <= r[2]
  BY DEF Run, Share1
<1>3. Held \in Nat
  BY <1>1, FS_CardinalityType DEF Held
<1>4. Len(running) \in Nat /\ DOMAIN running = 1..Len(running) /\ \A k \in 1..Len(running) : running[k] \in Run
  BY <1>1
<1> QED
  BY <1>2, <1>3, <1>4 DEF Runs

LEMMA StartKeepsInv ==
  ASSUME SchedulerInv, Start
  PROVE  SchedulerInv'
<1> DEFINE p == CHOOSE p \in Pid : proc[p] = Free
           id == Min(Ready)
           r == <<p, Share>>
           n == Len(running)
<1>0. proc \in [Pid -> [id : Nat, at : States]] /\ running \in Seq(Run)
  BY DEF SchedulerInv, SchedulerTypeOK
<1>1. p \in Pid /\ proc[p] = Free
  BY DEF Start
<1>2. id \in Ready /\ id \in Nodes /\ id \in Nat
  <2>1. Ready # {} /\ Ready \subseteq Nodes /\ Nodes \subseteq Nat
    BY ReadyIsFinite, TreeAssumption DEF Start, MayStart
  <2> QED
    BY <2>1, MinIsLeast
<1>3. /\ proc' = [proc EXCEPT ![p] = [id |-> id, at |-> "started"]]
      /\ running' = Append(running, r) /\ done' = done
  BY DEF Start
<1>4. Share \in Nat \ {0} /\ MayStart
  BY ShareLeavesOneEach DEF Start
<1> HIDE DEF p, id
<1>5. r \in Run
  BY <1>1, <1>4 DEF Run, Share1
<1>6. \A k \in 1..n : running[k][1] # p /\ running[k][1] \in Pid
  BY <1>1, RunsTyped DEF SchedulerInv, OwnProcesses, Free
<1>7. SchedulerTypeOK'
  <2>1. proc' \in [Pid -> [id : Nat, at : States]]
    BY <1>0, <1>1, <1>2, <1>3 DEF States
  <2>2. running' \in Seq(Run)
    BY <1>0, <1>3, <1>5
  <2>3. IsFiniteSet(Slots(running))'
    BY <1>0, <1>3, <1>5, StartedSlots DEF SchedulerInv, SchedulerTypeOK
  <2> QED
    BY <2>1, <2>2, <2>3, <1>3 DEF SchedulerInv, SchedulerTypeOK
<1>8. /\ n \in Nat /\ Len(running') = n + 1 /\ running'[n + 1] = r
      /\ \A k \in 1..n : running'[k] = running[k]
  BY <1>0, <1>3, <1>5
<1> HIDE DEF r
<1>9. proc'[p].at = "started" /\ proc'[p].id = id /\ \A q \in Pid \ {p} : proc'[q] = proc[q]
  BY <1>0, <1>1, <1>3
<1>10. r[1] = p /\ r[2] = Share
  BY DEF r
<1>11. OwnProcesses'
  <2> SUFFICES ASSUME NEW k \in 1..n + 1
               PROVE  /\ proc'[running'[k][1]].at # "free" /\ proc'[running'[k][1]].id \in Nodes
                      /\ \A j \in 1..n + 1 : running'[j][1] = running'[k][1] => j = k
    BY <1>8 DEF OwnProcesses
  <2>1. CASE k = n + 1
    BY <2>1, <1>2, <1>6, <1>8, <1>9, <1>10
  <2>2. CASE k \in 1..n
    <3>1. proc'[running[k][1]].at # "free" /\ proc'[running[k][1]].id \in Nodes
      BY <2>2, <1>6, <1>9 DEF SchedulerInv, OwnProcesses
    <3>2. \A j \in 1..n : running[j][1] = running[k][1] => j = k
      BY <2>2 DEF SchedulerInv, OwnProcesses
    <3> QED
      BY <2>2, <3>1, <3>2, <1>6, <1>8, <1>10
  <2> QED
    BY <2>1, <2>2, <1>8
<1>12. Ready' \subseteq Ready \ {id}
  <2>1. Runs' = 1..n + 1 /\ Runs = 1..n
    <3>1. DOMAIN running' = 1..Len(running')
      BY <1>7 DEF SchedulerTypeOK
    <3> QED
      BY <3>1, <1>8, RunsTyped DEF Runs
  <2>2. ASSUME NEW x \in Ready' PROVE x \in Ready /\ x # id
    <3>1. x \in Nodes \ done /\ Children[x] \subseteq done
      BY <1>3 DEF Ready
    <3>2. \A k \in 1..n + 1 : proc'[running'[k][1]].id # x
      BY <2>1 DEF Ready
    <3>3. x # id
      BY <3>2, <1>8, <1>9, <1>10
    <3>4. \A k \in 1..n : proc[running[k][1]].id # x
      BY <3>2, <1>6, <1>8, <1>9
    <3> QED
      BY <3>1, <3>3, <3>4, <2>1 DEF Ready
  <2> QED
    BY <2>2
<1>13. Cardinality(Ready') \in Nat /\ Cardinality(Ready') <= Cardinality(Ready) - 1
  <2>1. /\ IsFiniteSet(Ready \ {id})
        /\ Cardinality(Ready \ {id}) = IF id \in Ready THEN Cardinality(Ready) - 1 ELSE Cardinality(Ready)
    BY ReadyIsFinite, FS_RemoveElement
  <2>2. IsFiniteSet(Ready') /\ Cardinality(Ready') <= Cardinality(Ready \ {id})
    BY <2>1, <1>12, FS_Subset
  <2>3. Cardinality(Ready') \in Nat
    BY <2>2, FS_CardinalityType
  <2> QED
    BY <2>1, <2>2, <2>3, <1>2
<1>14. Held' = Held + Share
  BY <1>0, <1>3, <1>5, <1>10, StartedSlots DEF SchedulerInv, SchedulerTypeOK, Held
<1>15. RoomForTheReady'
  <2>1. Held + Share + Least(Cardinality(Ready) - 1, InFlight - n - 1) <= InFlight * ShardsInFlight
    BY <1>4, ShareLeavesOneEach
  <2>2. Least(Cardinality(Ready'), InFlight - (n + 1)) <= Least(Cardinality(Ready) - 1, InFlight - n - 1)
    BY <1>8, <1>13, ReadyIsFinite, Budget DEF Least
  <2>3. n < InFlight
    BY <1>4 DEF MayStart
  <2>4. Least(Cardinality(Ready'), InFlight - (n + 1)) \in Int /\ Least(Cardinality(Ready) - 1, InFlight - n - 1) \in Int
    BY <1>8, <1>13, ReadyIsFinite, Budget DEF Least
  <2>5. Held + Share + Least(Cardinality(Ready'), InFlight - (n + 1)) <= InFlight * ShardsInFlight
    BY <2>1, <2>2, <2>4, <1>4, RunsTyped, Budget
  <2> QED
    BY <2>3, <2>5, <1>8, <1>14, Budget DEF RoomForTheReady
<1> QED
  BY <1>7, <1>11, <1>15 DEF SchedulerInv

\* Of the node that ends, one node at most becomes ready: its parent.
LEMMA ProvedKeepsInv ==
  ASSUME SchedulerInv, NEW k \in Runs, Proved(k)
  PROVE  SchedulerInv'
<1> DEFINE p == running[k][1]
           id == proc[p].id
           n == Len(running)
           place(j) == IF j < k THEN j ELSE j + 1
<1>0. proc \in [Pid -> [id : Nat, at : States]] /\ running \in Seq(Run) /\ done \in SUBSET Nodes
  BY DEF SchedulerInv, SchedulerTypeOK
<1>1. /\ n \in Nat /\ k \in 1..n /\ p \in Pid
      /\ \A j \in 1..n : running[j][1] \in Pid
      /\ running[k][2] \in Nat /\ 1 <= running[k][2] /\ Held \in Nat
  BY RunsTyped
<1>2. /\ proc' = Reaped({p}) /\ running' = RemoveAt(running, k) /\ done' = done \cup {id}
      /\ proc[p].at = "ok" /\ Looping
  BY DEF Proved
<1>3. /\ running' \in Seq(Run) /\ Len(running') = n - 1
      /\ \A j \in 1..n - 1 : running'[j] = running[place(j)]
  BY <1>0, <1>1, <1>2, WithoutOne
<1>4. \A j \in 1..n - 1 : place(j) \in 1..n /\ place(j) # k
  BY <1>1
<1>5. \A i, j \in 1..n - 1 : place(i) = place(j) => i = j
  BY <1>1
<1>6. \A j \in 1..n : j # k => \E i \in 1..n - 1 : place(i) = j
  <2> TAKE j \in 1..n
  <2> HAVE j # k
  <2>1. CASE j < k
    <3>1. j \in 1..n - 1 /\ place(j) = j
      BY <2>1, <1>1
    <3> QED
      BY <3>1
  <2>2. CASE ~(j < k)
    <3>1. j - 1 \in 1..n - 1 /\ place(j - 1) = j
      BY <2>2, <1>1
    <3> QED
      BY <3>1
  <2> QED
    BY <2>1, <2>2
<1> HIDE DEF place, p, id
<1>7. \A q \in Pid \ {p} : proc'[q] = proc[q]
  BY <1>0, <1>2 DEF Reaped
<1>8. \A j \in 1..n : j # k => running[j][1] \in Pid \ {p}
  BY <1>1 DEF SchedulerInv, OwnProcesses, p
<1>9. \A j \in 1..n - 1 : /\ running'[j] = running[place(j)]
                          /\ running'[j][1] \in Pid \ {p}
                          /\ proc'[running'[j][1]] = proc[running[place(j)][1]]
  BY <1>3, <1>4, <1>7, <1>8
<1>10. SchedulerTypeOK'
  <2>1. proc' \in [Pid -> [id : Nat, at : States]]
    BY <1>0, <1>2 DEF Reaped, Free, States
  <2>2. IsFiniteSet(Slots(running))'
    BY <1>0, <1>1, <1>2, EndedSlots DEF SchedulerInv, SchedulerTypeOK
  <2>3. done' \in SUBSET Nodes
    BY <1>0, <1>1, <1>2 DEF SchedulerInv, OwnProcesses, p, id
  <2> QED
    BY <2>1, <2>2, <2>3, <1>0, <1>2, <1>3 DEF SchedulerTypeOK
<1>11. OwnProcesses'
  <2> SUFFICES ASSUME NEW j \in 1..n - 1
               PROVE  /\ proc'[running'[j][1]].at # "free" /\ proc'[running'[j][1]].id \in Nodes
                      /\ \A i \in 1..n - 1 : running'[i][1] = running'[j][1] => i = j
    BY <1>3 DEF OwnProcesses
  <2>1. proc[running[place(j)][1]].at # "free" /\ proc[running[place(j)][1]].id \in Nodes
    BY <1>4 DEF SchedulerInv, OwnProcesses
  <2>2. \A i \in 1..n - 1 : running[place(i)][1] = running[place(j)][1] => place(i) = place(j)
    BY <1>4 DEF SchedulerInv, OwnProcesses
  <2> QED
    BY <2>1, <2>2, <1>5, <1>9
<1>12. Runs' = 1..n - 1 /\ Runs = 1..n
  <2>1. DOMAIN running' = 1..Len(running')
    BY <1>3
  <2> QED
    BY <2>1, <1>3, RunsTyped DEF Runs
<1>13. ASSUME NEW x \in Ready', x \notin Ready
       PROVE  x \in Nodes /\ id \in Children[x]
  <2>1. x \in Nodes /\ x \notin done /\ x # id /\ Children[x] \subseteq done \cup {id}
    BY <1>2, <1>13 DEF Ready
  <2>2. \A j \in 1..n - 1 : proc'[running'[j][1]].id # x
    BY <1>12 DEF Ready
  <2>3. \A j \in 1..n : proc[running[j][1]].id # x
    <3> TAKE j \in 1..n
    <3>1. CASE j = k
      BY <3>1, <2>1 DEF p, id
    <3>2. CASE j # k
      <4>1. PICK i \in 1..n - 1 : place(i) = j
        BY <3>2, <1>6
      <4> QED
        BY <4>1, <2>2, <1>9
    <3> QED
      BY <3>1, <3>2
  <2>4. ~(Children[x] \subseteq done)
    BY <2>1, <2>3, <1>12, <1>13 DEF Ready
  <2> QED
    BY <2>1, <2>4
<1>14. \E m : Ready' \subseteq Ready \cup {m}
  <2>1. CASE Ready' \subseteq Ready
    BY <2>1
  <2>2. CASE ~(Ready' \subseteq Ready)
    <3>1. PICK m \in Ready' : m \notin Ready
      BY <2>2
    <3>2. \A x \in Ready' : x \in Ready \/ x = m
      <4> TAKE x \in Ready'
      <4>1. CASE x \notin Ready
        <5>1. x \in Nodes /\ id \in Children[x] /\ m \in Nodes /\ id \in Children[m]
          BY <4>1, <3>1, <1>13
        <5>2. id \in Nodes
          BY <5>1, TreeAssumption
        <5> QED
          BY <5>1, <5>2, OneParent
      <4> QED
        BY <4>1
    <3> QED
      BY <3>2
  <2> QED
    BY <2>1, <2>2
<1>15. Cardinality(Ready') \in Nat /\ Cardinality(Ready') <= Cardinality(Ready) + 1
  <2>1. PICK m : Ready' \subseteq Ready \cup {m}
    BY <1>14
  <2>2. /\ IsFiniteSet(Ready \cup {m})
        /\ Cardinality(Ready \cup {m}) = IF m \in Ready THEN Cardinality(Ready) ELSE Cardinality(Ready) + 1
    BY ReadyIsFinite, FS_AddElement
  <2>3. IsFiniteSet(Ready') /\ Cardinality(Ready') <= Cardinality(Ready \cup {m})
    BY <2>1, <2>2, FS_Subset
  <2>4. Cardinality(Ready') \in Nat
    BY <2>3, FS_CardinalityType
  <2> QED
    BY <2>2, <2>3, <2>4, ReadyIsFinite
<1>16. Held' = Held - running[k][2]
  BY <1>0, <1>1, <1>2, EndedSlots DEF SchedulerInv, SchedulerTypeOK, Held
<1>17. RoomForTheReady'
  <2>1. n <= InFlight /\ Held + Least(Cardinality(Ready), InFlight - n) <= InFlight * ShardsInFlight
    BY DEF SchedulerInv, RoomForTheReady
  <2>2. /\ Least(Cardinality(Ready'), InFlight - (n - 1)) <= Least(Cardinality(Ready), InFlight - n) + 1
        /\ Least(Cardinality(Ready'), InFlight - (n - 1)) \in Int
        /\ Least(Cardinality(Ready), InFlight - n) \in Int
    BY <1>1, <1>15, ReadyIsFinite, Budget DEF Least
  <2>3. Held - running[k][2] + Least(Cardinality(Ready'), InFlight - (n - 1)) <= InFlight * ShardsInFlight
    BY <2>1, <2>2, <1>1, Budget
  <2> QED
    BY <2>1, <2>3, <1>1, <1>3, <1>16, Budget DEF RoomForTheReady
<1> QED
  BY <1>10, <1>11, <1>17 DEF SchedulerInv

\* A step that leaves the run with no nodes.
LEMMA EmptiesKeepInv ==
  ASSUME SchedulerInv, running' = <<>>, done' \in SUBSET Nodes,
         NEW killed \in SUBSET Pid, proc' = proc \/ proc' = Reaped(killed)
  PROVE  SchedulerInv'
<1>1. proc' \in [Pid -> [id : Nat, at : States]]
  BY DEF SchedulerInv, SchedulerTypeOK, Reaped, Free, States
<1>2. (running = <<>> => IsFiniteSet(Slots(running)) /\ OwnProcesses /\ RoomForTheReady)'
  BY IdleHasRoom, PTL
<1>3. running' \in Seq(Run)
  OBVIOUS
<1> QED
  BY <1>1, <1>2, <1>3 DEF SchedulerInv, SchedulerTypeOK

LEMMA InitHasInv == Init => SchedulerInv
<1> SUFFICES ASSUME Init PROVE SchedulerInv
  OBVIOUS
<1>1. proc \in [Pid -> [id : Nat, at : States]] /\ running \in Seq(Run) /\ done \in SUBSET Nodes
  BY DEF Init, Free, States
<1>2. IsFiniteSet(Slots(running)) /\ OwnProcesses /\ RoomForTheReady
  BY IdleHasRoom DEF Init
<1> QED
  BY <1>1, <1>2 DEF SchedulerInv, SchedulerTypeOK

LEMMA NextKeepsInv ==
  SchedulerInv /\ [Next]_vars => SchedulerInv'
<1> SUFFICES ASSUME SchedulerInv, [Next]_vars PROVE SchedulerInv'
  OBVIOUS
<1>1. ASSUME UNCHANGED <<done, running, proc>> PROVE SchedulerInv'
  <2>1. \A k \in 1..Len(running) :
          proc'[running[k][1]].id = proc[running[k][1]].id /\ proc'[running[k][1]].at # "free"
    BY <1>1 DEF SchedulerInv, OwnProcesses
  <2> QED
    BY <1>1, <2>1, MovesKeepRoom DEF SchedulerInv, SchedulerTypeOK
<1>2. CASE Launch \/ (\E f \in Planned : Check(f)) \/ CheckRoot \/ UNCHANGED vars
  BY <1>1, <1>2 DEF Launch, Check, CheckRoot, vars, nodeVars
<1>3. ASSUME NEW f \in Planned, Write(f) PROVE SchedulerInv'
  <2>1. done' \in SUBSET Nodes
    BY <1>3 DEF Write, SchedulerInv, SchedulerTypeOK
  <2> QED
    BY <1>3, <2>1, EmptiesKeepInv DEF Write, nodeVars
<1>4. CASE Start
  BY <1>4, StartKeepsInv
<1>5. ASSUME NEW k \in Runs, Proved(k) PROVE SchedulerInv'
  BY <1>5, ProvedKeepsInv
<1>6. ASSUME NEW k \in Runs, Failed(k) PROVE SchedulerInv'
  <2>1. Processes \in SUBSET Pid
    BY RunsTyped DEF Processes
  <2> QED
    BY <1>6, <2>1, EmptiesKeepInv DEF Failed, SchedulerInv, SchedulerTypeOK
<1>7. ASSUME NEW p \in Pid, Step(p) PROVE SchedulerInv'
  <2>1. UNCHANGED <<done, running>> /\ proc[p].at # "free"
    BY <1>7 DEF Step, Read, Open, Fill, Rename, schedulerVars
  <2>2. \E at \in States \ {"free"} : proc' = Moved(p, at) \/ proc' = Exit(p, at)
    <3>1. {"proving", "writing", "written", "ok", "failed"} \subseteq States \ {"free"}
      BY DEF States, Ended
    <3> QED
      BY <1>7, <3>1 DEF Step, Read, Open, Fill, Rename
  <2> QED
    BY <2>1, <2>2, ProcessMoves
<1>8. ASSUME NEW p \in Pid, StopNode(p) PROVE SchedulerInv'
  <2>1. UNCHANGED <<done, running>> /\ proc[p].at # "free" /\ proc' = Exit(p, "failed")
    BY <1>8 DEF StopNode, schedulerVars, Live
  <2>2. "failed" \in States \ {"free"}
    BY DEF States, Ended
  <2> QED
    BY <2>1, <2>2, ProcessMoves
<1>9. CASE StopAlone \/ StopAll
  <2>1. PICK killed \in SUBSET Pid : StopRun(killed)
    BY <1>9 DEF StopAlone, StopAll
  <2>2. /\ running' = <<>> /\ done' = done
        /\ proc' = Reaped(killed \cup {p \in Pid : ~Live(p)})
    BY <2>1 DEF StopRun
  <2>3. killed \cup {p \in Pid : ~Live(p)} \in SUBSET Pid
    OBVIOUS
  <2> QED
    BY <2>2, <2>3, EmptiesKeepInv DEF SchedulerInv, SchedulerTypeOK
<1> QED
  BY <1>2, <1>3, <1>4, <1>5, <1>6, <1>7, <1>8, <1>9 DEF Next, Scheduler

-----------------------------------------------------------------------------
(* The theorems *)

\* A run's nodes are processes of their own with a share each, and a shard is
\* spare for every node that is ready and has a place (recurse.rs `run`'s loop).
THEOREM SchedulerInvariance == Spec => []SchedulerInv
<1>1. Spec => Init /\ [][Next]_vars
  BY DEF Spec
<1> QED
  BY <1>1, InitHasInv, NextKeepsInv, PTL

\* `let spare = in_flight * shards_in_flight - held` never goes below zero: what
\* a run has given out is within its budget, whatever was ready when.
THEOREM BudgetIsKept == Spec => []SharesAreWithinTheBudget
<1>1. SchedulerInv => SharesAreWithinTheBudget
  <2> SUFFICES ASSUME SchedulerInv PROVE SharesAreWithinTheBudget
    OBVIOUS
  <2>1. Len(running) <= InFlight /\ Len(running) \in Nat /\ Held \in Nat
    BY RunsTyped DEF SchedulerInv, RoomForTheReady
  <2>2. Least(Cardinality(Ready), InFlight - Len(running)) \in Nat
    BY <2>1, ReadyIsFinite, Budget DEF Least
  <2> QED
    BY <2>1, <2>2, Budget DEF SchedulerInv, RoomForTheReady, SharesAreWithinTheBudget
<1> QED
  BY <1>1, SchedulerInvariance, PTL

\* A run that starts nothing waits for a node of its own, so "no node is ready
\* and none is running" is never said, and a node that is ready waits only for
\* one of the InFlight places, never for shards.
THEOREM NoReadyNodeIsStarved == Spec => []ReadyNodesStart
<1>1. SchedulerInv => ReadyNodesStart
  <2> SUFFICES ASSUME SchedulerInv, Looping, ~MayStart
               PROVE  running # <<>> /\ (Ready = {} \/ Len(running) = InFlight)
    BY DEF ReadyNodesStart
  <2>0. Len(running) <= InFlight /\ Len(running) \in Nat /\ Held \in Nat
    BY RunsTyped DEF SchedulerInv, RoomForTheReady
  <2>1. ASSUME Ready # {} PROVE Len(running) = InFlight
    <3> SUFFICES ASSUME Len(running) < InFlight PROVE FALSE
      BY <2>0, Budget
    <3>1. Cardinality(Ready) \in Nat \ {0}
      BY <2>1, ReadyIsFinite, FS_EmptySet
    <3>2. 1 <= Least(Cardinality(Ready), InFlight - Len(running))
          /\ Least(Cardinality(Ready), InFlight - Len(running)) \in Nat
      BY <3>1, <2>0, Budget DEF Least
    <3>3. Spare > 0
      BY <3>2, <2>0, Budget DEF SchedulerInv, RoomForTheReady, Spare
    <3> QED
      BY <3>3, <2>1 DEF MayStart
  <2>2. ASSUME running = <<>> PROVE FALSE
    <3> DEFINE left == Nodes \ done
               m == Min(left)
    <3>1. left # {} /\ left \subseteq Nat
      BY TreeAssumption DEF Looping
    <3>2. m \in left /\ \A x \in left : m <= x
      BY <3>1, MinIsLeast
    <3>3. \A c \in Children[m] : c \in Nodes /\ c < m /\ c \in Nat /\ m \in Nat
      BY <3>2, TreeAssumption
    <3>4. Children[m] \subseteq done
      BY <3>2, <3>3
    <3>5. Runs = {}
      BY <2>2 DEF Runs
    <3>6. m \in Ready
      BY <3>2, <3>4, <3>5 DEF Ready
    <3>7. Len(running) = 0
      BY <2>2
    <3> QED
      BY <3>6, <3>7, <2>1, Budget
  <2> QED
    BY <2>1, <2>2
<1> QED
  BY <1>1, SchedulerInvariance, PTL
=============================================================================
