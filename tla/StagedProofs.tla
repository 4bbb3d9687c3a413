---------------------------- MODULE StagedProofs ----------------------------
(***************************************************************************)
(* Theorems about StagedProver, for every set of executions, every number  *)
(* of shards, any order in which the tasks of a region end, any crashes    *)
(* and any damage to the file: archives are well formed, a phase holds     *)
(* what an uninterrupted run puts there or bytes that are refused, the     *)
(* answers are those of the statement's order, and a file gives back what  *)
(* was saved.                                                              *)
(*                                                                         *)
(* The inductive invariant StagedInv says of a call what its earlier       *)
(* phases gave it, computed or read back, and so that the execution has no *)
(* shard that fails before the call's phase; of a region, that every       *)
(* result is the one of its shard and no shard has two; of the file, that  *)
(* while export writes it, it is a prefix of the archive's encoding.       *)
(***************************************************************************)
EXTENDS StagedProver, FiniteSetTheorems, SequenceTheorems, WellFoundedInduction, TLAPS

-----------------------------------------------------------------------------
(* What a phase gives, and what an archive holds of it *)

\* The GKR parts as computed, and as read back from an archive.
Computed(e) == [s \in 1..e.shards |-> GkrPart(GlobalCommit(e), s)]
Reread(e) == [s \in 1..e.shards |-> DecodeGkr(EncodeGkr(GkrPart(GlobalCommit(e), s)))]

\* What phase p gives the phases after it.
Gives(e, p) ==
  CASE p = 1 -> {GlobalCommit(e)}
    [] p = 2 -> {Computed(e), Reread(e)}
    [] p = 3 -> {RunProofs(e)}

\* No shard of the execution fails in phase p or before.
Reaches(e, p) == e.unfillable = {} /\ (p >= 2 => e.uncountable = {})

Contents(e, p) == {Empty, Garbled} \cup (IF Reaches(e, p) THEN {RunContent(e, p)} ELSE {})
AnyContent(e) == UNION {Contents(e, p) : p \in LaterPhase}
AnyGiven(e) == {Empty} \cup UNION {Gives(e, p) : p \in 1..3}

\* An archive of e, d changes after the first export.
GoodArchive(e, d, a) ==
  /\ a \in [post : {e}, later : [LaterPhase -> AnyContent(e)],
            timing : [Phase -> Time \cup {Empty}]]
  /\ \A p \in LaterPhase : a.later[p] \in Contents(e, p)
  /\ WellFormed(a)
  /\ d = 0 => \A p \in LaterPhase : a.later[p] # Garbled

-----------------------------------------------------------------------------
(* The inductive invariant *)

\* A call c on an archive a: every phase before the call's is in the archive and
\* gave what it must.  Only a prove_block gets to finish.
CallOK(e, a, c) ==
  /\ c \in [phase : 0..5, until : 0..4, block : BOOLEAN, working : BOOLEAN,
            got : [1..3 -> AnyGiven(e)]]
  /\ c.phase = 0 => ~c.working
  /\ c.phase # 0 =>
       /\ a # NoArchive
       /\ c.until # 0 /\ (c.block => c.until = 4) /\ (c.phase <= c.until \/ c.block)
       /\ \A q \in LaterPhase : q < c.phase => a.later[q] # Empty
       /\ \A q \in 1..3 : q < c.phase => c.got[q] \in Gives(e, q) /\ Reaches(e, q)
  /\ c.working => c.phase \in {2, 3} /\ a.later[c.phase] = Empty

\* The results of a region are their shards' own, one a shard at most.
RegionOK ==
  /\ ended \in Seq({TaskResult(i) : i \in Shards})
  /\ \A k, l \in 1..Len(ended) : ended[k].at = ended[l].at => k = l
  /\ ~call.working => ended = <<>>

\* What an entry of a file may hold, exported or changed.
Values(e, i) ==
  CASE i = 1 -> {Empty, Garbled, e}
    [] i \in 2..5 -> Contents(e, i - 1)
    [] i \in 6..10 -> Time \cup {Empty}
    [] OTHER -> Time \cup {Empty, Garbled}

FileOK(e, d, f) ==
  /\ f \in Seq([tag : Phase, value : UNION {Values(e, i) : i \in 1..11}, shortest : BOOLEAN])
  /\ \A i \in 1..10 : i <= Len(f) => f[i].value \in Values(e, i)
  /\ Len(f) <= 10 + d

\* An export that goes on wrote a prefix of the archive; one that ended wrote all
\* of it, and until the file is changed no other file is complete.
ExportOK ==
  /\ saving => /\ archive # NoArchive /\ call.phase = 0
               /\ saved = NoArchive /\ Len(file) < 10
               /\ \A i \in 1..Len(file) : file[i] = Exported(archive)[i]
  /\ saved = NoArchive \/ GoodArchive(execution, damage, saved)
  /\ damage = 0 => IF saved = NoArchive THEN Len(file) < 10 ELSE file = Exported(saved)

AnswerOK(e, d, a) ==
  /\ a.kind = "block" => a.block = RunContent(e, 4)
  /\ d = 0 /\ a.kind \notin {"none", "plan", "panic"} =>
       <<IF a.kind = "block" THEN "ok" ELSE a.kind, a.at>> = Expected(e, a.until)

StagedInv ==
  /\ execution \in Execution /\ damage \in 0..MaxDamage /\ saving \in BOOLEAN
  /\ archive = NoArchive \/ GoodArchive(execution, damage, archive)
  /\ CallOK(execution, archive, call)
  /\ RegionOK
  /\ FileOK(execution, damage, file)
  /\ ExportOK
  /\ AnswerOK(execution, damage, answer)

-----------------------------------------------------------------------------
(* Sets and terms *)

\* A set of naturals that is not empty has a least element: Least is one.
LEMMA LeastIsIn ==
  ASSUME NEW S \in SUBSET Nat, S # {}
  PROVE  Least(S) \in S
<1> DEFINE R == {ss \in Nat \X Nat : ss[1] < ss[2]}
<1>1. IsWellFoundedOn(R, Nat)
  BY NatLessThanWellFounded DEF OpToRel
<1>2. \A x, y \in Nat : x < y => <<x, y>> \in R
  OBVIOUS
<1> HIDE DEF R
<1>3. PICK m \in S : \A x \in S : ~(<<x, m>> \in R)
  BY <1>1, WFMin
<1>4. \A x \in S : ~(x < m)
  BY <1>2, <1>3
<1>5. \E m1 \in S : \A x \in S : m1 <= x
  BY <1>4
<1> QED
  BY <1>5 DEF Least

\* No more places than shards, and a place for every shard when there are as many.
LEMMA OnePlaceEach ==
  ASSUME NEW n \in Nat, NEW m \in Nat, NEW at \in [1..m -> 1..n],
         \A k, l \in 1..m : at[k] = at[l] => k = l
  PROVE  /\ m <= n
         /\ m = n => \A i \in 1..n : \E k \in 1..m : at[k] = i
<1>1. IsFiniteSet(1..n) /\ Cardinality(1..n) = n /\ Cardinality(1..m) = m
  BY 1 \in Int, n \in Int, m \in Int, FS_Interval
<1>2. at \in Injection(1..m, 1..n)
  BY DEF Injection, IsInjective
<1>3. /\ Cardinality(1..m) <= Cardinality(1..n)
      /\ Cardinality(1..m) = Cardinality(1..n) <=> at \in Surjection(1..m, 1..n)
  BY <1>1, <1>2, FS_Injection
<1> QED
  BY <1>1, <1>3 DEF Surjection

LEMMA NoShardWithout ==
  ASSUME NEW n \in Nat, NEW at \in [1..n -> 1..n],
         \A k, l \in 1..n : at[k] = at[l] => k = l
  PROVE  \A i \in 1..n : \E k \in 1..n : at[k] = i
BY OnePlaceEach

\* An execution, its shards and what its phases hold.
LEMMA Executed ==
  ASSUME NEW e \in Execution
  PROVE  /\ e.shards \in Nat \ {0} /\ e.recursion \in BOOLEAN
         /\ e.unfillable \in SUBSET (1..e.shards) /\ e.uncountable \in SUBSET (1..e.shards)
         /\ e # Empty /\ e # Garbled
         /\ \A p \in LaterPhase : RunContent(e, p) # Empty /\ RunContent(e, p) # Garbled
BY ExecutionAssumption, AbsentAssumption, ContentAssumption

\* What a phase computes is stored as an uninterrupted run stores it.
LEMMA ComputedIsStored ==
  ASSUME NEW e
  PROVE  /\ Encoded(1, GlobalCommit(e)) = RunContent(e, 1)
         /\ Encoded(2, Computed(e)) = RunContent(e, 2)
         /\ Encoded(3, RunProofs(e)) = RunContent(e, 3)
         /\ Encoded(4, FinalOf(GlobalCommit(e), RunProofs(e))) = RunContent(e, 4)
<1>1. [i \in DOMAIN Computed(e) |-> EncodeGkr(Computed(e)[i])]
        = [s \in 1..e.shards |-> EncodeGkr(GkrPart(GlobalCommit(e), s))]
  BY DEF Computed
<1>2. Encoded(2, Computed(e)) = RunContent(e, 2)
  BY <1>1 DEF Encoded, RunContent
<1> QED
  BY <1>2 DEF Encoded, RunContent

\* What is read back is what a phase gives.
LEMMA StoredIsGiven ==
  ASSUME NEW e, NEW p \in 1..3
  PROVE  Decoded(p, RunContent(e, p)) \in Gives(e, p)
<1> DEFINE c == [s \in 1..e.shards |-> EncodeGkr(GkrPart(GlobalCommit(e), s))]
<1>1. [i \in DOMAIN c |-> DecodeGkr(c[i])] = Reread(e)
  BY DEF Reread
<1>2. CASE p = 2
  BY <1>2, <1>1 DEF Decoded, RunContent, Gives
<1>3. CASE p = 1
  BY <1>3 DEF Decoded, RunContent, Gives
<1>4. CASE p = 3
  BY <1>4 DEF Decoded, RunContent, Gives
<1> QED
  BY <1>2, <1>3, <1>4

\* The opening goes on from a GKR part, computed or read back, to the same proof:
\* of a transcript it takes only what a snapshot keeps.
LEMMA OpeningsAreTheRuns ==
  ASSUME NEW e, NEW got \in Gives(e, 2), NEW i \in 1..e.shards
  PROVE  got[i].shard = i /\ OpeningPart(GlobalCommit(e), got[i]) = RunProofs(e)[i]
<1> DEFINE g == GkrPart(GlobalCommit(e), i)
<1>1. got[i] = g \/ got[i] = DecodeGkr(EncodeGkr(g))
  <2>1. got = Computed(e) \/ got = Reread(e)
    BY DEF Gives
  <2>2. Computed(e)[i] = g
    BY DEF Computed
  <2>3. Reread(e)[i] = DecodeGkr(EncodeGkr(g))
    BY DEF Reread
  <2> QED
    BY <2>1, <2>2, <2>3
<1>2. g.shard = i /\ g.root = i
  BY DEF GkrPart
<1>3. LET d == DecodeGkr(EncodeGkr(g)) IN
        /\ d.shard = g.shard /\ d.root = g.root
        /\ d.transcript.seed = g.transcript.seed
        /\ d.transcript.absorbed = g.transcript.absorbed
  BY DEF DecodeGkr, EncodeGkr, Snapshot, Restore
<1>4. OpeningPart(GlobalCommit(e), DecodeGkr(EncodeGkr(g))) = OpeningPart(GlobalCommit(e), g)
  BY <1>3 DEF OpeningPart
<1>5. RunProofs(e)[i] = OpeningPart(GlobalCommit(e), g)
  BY DEF RunProofs
<1> QED
  BY <1>1, <1>2, <1>3, <1>4, <1>5

-----------------------------------------------------------------------------
(* Archives and files *)

LEMMA GoodArchiveMeans ==
  ASSUME NEW e \in Execution, NEW d, NEW a, GoodArchive(e, d, a)
  PROVE  /\ a.post = e /\ a # NoArchive /\ a.post # Empty
         /\ a.later = [p \in LaterPhase |-> a.later[p]]
         /\ a.timing = [p \in Phase |-> a.timing[p]]
         /\ a = [post |-> a.post, later |-> a.later, timing |-> a.timing]
         /\ \A p \in Phase : a.timing[p] \in Time \cup {Empty}
         /\ \A p \in LaterPhase : a.later[p] \in Contents(e, p)
BY Executed DEF GoodArchive, NoArchive

\* A file of an export that ended gives back the archive.
LEMMA ExportsAreRead ==
  ASSUME NEW e \in Execution, NEW d, NEW a, GoodArchive(e, d, a)
  PROVE  /\ Imported(Exported(a)) = a
         /\ Accepts(Exported(a))
         /\ Exported(a) \in Seq([tag : Phase, value : UNION {Values(e, i) : i \in 1..11},
                                 shortest : BOOLEAN])
         /\ \A i \in 1..10 : Exported(a)[i].value \in Values(e, i)
         /\ Len(Exported(a)) = 10
<1> DEFINE f == Exported(a)
<1>0. /\ a.post = e /\ e # Empty /\ e # Garbled
      /\ a.later = [p \in LaterPhase |-> a.later[p]]
      /\ a.timing = [p \in Phase |-> a.timing[p]]
      /\ a = [post |-> a.post, later |-> a.later, timing |-> a.timing]
      /\ \A p \in Phase : a.timing[p] \in Time \cup {Empty}
      /\ \A p \in LaterPhase : a.later[p] \in Contents(e, p)
  BY GoodArchiveMeans, Executed
<1>1. /\ f[1] = Entry(0, e)
      /\ \A p \in LaterPhase : f[p + 1] = Entry(p, a.later[p])
      /\ \A p \in Phase : f[p + 6] = Entry(p, a.timing[p])
  BY <1>0 DEF Exported, Phase, LaterPhase
<1>2. /\ f[1].value = e /\ f[1].tag = 0
      /\ \A p \in LaterPhase : f[p + 1].value = a.later[p] /\ f[p + 1].tag = p
      /\ \A p \in Phase : f[p + 6].value = a.timing[p] /\ f[p + 6].tag = p
  <2>1. \A tag, value : Entry(tag, value).tag = tag /\ Entry(tag, value).value = value
    BY DEF Entry
  <2> HIDE DEF f
  <2> QED
    BY <1>1, <2>1
<1>3. Imported(f) = a
  <2>1. [p \in LaterPhase |-> f[p + 1].value] = a.later
    BY <1>0, <1>2
  <2>2. [p \in Phase |-> f[p + 6].value] = a.timing
    BY <1>0, <1>2
  <2> HIDE DEF f
  <2>3. Imported(f) = [post |-> a.post, later |-> a.later, timing |-> a.timing]
    BY <2>1, <2>2, <1>0, <1>2 DEF Imported
  <2> QED
    BY <2>3, <1>0
<1>4. \A i \in 1..10 : /\ f[i].value \in Values(e, i)
                       /\ f[i] \in [tag : Phase, value : Values(e, i), shortest : BOOLEAN]
  <2> TAKE i \in 1..10
  <2>1. CASE i = 1
    BY <2>1, <1>1, <1>2 DEF Values, Entry, Phase
  <2>2. CASE i \in 2..5
    <3>1. i - 1 \in LaterPhase /\ i = (i - 1) + 1 /\ i # 1 /\ i - 1 \in Phase
      BY <2>2 DEF LaterPhase, Phase
    <3>2. f[i] = Entry(i - 1, a.later[i - 1]) /\ a.later[i - 1] \in Contents(e, i - 1)
      BY <3>1, <1>1, <1>0
    <3>3. Values(e, i) = Contents(e, i - 1)
      BY <3>1, <2>2 DEF Values
    <3> QED
      BY <3>1, <3>2, <3>3 DEF Entry
  <2>3. CASE i \in 6..10
    <3>1. i - 6 \in Phase /\ i = (i - 6) + 6 /\ i # 1 /\ i \notin 2..5
      BY <2>3 DEF Phase
    <3>2. f[i] = Entry(i - 6, a.timing[i - 6]) /\ a.timing[i - 6] \in Time \cup {Empty}
      BY <3>1, <1>1, <1>0
    <3>3. Values(e, i) = Time \cup {Empty}
      BY <3>1, <2>3 DEF Values
    <3> QED
      BY <3>1, <3>2, <3>3 DEF Entry
  <2> QED
    BY <2>1, <2>2, <2>3
<1>5. Len(f) = 10 /\ DOMAIN f = 1..10
  BY DEF Exported
<1>6. f \in Seq([tag : Phase, value : UNION {Values(e, i) : i \in 1..11}, shortest : BOOLEAN])
  <2> DEFINE S == [tag : Phase, value : UNION {Values(e, i) : i \in 1..11}, shortest : BOOLEAN]
  <2>1. \A i \in 1..10 : f[i] \in S
    BY <1>4
  <2>2. f = [i \in 1..10 |-> f[i]]
    BY DEF Exported
  <2> HIDE DEF S, f
  <2>3. [i \in 1..10 |-> f[i]] \in Seq(S)
    BY <2>1, 10 \in Nat, IsASeq
  <2> QED
    BY <2>2, <2>3 DEF S
<1>7. Accepts(f)
  <2>1. WellFormed(a)
    BY DEF GoodArchive
  <2>2. TagsInOrder(f)
    BY <1>2 DEF TagsInOrder, Phase, LaterPhase
  <2>3. TimedWhenFilled(f)
    <3>1. \A p \in Phase : p = 0 \/ p \in LaterPhase
      BY DEF Phase, LaterPhase
    <3>2. 0 \in Phase /\ LaterPhase \subseteq Phase
      BY DEF Phase, LaterPhase
    <3>3. a.timing[0] # Empty
      BY <2>1, <3>2 DEF WellFormed, IsFilled
    <3>4. ASSUME NEW p \in Phase PROVE f[p + 1].value = Empty <=> f[p + 6].value = Empty
      <4>1. CASE p = 0
        BY <4>1, <3>2, <3>3, <1>2, <1>0
      <4>2. CASE p \in LaterPhase
        <5>1. p # 0
          BY <4>2 DEF LaterPhase
        <5> HIDE DEF f
        <5> QED
          BY <4>2, <5>1, <3>2, <2>1, <1>2 DEF WellFormed, IsFilled
      <4> QED
        BY <4>1, <4>2, <3>1
    <3> QED
      BY <3>4 DEF TimedWhenFilled
  <2>4. FilledInOrder(f)
    <3>1. ASSUME NEW p \in LaterPhase, f[p + 1].value # Empty PROVE f[p].value # Empty
      <4>1. IsFilled(a, p - 1)
        BY <3>1, <2>1, <1>2 DEF WellFormed, IsFilled
      <4>2. CASE p = 1
        BY <4>2, <1>2, <1>0
      <4>3. CASE p # 1
        <5>1. p - 1 \in LaterPhase /\ p = (p - 1) + 1 /\ p - 1 # 0
          BY <4>3 DEF LaterPhase
        <5>2. f[p].value = a.later[p - 1]
          BY <5>1, <1>2
        <5> QED
          BY <5>1, <5>2, <4>1 DEF IsFilled
      <4> QED
        BY <4>2, <4>3
    <3> QED
      BY <3>1 DEF FilledInOrder
  <2> QED
    BY <1>5, <2>2, <2>3, <2>4, <1>2, <1>0, <1>3 DEF Accepts
<1> QED
  BY <1>3, <1>4, <1>5, <1>6, <1>7

\* What a file that is taken gives is an archive of the execution.
LEMMA AcceptedIsGood ==
  ASSUME NEW e \in Execution, NEW d \in Nat, NEW f, FileOK(e, d, f), Accepts(f), d # 0
  PROVE  GoodArchive(e, d, Imported(f))
<1> DEFINE a == Imported(f)
<1>1. Len(f) = 10 /\ f[1].value = e
  BY DEF Accepts, FileOK, Values
<1>2. /\ a.post = f[1].value
      /\ \A p \in LaterPhase : a.later[p] = f[p + 1].value
      /\ \A p \in Phase : a.timing[p] = f[p + 6].value
  BY DEF Imported
<1>3. \A p \in LaterPhase : f[p + 1].value \in Contents(e, p)
  <2> TAKE p \in LaterPhase
  <2>1. p + 1 \in 2..5 /\ p + 1 \in 1..10 /\ p + 1 # 1 /\ (p + 1) - 1 = p /\ p + 1 <= 10
    BY DEF LaterPhase
  <2>2. Values(e, p + 1) = Contents(e, p)
    BY <2>1 DEF Values
  <2> QED
    BY <2>1, <2>2, <1>1 DEF FileOK
<1>4. \A p \in Phase : f[p + 6].value \in Time \cup {Empty}
  <2> TAKE p \in Phase
  <2>1. p + 6 \in 6..10 /\ p + 6 \in 1..10 /\ p + 6 # 1 /\ p + 6 \notin 2..5 /\ p + 6 <= 10
    BY DEF Phase
  <2>2. Values(e, p + 6) = Time \cup {Empty}
    BY <2>1 DEF Values
  <2> QED
    BY <2>1, <2>2, <1>1 DEF FileOK
<1>5. WellFormed(a)
  <2>1. TimedWhenFilled(f) /\ FilledInOrder(f) /\ f[1].value # Empty
    BY DEF Accepts
  <2>2. \A p \in Phase : IsFilled(a, p) <=> f[p + 1].value # Empty
    <3> TAKE p \in Phase
    <3>1. CASE p = 0
      BY <3>1, <2>1 DEF IsFilled
    <3>2. CASE p # 0
      <4>1. p \in LaterPhase
        BY <3>2 DEF LaterPhase, Phase
      <4> HIDE DEF a
      <4> QED
        BY <4>1, <3>2, <1>2 DEF IsFilled
    <3> QED
      BY <3>1, <3>2
  <2>3. \A p \in LaterPhase : p \in Phase /\ p - 1 \in Phase /\ (p - 1) + 1 = p
    BY DEF LaterPhase, Phase
  <2> HIDE DEF a
  <2>4. \A p \in Phase : IsFilled(a, p) <=> a.timing[p] # Empty
    BY <2>1, <2>2, <1>2 DEF TimedWhenFilled
  <2>5. \A p \in LaterPhase : IsFilled(a, p) => IsFilled(a, p - 1)
    <3> TAKE p \in LaterPhase
    <3>1. IsFilled(a, p) <=> f[p + 1].value # Empty
      BY <2>2, <2>3
    <3>2. IsFilled(a, p - 1) <=> f[p].value # Empty
      BY <2>2, <2>3
    <3> QED
      BY <3>1, <3>2, <2>1 DEF FilledInOrder
  <2> QED
    BY <2>4, <2>5 DEF WellFormed
<1>6. a \in [post : {e}, later : [LaterPhase -> AnyContent(e)], timing : [Phase -> Time \cup {Empty}]]
  <2>1. [p \in LaterPhase |-> f[p + 1].value] \in [LaterPhase -> AnyContent(e)]
    BY <1>3 DEF AnyContent
  <2>2. [p \in Phase |-> f[p + 6].value] \in [Phase -> Time \cup {Empty}]
    BY <1>4
  <2> QED
    BY <2>1, <2>2, <1>1 DEF Imported
<1> QED
  BY <1>2, <1>3, <1>5, <1>6, d # 0 DEF GoodArchive

\* A phase is filled once, after the one before it, with what the run stores.
LEMMA FilledIsGood ==
  ASSUME NEW e \in Execution, NEW d, NEW a, GoodArchive(e, d, a),
         NEW p \in LaterPhase, MayFill(a, p), Reaches(e, p), NEW t \in Time
  PROVE  LET b == Filled(a, p, RunContent(e, p), t) IN
           /\ GoodArchive(e, d, b)
           /\ \A q \in LaterPhase : b.later[q] = IF q = p THEN RunContent(e, p) ELSE a.later[q]
<1> DEFINE c == RunContent(e, p)
           b == Filled(a, p, c, t)
           later == [q \in LaterPhase |-> IF q = p THEN c ELSE a.later[q]]
           timing == [q \in Phase |-> IF q = p THEN t ELSE a.timing[q]]
<1>0. /\ a \in [post : {e}, later : [LaterPhase -> AnyContent(e)],
                timing : [Phase -> Time \cup {Empty}]]
      /\ \A q \in LaterPhase : a.later[q] \in Contents(e, q)
      /\ WellFormed(a)
      /\ d = 0 => \A q \in LaterPhase : a.later[q] # Garbled
  BY DEF GoodArchive
<1>1. c # Empty /\ c # Garbled /\ c \in Contents(e, p) /\ t # Empty
  BY Executed, AbsentAssumption DEF Contents
<1>2. b = [post |-> e, later |-> later, timing |-> timing]
  <2>1. [a.later EXCEPT ![p] = c] = later
    BY <1>0
  <2>2. [a.timing EXCEPT ![p] = t] = timing
    BY <1>0
  <2>3. b = [post |-> a.post, later |-> [a.later EXCEPT ![p] = c],
             timing |-> [a.timing EXCEPT ![p] = t]]
    <3>1. a = [post |-> a.post, later |-> a.later, timing |-> a.timing]
      BY <1>0
    <3>2. b = [[a EXCEPT !.later = [a.later EXCEPT ![p] = c]]
                  EXCEPT !.timing = [a.timing EXCEPT ![p] = t]]
      BY <1>0, <3>1 DEF Filled
    <3> QED
      BY <3>1, <3>2
  <2> QED
    BY <2>1, <2>2, <2>3, <1>0
<1>3. \A q \in LaterPhase : later[q] \in Contents(e, q)
  BY <1>0, <1>1
<1>4. later \in [LaterPhase -> AnyContent(e)]
  BY <1>3 DEF AnyContent
<1>5. timing \in [Phase -> Time \cup {Empty}]
  BY <1>0
<1>6. b.later = later /\ b.timing = timing
  BY <1>2
<1> HIDE DEF c
<1>7. /\ \A q \in LaterPhase : q \in Phase /\ q - 1 \in Phase /\ q # 0
      /\ \A q \in Phase : q = 0 \/ q \in LaterPhase
  BY DEF LaterPhase, Phase
<1>8. /\ \A q \in LaterPhase : b.later[q] = IF q = p THEN c ELSE a.later[q]
      /\ \A q \in Phase : b.timing[q] = IF q = p THEN t ELSE a.timing[q]
  BY <1>6
<1> HIDE DEF b, later, timing
<1>9. \A q \in Phase : IsFilled(b, q) <=> q = p \/ IsFilled(a, q)
  BY <1>8, <1>7, <1>1 DEF IsFilled
<1>10. WellFormed(b)
  <2>1. \A q \in Phase : IsFilled(b, q) <=> b.timing[q] # Empty
    BY <1>8, <1>9, <1>1, <1>0 DEF WellFormed
  <2>2. \A q \in LaterPhase : IsFilled(b, q) => IsFilled(b, q - 1)
    BY <1>7, <1>9, <1>0 DEF WellFormed, MayFill
  <2> QED
    BY <2>1, <2>2 DEF WellFormed
<1>11. d = 0 => \A q \in LaterPhase : b.later[q] # Garbled
  BY <1>8, <1>1, <1>0
<1>12. b \in [post : {e}, later : [LaterPhase -> AnyContent(e)], timing : [Phase -> Time \cup {Empty}]]
  BY <1>2, <1>4, <1>5
<1>13. GoodArchive(e, d, b)
  BY <1>12, <1>8, <1>6, <1>3, <1>10, <1>11 DEF GoodArchive
<1> QED
  BY <1>13, <1>8 DEF b, c

-----------------------------------------------------------------------------
(* A step of a call *)

\* A call's steps leave the file and what was saved alone.
LEMMA CallStepKeeps ==
  ASSUME StagedInv, UNCHANGED <<execution, file, saving, saved, damage>>, ~saving,
         archive' = NoArchive \/ GoodArchive(execution, damage, archive'),
         CallOK(execution, archive', call'), ended' = <<>>,
         AnswerOK(execution, damage, answer')
  PROVE  StagedInv'
<1>1. RegionOK'
  <2>1. ended' \in Seq({TaskResult(i)' : i \in Shards'})
    OBVIOUS
  <2>2. Len(ended') = 0
    OBVIOUS
  <2> QED
    BY <2>1, <2>2 DEF RegionOK
<1>2. ExportOK'
  BY DEF StagedInv, ExportOK
<1> QED
  BY <1>1, <1>2 DEF StagedInv

LEMMA NoCallOK ==
  ASSUME NEW e, NEW a
  PROVE  CallOK(e, a, NoCall)
BY DEF CallOK, NoCall, AnyGiven

\* A call returns.
LEMMA ReturnKeeps ==
  ASSUME StagedInv, NEW ans, Return(ans), UNCHANGED archive, ~saving,
         AnswerOK(execution, damage, ans)
  PROVE  StagedInv'
<1>1. /\ call' = NoCall /\ ended' = <<>> /\ answer' = ans
      /\ UNCHANGED <<execution, file, saving, saved, damage>>
  BY DEF Return
<1>2. archive' = NoArchive \/ GoodArchive(execution, damage, archive')
  BY DEF StagedInv
<1> QED
  BY <1>1, <1>2, NoCallOK, CallStepKeeps

\* What the invariant says of a call that goes on.
LEMMA CallMeans ==
  ASSUME StagedInv, Calling
  PROVE  /\ execution \in Execution /\ GoodArchive(execution, damage, archive)
         /\ ~saving /\ Running
         /\ call.phase \in 1..5 /\ call.until \in LaterPhase
         /\ call \in [phase : 0..5, until : 0..4, block : BOOLEAN, working : BOOLEAN,
                      got : [1..3 -> AnyGiven(execution)]]
         /\ (call.block => call.until = 4) /\ (call.phase <= call.until \/ call.block)
         /\ \A q \in LaterPhase : q < call.phase => Held(q) # Empty
         /\ \A q \in 1..3 : q < call.phase => /\ call.got[q] \in Gives(execution, q)
                                              /\ Reaches(execution, q)
         /\ call.working => call.phase \in {2, 3} /\ Held(call.phase) = Empty
<1>1. CallOK(execution, archive, call) /\ call.phase # 0
  BY DEF StagedInv, Calling
<1>2. archive # NoArchive
  BY <1>1 DEF CallOK
<1>3. GoodArchive(execution, damage, archive) /\ execution \in Execution
  BY <1>2 DEF StagedInv
<1>4. Running
  BY <1>3, GoodArchiveMeans DEF Running
<1>5. ~saving
  BY <1>1 DEF StagedInv, ExportOK
<1> QED
  BY <1>1, <1>3, <1>4, <1>5 DEF CallOK, LaterPhase, Held

LEMMA OkIsExpected ==
  ASSUME NEW e, NEW n \in 1..4, Reaches(e, n)
  PROVE  Expected(e, n) = <<"ok", 0>>
BY DEF Reaches, Expected

\* The archive holds phase p, which gave got: the call returns or goes on.
LEMMA ProceedKeeps ==
  ASSUME StagedInv, Calling, NEW p \in LaterPhase, call.phase = p,
         GoodArchive(execution, damage, archive'),
         \A q \in LaterPhase : q <= p => archive'.later[q] # Empty,
         NEW got, p # 4 => got \in Gives(execution, p) /\ Reaches(execution, p),
         Proceed(p, got)
  PROVE  StagedInv'
<1>0. /\ execution \in Execution /\ ~saving
      /\ call.until \in LaterPhase
      /\ call \in [phase : 0..5, until : 0..4, block : BOOLEAN, working : BOOLEAN,
                   got : [1..3 -> AnyGiven(execution)]]
      /\ (call.block => call.until = 4) /\ (call.phase <= call.until \/ call.block)
      /\ \A q \in 1..3 : q < p => /\ call.got[q] \in Gives(execution, q)
                                  /\ Reaches(execution, q)
  BY CallMeans
<1>1. CASE call.until = p /\ ~call.block
  <2>1. Return(Answer("ok", 0))
    BY <1>1 DEF Proceed
  <2>2. Reaches(execution, p)
    <3>1. CASE p = 4
      BY <3>1, <1>0, 3 \in 1..3 DEF Reaches
    <3> QED
      BY <3>1
  <2>3. AnswerOK(execution, damage, Answer("ok", 0))
    <3>1. p \in 1..4
      BY DEF LaterPhase
    <3>2. Expected(execution, p) = <<"ok", 0>>
      BY <3>1, <2>2, OkIsExpected
    <3> QED
      BY <3>2, <1>1 DEF AnswerOK, Answer, NoAnswer
  <2>4. /\ call' = NoCall /\ ended' = <<>> /\ answer' = Answer("ok", 0)
        /\ UNCHANGED <<execution, file, saving, saved, damage>>
    BY <2>1 DEF Return
  <2> QED
    BY <2>3, <2>4, <1>0, NoCallOK, CallStepKeeps
<1>2. CASE ~(call.until = p /\ ~call.block)
  <2> DEFINE gots == [q \in 1..3 |-> IF q = p THEN got ELSE call.got[q]]
             new == [call EXCEPT !.phase = p + 1, !.working = FALSE, !.got = gots]
  <2>1. Continue(new)
    BY <1>2 DEF Proceed
  <2>3. /\ call' = new /\ ended' = <<>>
        /\ UNCHANGED <<execution, answer, file, saving, saved, damage>>
    BY <2>1 DEF Continue
  <2>4. p \in 1..4 /\ p + 1 \in 1..5
    BY DEF LaterPhase
  <2>5. \A q \in 1..3 : q < p + 1 => gots[q] \in Gives(execution, q) /\ Reaches(execution, q)
    <3> TAKE q \in 1..3
    <3> HAVE q < p + 1
    <3>1. CASE q = p
      BY <3>1
    <3>2. CASE q # p
      BY <3>2, <1>0, <2>4
    <3> QED
      BY <3>1, <3>2
  <2>6. gots \in [1..3 -> AnyGiven(execution)]
    <3>1. \A q \in 1..3 : gots[q] \in AnyGiven(execution)
      <4> TAKE q \in 1..3
      <4>1. CASE q = p
        BY <4>1, <2>5, <2>4 DEF AnyGiven
      <4>2. CASE q # p
        BY <4>2, <1>0
      <4> QED
        BY <4>1, <4>2
    <3> QED
      BY <3>1
  <2> HIDE DEF gots
  <2>7. new \in [phase : 0..5, until : 0..4, block : BOOLEAN, working : BOOLEAN,
                 got : [1..3 -> AnyGiven(execution)]]
    <3> DEFINE G == [1..3 -> AnyGiven(execution)]
    <3>1. p + 1 \in 0..5 /\ gots \in G
      BY <2>4, <2>6
    <3> HIDE DEF G
    <3> QED
      BY <3>1, <1>0 DEF G
  <2>8. /\ new.phase = p + 1 /\ new.until = call.until /\ new.block = call.block
        /\ new.got = gots /\ ~new.working
    BY <1>0
  <2>9. archive' # NoArchive
    BY <1>0, GoodArchiveMeans
  <2> HIDE DEF new
  <2>10. call.until # 0 /\ (call.block => call.until = 4) /\ (p + 1 <= call.until \/ call.block)
    BY <1>0, <1>2, <2>4 DEF LaterPhase
  <2>11. \A q \in LaterPhase : q < p + 1 => archive'.later[q] # Empty
    BY <2>4 DEF LaterPhase
  <2>12. CallOK(execution, archive', new)
    BY <2>7, <2>8, <2>9, <2>10, <2>11, <2>5, <2>4 DEF CallOK
  <2>13. AnswerOK(execution, damage, answer')
    BY <2>3 DEF StagedInv
  <2> QED
    BY <2>3, <2>12, <2>13, <1>0, CallStepKeeps
<1> QED
  BY <1>1, <1>2

\* A phase computed is filled: no phase is out of its turn.
LEMMA CompleteKeeps ==
  ASSUME StagedInv, Calling, NEW p \in LaterPhase, call.phase = p, Held(p) = Empty,
         NEW got, Encoded(p, got) = RunContent(execution, p), Reaches(execution, p),
         p # 4 => got \in Gives(execution, p), Complete(p, got)
  PROVE  StagedInv'
<1>0. /\ execution \in Execution /\ GoodArchive(execution, damage, archive)
      /\ \A q \in LaterPhase : q < p => Held(q) # Empty
  BY CallMeans
<1>1. MayFill(archive, p)
  <2>1. p - 1 = 0 \/ (p - 1 \in LaterPhase /\ p - 1 < p)
    BY DEF LaterPhase
  <2> QED
    BY <2>1, <1>0 DEF MayFill, IsFilled, Held, LaterPhase
<1>2. PICK t \in Time : archive' = Filled(archive, p, RunContent(execution, p), t)
  BY <1>1 DEF Complete
<1>3. Proceed(p, got)
  BY <1>1 DEF Complete
<1>4. /\ GoodArchive(execution, damage, archive')
      /\ \A q \in LaterPhase : archive'.later[q]
            = IF q = p THEN RunContent(execution, p) ELSE archive.later[q]
  BY <1>0, <1>1, <1>2, FilledIsGood
<1>5. \A q \in LaterPhase : q <= p => archive'.later[q] # Empty
  <2> TAKE q \in LaterPhase
  <2>1. q = p \/ q < p \/ ~(q <= p)
    BY DEF LaterPhase
  <2> QED
    BY <2>1, <1>0, <1>4, Executed DEF Held
<1> QED
  BY <1>3, <1>4, <1>5, ProceedKeeps

-----------------------------------------------------------------------------
(* The phases *)

LEMMA ReadBackKeeps ==
  ASSUME StagedInv, NEW p \in LaterPhase, ReadBack(p)
  PROVE  StagedInv'
<1>0. /\ Calling /\ call.phase = p /\ Held(p) # Empty /\ UNCHANGED archive
  BY DEF ReadBack, At
<1>1. /\ execution \in Execution /\ ~saving /\ GoodArchive(execution, damage, archive)
      /\ \A q \in LaterPhase : q < p => Held(q) # Empty
  BY <1>0, CallMeans
<1>2. CASE p # 4 /\ Held(p) = Garbled
  <2>1. Return(Answer("archive", p))
    BY <1>2 DEF ReadBack
  <2>2. damage # 0
    BY <1>1, <1>2 DEF GoodArchive, Held
  <2>3. AnswerOK(execution, damage, Answer("archive", p))
    BY <2>2 DEF AnswerOK, Answer, NoAnswer
  <2> QED
    BY <2>1, <2>3, <1>0, <1>1, ReturnKeeps
<1>3. CASE ~(p # 4 /\ Held(p) = Garbled)
  <2>1. Proceed(p, Decoded(p, Held(p)))
    BY <1>3 DEF ReadBack
  <2>2. p # 4 => Decoded(p, Held(p)) \in Gives(execution, p) /\ Reaches(execution, p)
    <3>1. SUFFICES ASSUME p # 4
                   PROVE  Decoded(p, Held(p)) \in Gives(execution, p) /\ Reaches(execution, p)
      OBVIOUS
    <3>2. Held(p) \in Contents(execution, p)
      BY <1>1 DEF GoodArchive, Held
    <3>3. Held(p) = RunContent(execution, p) /\ Reaches(execution, p)
      BY <3>1, <3>2, <1>0, <1>3 DEF Contents
    <3>4. p \in 1..3
      BY <3>1 DEF LaterPhase
    <3> QED
      BY <3>3, <3>4, StoredIsGiven
  <2>3. \A q \in LaterPhase : q <= p => archive'.later[q] # Empty
    <3> TAKE q \in LaterPhase
    <3>1. q = p \/ q < p \/ ~(q <= p)
      BY DEF LaterPhase
    <3> QED
      BY <3>1, <1>0, <1>1 DEF Held
  <2>4. GoodArchive(execution, damage, archive')
    BY <1>0, <1>1
  <2> QED
    BY <2>1, <2>2, <2>3, <2>4, <1>0, ProceedKeeps
<1> QED
  BY <1>2, <1>3

LEMMA CommitKeeps ==
  ASSUME StagedInv, Commit
  PROVE  StagedInv'
<1>0. Calling /\ call.phase = 1 /\ Held(1) = Empty
  BY DEF Commit, At
<1>1. execution \in Execution /\ ~saving /\ call.until \in 1..4
  BY <1>0, CallMeans DEF LaterPhase
<1>2. CASE execution.unfillable # {}
  <2>1. Return(Answer("trace", Least(execution.unfillable))) /\ UNCHANGED archive
    BY <1>2 DEF Commit
  <2>2. AnswerOK(execution, damage, Answer("trace", Least(execution.unfillable)))
    <3>1. Expected(execution, call.until) = <<"trace", Least(execution.unfillable)>>
      BY <1>1, <1>2 DEF Expected
    <3> QED
      BY <3>1 DEF AnswerOK, Answer, NoAnswer
  <2> QED
    BY <2>1, <2>2, <1>1, ReturnKeeps
<1>3. CASE execution.unfillable = {}
  <2>1. Complete(1, GlobalCommit(execution))
    BY <1>3 DEF Commit
  <2>2. Reaches(execution, 1) /\ GlobalCommit(execution) \in Gives(execution, 1)
    BY <1>3 DEF Reaches, Gives
  <2>3. 1 \in LaterPhase
    BY DEF LaterPhase
  <2> QED
    BY <2>1, <2>2, <2>3, <1>0, ComputedIsStored, CompleteKeeps
<1> QED
  BY <1>2, <1>3

LEMMA MakeFinalKeeps ==
  ASSUME StagedInv, MakeFinal
  PROVE  StagedInv'
<1>0. /\ Calling /\ call.phase = 4 /\ Held(4) = Empty
      /\ Complete(4, FinalOf(call.got[1], call.got[3]))
  BY DEF MakeFinal, At
<1>1. /\ call.got[1] \in Gives(execution, 1) /\ call.got[3] \in Gives(execution, 3)
      /\ Reaches(execution, 3)
  BY <1>0, CallMeans, 1 \in 1..3, 3 \in 1..3
<1>2. call.got[1] = GlobalCommit(execution) /\ call.got[3] = RunProofs(execution)
  BY <1>1 DEF Gives
<1>3. Reaches(execution, 4)
  BY <1>1 DEF Reaches
<1>4. 4 \in LaterPhase
  BY DEF LaterPhase
<1>5. Encoded(4, FinalOf(call.got[1], call.got[3])) = RunContent(execution, 4)
  BY <1>2, ComputedIsStored
<1> QED
  BY <1>0, <1>3, <1>4, <1>5, CompleteKeeps

LEMMA FinishKeeps ==
  ASSUME StagedInv, Finish
  PROVE  StagedInv'
<1>0. Calling /\ call.phase = 5 /\ UNCHANGED archive
  BY DEF Finish, At
<1>1. /\ GoodArchive(execution, damage, archive) /\ ~saving /\ Held(4) # Empty
      /\ Reaches(execution, 3) /\ call.until = 4
  BY <1>0, CallMeans, 4 \in LaterPhase, 3 \in 1..3 DEF LaterPhase
<1>2. CASE Held(4) = Garbled
  <2>1. Return(Answer("archive", 4))
    BY <1>2 DEF Finish
  <2>2. damage # 0
    BY <1>1, <1>2, 4 \in LaterPhase DEF GoodArchive, Held, LaterPhase
  <2>3. AnswerOK(execution, damage, Answer("archive", 4))
    BY <2>2 DEF AnswerOK, Answer, NoAnswer
  <2> QED
    BY <2>1, <2>3, <1>0, <1>1, ReturnKeeps
<1>3. CASE Held(4) # Garbled
  <2> DEFINE ans == [Answer("block", 0) EXCEPT !.block = Held(4)]
  <2>1. Return(ans)
    BY <1>3 DEF Finish
  <2>2. Held(4) = RunContent(execution, 4)
    BY <1>1, <1>3, 4 \in LaterPhase DEF GoodArchive, Held, LaterPhase, Contents
  <2>3. ans.kind = "block" /\ ans.at = 0 /\ ans.until = 4 /\ ans.block = Held(4)
    BY <1>1 DEF Answer, NoAnswer
  <2>4. Expected(execution, 4) = <<"ok", 0>>
    BY <1>1, 4 \in 1..4, OkIsExpected DEF Reaches
  <2> HIDE DEF ans
  <2>5. AnswerOK(execution, damage, ans)
    BY <2>2, <2>3, <2>4 DEF AnswerOK
  <2> QED
    BY <2>1, <2>5, <1>0, <1>1, ReturnKeeps
<1> QED
  BY <1>2, <1>3

LEMMA StartTasksKeeps ==
  ASSUME StagedInv, StartTasks
  PROVE  StagedInv'
<1> DEFINE new == [call EXCEPT !.working = TRUE]
<1>0. /\ Calling /\ call.phase \in {2, 3} /\ Held(call.phase) = Empty
      /\ call' = new /\ ended' = <<>> /\ UNCHANGED archive
      /\ UNCHANGED <<execution, answer, file, saving, saved, damage>>
  BY DEF StartTasks, At, Continue
<1>1. /\ CallOK(execution, archive, call)
      /\ archive = NoArchive \/ GoodArchive(execution, damage, archive)
      /\ AnswerOK(execution, damage, answer)
  BY DEF StagedInv
<1>2. ~saving
  BY <1>0, CallMeans
<1>3. call \in [phase : 0..5, until : 0..4, block : BOOLEAN, working : BOOLEAN,
                got : [1..3 -> AnyGiven(execution)]]
  BY <1>1 DEF CallOK
<1>4. /\ new \in [phase : 0..5, until : 0..4, block : BOOLEAN, working : BOOLEAN,
                  got : [1..3 -> AnyGiven(execution)]]
      /\ new.phase = call.phase /\ new.until = call.until /\ new.block = call.block
      /\ new.got = call.got
  BY <1>3
<1> HIDE DEF new
<1>5. CallOK(execution, archive, new)
  BY <1>0, <1>1, <1>4 DEF CallOK, Held
<1> QED
  BY <1>0, <1>1, <1>2, <1>5, CallStepKeeps

LEMMA TaskKeeps ==
  ASSUME StagedInv, NEW i \in Shards, Task(i)
  PROVE  StagedInv'
<1>0. /\ Calling /\ call.working /\ \A k \in 1..Len(ended) : ended[k].at # i
      /\ ended' = Append(ended, TaskResult(i))
      /\ UNCHANGED <<execution, archive, call, answer, file, saving, saved, damage>>
  BY DEF Task
<1> DEFINE S == {TaskResult(j) : j \in Shards}
<1>1. ended \in Seq(S) /\ \A k, l \in 1..Len(ended) : ended[k].at = ended[l].at => k = l
  BY DEF StagedInv, RegionOK
<1>2. TaskResult(i) \in S /\ TaskResult(i).at = i
  BY DEF TaskResult
<1>3. {TaskResult(j)' : j \in Shards'} = S
  BY <1>0 DEF TaskResult, Shards, ShardOf, HasColumns
<1> HIDE DEF S
<1>4. /\ ended' \in Seq(S) /\ Len(ended') = Len(ended) + 1 /\ Len(ended) \in Nat
      /\ ended'[Len(ended) + 1].at = i
      /\ \A k \in 1..Len(ended) : ended'[k] = ended[k]
  BY <1>0, <1>1, <1>2
<1>5. \A k, l \in 1..Len(ended') : ended'[k].at = ended'[l].at => k = l
  <2> TAKE k, l \in 1..Len(ended')
  <2>1. (k \in 1..Len(ended) \/ k = Len(ended) + 1) /\ (l \in 1..Len(ended) \/ l = Len(ended) + 1)
    BY <1>4
  <2> QED
    BY <2>1, <1>4, <1>1, <1>0
<1>6. RegionOK'
  BY <1>0, <1>3, <1>4, <1>5 DEF RegionOK
<1>7. ExportOK'
  BY <1>0 DEF StagedInv, ExportOK
<1> QED
  BY <1>0, <1>6, <1>7 DEF StagedInv

\* A task of a region: its shard, whether it fails, and what it gives.
LEMMA TaskResults ==
  ASSUME StagedInv, Calling, call.working, NEW i \in Shards
  PROVE  /\ TaskResult(i).at = i
         /\ TaskResult(i).ok <=> i \notin execution.uncountable
         /\ ~TaskResult(i).ok => TaskResult(i).value = i
         /\ TaskResult(i).ok => TaskResult(i).value
              = IF call.phase = 2 THEN Computed(execution)[i] ELSE RunProofs(execution)[i]
<1>0. /\ execution \in Execution /\ call.phase \in {2, 3}
      /\ \A q \in 1..3 : q < call.phase => /\ call.got[q] \in Gives(execution, q)
                                           /\ Reaches(execution, q)
  BY CallMeans
<1>1. execution.unfillable = {} /\ call.got[1] = GlobalCommit(execution)
  BY <1>0, 1 \in 1..3 DEF Reaches, Gives
<1>2. HasColumns(i) <=> i \notin execution.uncountable
  BY <1>1 DEF HasColumns
<1>3. CASE call.phase = 2
  <2>1. ShardOf(i) = i
    BY <1>3 DEF ShardOf
  <2>2. Computed(execution)[i] = GkrPart(GlobalCommit(execution), i)
    BY DEF Computed, Shards
  <2> QED
    BY <2>1, <2>2, <1>1, <1>2, <1>3 DEF TaskResult
<1>4. CASE call.phase = 3
  <2>1. call.got[2] \in Gives(execution, 2)
    BY <1>0, <1>4, 2 \in 1..3
  <2>2. /\ call.got[2][i].shard = i
        /\ OpeningPart(GlobalCommit(execution), call.got[2][i]) = RunProofs(execution)[i]
    BY <2>1, OpeningsAreTheRuns DEF Shards
  <2>3. ShardOf(i) = i
    BY <1>4, <2>2 DEF ShardOf
  <2> QED
    BY <2>2, <2>3, <1>1, <1>2, <1>4 DEF TaskResult
<1> QED
  BY <1>0, <1>3, <1>4

\* The join has one result a shard, in the shards' order, whatever the order in
\* which the tasks ended.
LEMMA CollectedInOrder ==
  ASSUME StagedInv, Len(ended) = execution.shards
  PROVE  Collected(ended) = [i \in Shards |-> TaskResult(i)]
<1> DEFINE at == [k \in 1..Len(ended) |-> ended[k].at]
<1>0. execution.shards \in Nat
  BY Executed DEF StagedInv
<1>1. /\ ended \in Seq({TaskResult(i) : i \in Shards})
      /\ \A k, l \in 1..Len(ended) : ended[k].at = ended[l].at => k = l
  BY DEF StagedInv, RegionOK
<1>2. DOMAIN ended = Shards /\ DOMAIN ended = 1..Len(ended)
  BY <1>0, <1>1 DEF Shards
<1>3. \A k \in DOMAIN ended : ended[k] \in {TaskResult(i) : i \in Shards}
  BY <1>1, <1>2, ElementOfSeq
<1>4. \A k \in DOMAIN ended : ended[k].at \in Shards /\ ended[k] = TaskResult(ended[k].at)
  <2> TAKE k \in DOMAIN ended
  <2>1. PICK i \in Shards : ended[k] = TaskResult(i)
    BY <1>3
  <2>2. TaskResult(i).at = i
    BY DEF TaskResult
  <2> QED
    BY <2>1, <2>2
<1>5. at \in [1..Len(ended) -> 1..execution.shards]
  BY <1>2, <1>4 DEF Shards
<1>6. \A k, l \in 1..Len(ended) : at[k] = at[l] => k = l
  BY <1>1
<1>7. \A k \in 1..Len(ended) : at[k] = ended[k].at
  OBVIOUS
<1> HIDE DEF at
<1>8. \A i \in Shards : \E k \in DOMAIN ended : ended[k].at = i
  <2>1. \A i \in 1..execution.shards : \E k \in 1..Len(ended) : at[k] = i
    <3> DEFINE n == execution.shards
               m == Len(ended)
    <3>1. /\ n \in Nat /\ m \in Nat /\ m = n /\ at \in [1..m -> 1..n]
          /\ \A k, l \in 1..m : at[k] = at[l] => k = l
      BY <1>0, <1>5, <1>6
    <3> HIDE DEF n, m
    <3>2. at \in [1..n -> 1..n] /\ \A k, l \in 1..n : at[k] = at[l] => k = l
      BY <3>1
    <3>3. \A i \in 1..n : \E k \in 1..n : at[k] = i
      BY <3>1, <3>2, NoShardWithout
    <3>4. \A i \in 1..n : \E k \in 1..m : at[k] = i
      BY <3>1, <3>3
    <3> QED
      BY <3>4 DEF n, m
  <2> QED
    BY <2>1, <1>2, <1>7 DEF Shards
<1>9. \A i \in Shards : ended[CHOOSE k \in DOMAIN ended : ended[k].at = i] = TaskResult(i)
  <2> TAKE i \in Shards
  <2> DEFINE k0 == CHOOSE k \in DOMAIN ended : ended[k].at = i
  <2>1. k0 \in DOMAIN ended /\ ended[k0].at = i
    BY <1>8
  <2> QED
    BY <2>1, <1>4
<1> QED
  BY <1>2, <1>9 DEF Collected

\* The first error of the statement's order, or the phase.
LEMMA JoinTasksKeeps ==
  ASSUME StagedInv, JoinTasks
  PROVE  StagedInv'
<1> DEFINE results == [i \in Shards |-> TaskResult(i)]
           bad == execution.uncountable
<1>0. Calling /\ call.working /\ Len(ended) = execution.shards
  BY DEF JoinTasks
<1>1. /\ execution \in Execution /\ ~saving
      /\ call.phase \in {2, 3} /\ Held(call.phase) = Empty
      /\ call.until \in LaterPhase /\ (call.block => call.until = 4)
      /\ (call.phase <= call.until \/ call.block)
      /\ \A q \in 1..3 : q < call.phase => Reaches(execution, q)
  BY <1>0, CallMeans
<1>2. Collected(ended) = results
  BY <1>0, CollectedInOrder
<1>3. /\ execution.shards \in Nat \ {0} /\ bad \in SUBSET Shards
      /\ execution.unfillable = {} /\ Shards \in SUBSET Nat
  BY <1>1, Executed, 1 \in 1..3 DEF Shards, Reaches
<1>4. \A i \in Shards :
        /\ results[i].ok <=> i \notin bad
        /\ i \in bad => results[i].value = i
        /\ i \notin bad => results[i].value
             = IF call.phase = 2 THEN Computed(execution)[i] ELSE RunProofs(execution)[i]
  BY <1>0, TaskResults
<1>5. DOMAIN results = Shards
  OBVIOUS
<1> HIDE DEF results
<1>6. Failures(results) = bad
  BY <1>3, <1>4, <1>5 DEF Failures
<1>7. CASE bad # {}
  <2>1. Least(bad) \in bad
    BY <1>3, <1>7, LeastIsIn
  <2>2. results[Least(bad)].value = Least(bad)
    BY <2>1, <1>3, <1>4
  <2>3. Return(Answer("trace", Least(bad))) /\ UNCHANGED archive
    BY <1>2, <1>6, <1>7, <2>2 DEF JoinTasks
  <2>4. Expected(execution, call.until) = <<"trace", Least(bad)>>
    BY <1>1, <1>3, <1>7 DEF Expected, LaterPhase
  <2>5. AnswerOK(execution, damage, Answer("trace", Least(bad)))
    BY <2>4 DEF AnswerOK, Answer, NoAnswer
  <2> QED
    BY <2>3, <2>5, <1>1, ReturnKeeps
<1>8. CASE bad = {}
  <2> DEFINE got == [i \in DOMAIN results |-> results[i].value]
  <2>1. Complete(call.phase, got)
    BY <1>2, <1>6, <1>8 DEF JoinTasks
  <2>2. Reaches(execution, call.phase)
    BY <1>3, <1>8 DEF Reaches
  <2>3. got = IF call.phase = 2 THEN Computed(execution) ELSE RunProofs(execution)
    <3>1. CASE call.phase = 2
      <4>1. \A i \in Shards : results[i].value = Computed(execution)[i]
        BY <3>1, <1>4, <1>8
      <4> QED
        BY <4>1, <3>1, <1>5 DEF Computed, Shards
    <3>2. CASE call.phase # 2
      <4>1. \A i \in Shards : results[i].value = RunProofs(execution)[i]
        BY <3>2, <1>4, <1>8
      <4> QED
        BY <4>1, <3>2, <1>5 DEF RunProofs, Shards
    <3> QED
      BY <3>1, <3>2
  <2> HIDE DEF got
  <2>4. Encoded(call.phase, got) = RunContent(execution, call.phase)
    BY <2>3, <1>1, ComputedIsStored
  <2>5. got \in Gives(execution, call.phase)
    BY <2>3, <1>1 DEF Gives
  <2>6. call.phase \in LaterPhase
    BY <1>1 DEF LaterPhase
  <2> QED
    BY <2>1, <2>2, <2>4, <2>5, <2>6, <1>0, <1>1, CompleteKeeps
<1> QED
  BY <1>7, <1>8

-----------------------------------------------------------------------------
(* The caller *)

LEMMA StoppedMeans ==
  ASSUME StagedInv, ~Running
  PROVE  /\ archive = NoArchive /\ ended = <<>> /\ ~saving /\ execution \in Execution
         /\ \A a : CallOK(execution, a, call)
<1>1. archive = NoArchive /\ execution \in Execution
  BY GoodArchiveMeans DEF StagedInv, Running
<1>2. call.phase = 0 /\ ~call.working
  BY <1>1 DEF StagedInv, CallOK
<1>3. ~saving
  BY <1>1 DEF StagedInv, ExportOK
<1>4. \A a : CallOK(execution, a, call)
  BY <1>2 DEF StagedInv, CallOK
<1> QED
  BY <1>1, <1>2, <1>3, <1>4 DEF StagedInv, RegionOK

LEMMA IdleMeans ==
  ASSUME StagedInv, Idle
  PROVE  /\ execution \in Execution /\ GoodArchive(execution, damage, archive) /\ ~saving
         /\ archive # NoArchive /\ call.phase = 0 /\ ended = <<>>
         /\ \A a : CallOK(execution, a, call)
<1>1. archive # NoArchive
  BY DEF Idle, Running, NoArchive
<1>2. call.phase = 0 /\ ~call.working
  BY DEF StagedInv, CallOK, Idle, Calling
<1>3. \A a : CallOK(execution, a, call)
  BY <1>2 DEF StagedInv, CallOK
<1> QED
  BY <1>1, <1>2, <1>3 DEF StagedInv, RegionOK, Idle

\* A call begins with nothing but the archive.
LEMMA StartedOK ==
  ASSUME NEW e, NEW a, a # NoArchive, NEW until \in 1..4, NEW block \in BOOLEAN,
         block => until = 4
  PROVE  CallOK(e, a, Started(until, block))
<1> DEFINE c == Started(until, block)
<1> DEFINE G == [1..3 -> AnyGiven(e)]
           C == [phase : 0..5, until : 0..4, block : BOOLEAN, working : BOOLEAN, got : G]
<1>1. [p \in 1..3 |-> Empty] \in G
  BY DEF AnyGiven
<1>2. NoCall \in C /\ NoCall.working = FALSE
  <2> HIDE DEF G
  <2> QED
    BY <1>1 DEF NoCall
<1>3. /\ c \in C /\ c.phase = 1 /\ c.until = until /\ c.block = block
      /\ c.working = NoCall.working
  <2> HIDE DEF G
  <2> QED
    BY <1>2, 1 \in 0..5, until \in 0..4 DEF Started
<1> HIDE DEF c
<1>4. /\ \A q \in LaterPhase : ~(q < 1)
      /\ \A q \in 1..3 : ~(q < 1)
  BY DEF LaterPhase
<1> QED
  BY <1>2, <1>3, <1>4 DEF CallOK, c

LEMMA StartsKeep ==
  ASSUME StagedInv, Idle, UNCHANGED archive, NEW until \in 1..4, NEW block \in BOOLEAN,
         block => until = 4, Continue(Started(until, block))
  PROVE  StagedInv'
<1>1. /\ call' = Started(until, block) /\ ended' = <<>>
      /\ UNCHANGED <<execution, answer, file, saving, saved, damage>>
  BY DEF Continue
<1>2. /\ CallOK(execution, archive', call') /\ GoodArchive(execution, damage, archive')
      /\ ~saving
  BY <1>1, IdleMeans, StartedOK
<1>3. AnswerOK(execution, damage, answer')
  BY <1>1 DEF StagedInv
<1> QED
  BY <1>1, <1>2, <1>3, CallStepKeeps

LEMMA AdvanceKeeps ==
  ASSUME StagedInv, NEW until \in Phase, Advance(until)
  PROVE  StagedInv'
<1>0. Idle /\ UNCHANGED archive
  BY DEF Advance
<1>1. CASE until = 0
  <2> DEFINE ans == [NoAnswer EXCEPT !.kind = "ok"]
  <2>1. Return(ans)
    BY <1>1 DEF Advance
  <2>2. AnswerOK(execution, damage, ans)
    BY DEF AnswerOK, NoAnswer, Expected
  <2> QED
    BY <2>1, <2>2, <1>0, IdleMeans, ReturnKeeps
<1>2. CASE until # 0
  <2>1. until \in 1..4 /\ Continue(Started(until, FALSE))
    <3>1. until \in 1..4
      BY <1>2 DEF Phase
    <3>2. Continue(Started(until, FALSE))
      BY <1>2 DEF Advance
    <3> QED
      BY <3>1, <3>2
  <2> QED
    BY <2>1, <1>0, StartsKeep
<1> QED
  BY <1>1, <1>2

LEMMA ProveBlockKeeps ==
  ASSUME StagedInv, NEW planIsOurs \in BOOLEAN, ProveBlock(planIsOurs)
  PROVE  StagedInv'
<1>0. Idle /\ UNCHANGED archive
  BY DEF ProveBlock
<1>1. CASE planIsOurs
  <2>1. Continue(Started(4, TRUE))
    BY <1>1 DEF ProveBlock
  <2> QED
    BY <2>1, <1>0, 4 \in 1..4, StartsKeep
<1>2. CASE ~planIsOurs
  <2> DEFINE ans == [NoAnswer EXCEPT !.kind = "plan"]
  <2>1. Return(ans)
    BY <1>2 DEF ProveBlock
  <2>2. AnswerOK(execution, damage, ans)
    BY DEF AnswerOK, NoAnswer
  <2> QED
    BY <2>1, <2>2, <1>0, IdleMeans, ReturnKeeps
<1> QED
  BY <1>1, <1>2

LEMMA ExecuteKeeps ==
  ASSUME StagedInv, Execute
  PROVE  StagedInv'
<1>0. /\ ~Running
      /\ UNCHANGED <<execution, call, ended, answer, file, saving, saved, damage>>
  BY DEF Execute
<1>1. /\ ended = <<>> /\ ~saving /\ execution \in Execution
      /\ \A a : CallOK(execution, a, call)
  BY <1>0, StoppedMeans
<1>2. PICK t \in Time : archive' = FromExecution(execution, t)
  BY DEF Execute
<1>3. GoodArchive(execution, damage, FromExecution(execution, t))
  <2> DEFINE a == FromExecution(execution, t)
  <2>1. /\ a.later = [p \in LaterPhase |-> Empty]
        /\ a.timing = [p \in Phase |-> IF p = 0 THEN t ELSE Empty]
        /\ a = [post |-> execution, later |-> a.later, timing |-> a.timing]
    BY DEF FromExecution
  <2>2. Empty # Garbled /\ t # Empty
    BY AbsentAssumption
  <2>3. \A p \in LaterPhase : a.later[p] = Empty /\ a.later[p] \in Contents(execution, p)
    BY <2>1 DEF Contents
  <2>4. a.later \in [LaterPhase -> AnyContent(execution)]
    BY <2>1, <2>3 DEF AnyContent
  <2>5. a.timing \in [Phase -> Time \cup {Empty}]
    BY <2>1
  <2>6. \A p \in Phase : a.timing[p] = IF p = 0 THEN t ELSE Empty
    BY <2>1
  <2> HIDE DEF a
  <2>7. WellFormed(a)
    <3>1. \A p \in Phase : p = 0 \/ p \in LaterPhase
      BY DEF Phase, LaterPhase
    <3>2. \A p \in LaterPhase : p \in Phase /\ p # 0
      BY DEF Phase, LaterPhase
    <3>3. \A p \in Phase : IsFilled(a, p) <=> p = 0
      BY <3>1, <2>3 DEF IsFilled
    <3> QED
      BY <3>2, <3>3, <2>2, <2>6 DEF WellFormed
  <2>8. a \in [post : {execution}, later : [LaterPhase -> AnyContent(execution)],
               timing : [Phase -> Time \cup {Empty}]]
    BY <2>1, <2>4, <2>5
  <2>9. GoodArchive(execution, damage, a)
    BY <2>2, <2>3, <2>7, <2>8 DEF GoodArchive
  <2> QED
    BY <2>9 DEF a
<1>4. AnswerOK(execution, damage, answer')
  BY <1>0 DEF StagedInv
<1> QED
  BY <1>0, <1>1, <1>2, <1>3, <1>4, CallStepKeeps

\* The file of an export that ended is its archive; any other that is taken was
\* changed, into an archive of the execution all the same.
LEMMA LoadKeeps ==
  ASSUME StagedInv, Load
  PROVE  StagedInv'
<1>0. /\ ~Running /\ Accepts(file) /\ archive' = Imported(file)
      /\ UNCHANGED <<execution, call, ended, answer, file, saving, saved, damage>>
  BY DEF Load
<1>1. /\ ended = <<>> /\ ~saving /\ execution \in Execution
      /\ \A a : CallOK(execution, a, call)
  BY <1>0, StoppedMeans
<1>2. GoodArchive(execution, damage, Imported(file))
  <2>1. CASE damage = 0
    <3>1. Len(file) = 10
      BY <1>0 DEF Accepts
    <3>2. saved # NoArchive /\ file = Exported(saved)
      BY <2>1, <3>1 DEF StagedInv, ExportOK
    <3>3. GoodArchive(execution, damage, saved)
      BY <3>2 DEF StagedInv, ExportOK
    <3> QED
      BY <3>2, <3>3, <1>1, ExportsAreRead
  <2>2. CASE damage # 0
    <3>1. damage \in Nat /\ FileOK(execution, damage, file)
      BY DamageAssumption DEF StagedInv
    <3> QED
      BY <3>1, <2>2, <1>0, <1>1, AcceptedIsGood
  <2> QED
    BY <2>1, <2>2
<1>3. AnswerOK(execution, damage, answer')
  BY <1>0 DEF StagedInv
<1> QED
  BY <1>0, <1>1, <1>2, <1>3, CallStepKeeps

LEMMA RegionStays ==
  ASSUME RegionOK, UNCHANGED <<execution, call, ended>>
  PROVE  RegionOK'
<1>1. {TaskResult(j)' : j \in Shards'} = {TaskResult(j) : j \in Shards}
  BY DEF TaskResult, Shards, ShardOf, HasColumns
<1>2. /\ ended' \in Seq({TaskResult(j) : j \in Shards})
      /\ \A k, l \in 1..Len(ended') : ended'[k].at = ended'[l].at => k = l
      /\ ~call'.working => ended' = <<>>
  BY DEF RegionOK
<1> QED
  BY <1>1, <1>2 DEF RegionOK

\* What the file, the export and the archive must satisfy after a step that
\* leaves the execution, the call and its region alone.
LEMMA FileStepKeeps ==
  ASSUME StagedInv, UNCHANGED <<execution, call, ended, damage>>,
         archive' = NoArchive \/ GoodArchive(execution, damage, archive'),
         CallOK(execution, archive', call), saving' \in BOOLEAN,
         FileOK(execution, damage, file'), ExportOK',
         AnswerOK(execution, damage, answer')
  PROVE  StagedInv'
<1>1. RegionOK'
  BY RegionStays DEF StagedInv
<1> QED
  BY <1>1 DEF StagedInv

LEMMA EmptyFileOK ==
  ASSUME NEW e, NEW d \in Nat
  PROVE  FileOK(e, d, <<>>)
BY DEF FileOK

LEMMA SaveKeeps ==
  ASSUME StagedInv, Save
  PROVE  StagedInv'
<1>0. /\ Idle /\ file' = <<>> /\ saved' = NoArchive
      /\ UNCHANGED <<execution, call, ended, damage>>
  BY DEF Save
<1>1. /\ GoodArchive(execution, damage, archive) /\ ~saving /\ archive # NoArchive
      /\ call.phase = 0 /\ \A a : CallOK(execution, a, call)
  BY <1>0, IdleMeans
<1>2. FileOK(execution, damage, file')
  BY <1>0, EmptyFileOK, DamageAssumption DEF StagedInv
<1>3. Len(file') = 0
  BY <1>0
<1>4. CASE archive.post.recursion
  <2>1. /\ answer' = [NoAnswer EXCEPT !.kind = "panic"] /\ archive' = NoArchive
        /\ UNCHANGED saving
    BY <1>4 DEF Save
  <2>2. AnswerOK(execution, damage, answer')
    BY <2>1 DEF AnswerOK, NoAnswer
  <2>3. ExportOK'
    BY <2>1, <1>0, <1>1, <1>3 DEF ExportOK
  <2> QED
    BY <2>1, <2>2, <2>3, <1>0, <1>1, <1>2, FileStepKeeps DEF StagedInv
<1>5. CASE ~archive.post.recursion
  <2>1. saving' = TRUE /\ UNCHANGED <<answer, archive>>
    BY <1>5 DEF Save
  <2>2. ExportOK'
    BY <2>1, <1>0, <1>1, <1>3 DEF ExportOK
  <2>3. AnswerOK(execution, damage, answer')
    BY <2>1 DEF StagedInv
  <2> QED
    BY <2>1, <2>2, <2>3, <1>0, <1>1, <1>2, FileStepKeeps
<1> QED
  BY <1>4, <1>5

\* The entry written is the archive's next; the tenth makes the file its export.
LEMMA WriteEntryKeeps ==
  ASSUME StagedInv, WriteEntry
  PROVE  StagedInv'
<1> DEFINE ex == Exported(archive)
           n == Len(file)
           S == [tag : Phase, value : UNION {Values(execution, i) : i \in 1..11},
                 shortest : BOOLEAN]
<1>0. /\ saving /\ file' = Append(file, ex[n + 1])
      /\ saving' = (Len(file') < 10) /\ saved' = IF saving' THEN NoArchive ELSE archive
      /\ UNCHANGED <<execution, archive, call, ended, answer, damage>>
  BY DEF WriteEntry
<1>1. /\ archive # NoArchive /\ call.phase = 0 /\ saved = NoArchive /\ Len(file) < 10
      /\ \A i \in 1..Len(file) : file[i] = ex[i]
      /\ GoodArchive(execution, damage, archive) /\ execution \in Execution
      /\ damage \in Nat /\ FileOK(execution, damage, file)
  BY <1>0, DamageAssumption DEF StagedInv, ExportOK
<1>2. /\ ex \in Seq(S) /\ \A i \in 1..10 : ex[i].value \in Values(execution, i)
      /\ Len(ex) = 10
  BY <1>1, ExportsAreRead
<1>3. file \in Seq(S) /\ n \in 0..9
  <2>1. file \in Seq(S)
    BY <1>1 DEF FileOK
  <2> HIDE DEF S
  <2>2. Len(file) \in Nat
    BY <2>1
  <2>3. Len(file) < 10
    BY <1>1
  <2>4. n \in Nat /\ n < 10
    BY <2>2, <2>3
  <2> HIDE DEF n
  <2>5. n \in 0..9
    BY <2>4
  <2> QED
    BY <2>1, <2>5
<1> HIDE DEF ex, S
<1>4. ex[n + 1] \in S
  <2> HIDE DEF n
  <2>1. n + 1 \in 1..Len(ex)
    BY <1>2, <1>3
  <2> QED
    BY <2>1, <1>2, ElementOfSeq
<1>5. /\ file' \in Seq(S) /\ Len(file') = n + 1
      /\ \A i \in 1..n : file'[i] = file[i]
      /\ file'[n + 1] = ex[n + 1]
  BY <1>0, <1>3, <1>4, AppendProperties
<1> HIDE DEF n
<1>6. \A i \in 1..(n + 1) : file'[i] = ex[i]
  <2> TAKE i \in 1..(n + 1)
  <2>1. i \in 1..n \/ i = n + 1
    BY <1>3
  <2>2. CASE i \in 1..n
    BY <2>2, <1>1, <1>5 DEF n
  <2> QED
    BY <2>1, <2>2, <1>5
<1>7. FileOK(execution, damage, file')
  <2>1. \A i \in 1..10 : i <= Len(file') => file'[i].value \in Values(execution, i)
    BY <1>2, <1>3, <1>5, <1>6
  <2>2. Len(file') <= 10 + damage
    BY <1>1, <1>3, <1>5
  <2>3. file' \in Seq(S)
    BY <1>5
  <2> QED
    BY <2>1, <2>2, <2>3 DEF FileOK, S
<1>8. CASE Len(file') < 10
  <2>1. saving' /\ saved' = NoArchive
    BY <1>0, <1>8
  <2>2. \A i \in 1..Len(file') : file'[i] = Exported(archive)[i]
    BY <1>5, <1>6 DEF ex
  <2> QED
    BY <2>1, <2>2, <1>0, <1>1, <1>7, <1>8, FileStepKeeps DEF ExportOK, StagedInv
<1>9. CASE ~(Len(file') < 10)
  <2>1. ~saving' /\ saved' = archive /\ saving' \in BOOLEAN
    <3>1. ~saving'
      BY <1>0, <1>9
    <3>2. saving' \in BOOLEAN
      BY <1>0
    <3> QED
      BY <3>1, <3>2, <1>0
  <2>2. Len(file') = 10 /\ n + 1 = 10
    BY <1>3, <1>5, <1>9
  <2>3. file' = ex
    <3>1. \A i \in 1..Len(file') : file'[i] = ex[i]
      BY <1>5, <1>6
    <3> QED
      BY <3>1, <2>2, <1>2, <1>5, SeqEqual
  <2> QED
    BY <2>1, <2>3, <1>0, <1>1, <1>7, FileStepKeeps DEF ExportOK, StagedInv, ex
<1> QED
  BY <1>8, <1>9

LEMMA SaveFailsKeeps ==
  ASSUME StagedInv, SaveFails
  PROVE  StagedInv'
<1>0. /\ saving /\ saving' = FALSE
      /\ UNCHANGED <<execution, archive, call, ended, answer, file, saved, damage>>
  BY DEF SaveFails
<1>1. ExportOK'
  BY <1>0 DEF StagedInv, ExportOK
<1> QED
  BY <1>0, <1>1, FileStepKeeps DEF StagedInv

LEMMA CrashKeeps ==
  ASSUME StagedInv, Crash
  PROVE  StagedInv'
<1>0. /\ archive' = NoArchive /\ call' = NoCall /\ ended' = <<>> /\ saving' = FALSE
      /\ UNCHANGED <<execution, answer, file, saved, damage>>
  BY DEF Crash
<1>1. ExportOK'
  BY <1>0 DEF StagedInv, ExportOK
<1>2. RegionOK'
  <2>1. ended' \in Seq({TaskResult(i)' : i \in Shards'})
    BY <1>0
  <2>2. Len(ended') = 0
    BY <1>0
  <2> QED
    BY <2>1, <2>2, <1>0 DEF RegionOK
<1>3. CallOK(execution, archive', call')
  BY <1>0, NoCallOK
<1> QED
  BY <1>0, <1>1, <1>2, <1>3 DEF StagedInv

\* A file changed: shorter, longer by an entry, or an entry with another value or
\* tag, which holds at its place what an entry may.
LEMMA DamagedFileOK ==
  ASSUME NEW e \in Execution, NEW d \in Nat, NEW f, FileOK(e, d, f), NEW g,
         \/ \E n \in 0..(Len(f) - 1) : g = SubSeq(f, 1, n)
         \/ Len(f) >= 10 /\ g = Append(f, Entry(0, Garbled))
         \/ \E i \in 1..Len(f) : \E en \in Altered(f[i]) :
              (i > 5 => en.value # Garbled) /\ g = [f EXCEPT ![i] = en]
         \/ \E i \in 6..Len(f), t \in Time : g = [f EXCEPT ![i].value = t]
  PROVE  FileOK(e, d + 1, g)
<1> DEFINE V == UNION {Values(e, i) : i \in 1..11}
           S == [tag : Phase, value : V, shortest : BOOLEAN]
           m == Len(f)
<1>1. f \in Seq(S) /\ m = Len(f) /\ m \in Nat /\ m <= 10 + d /\ DOMAIN f = 1..m
  BY DEF FileOK
<1> HIDE DEF m
<1>2. \A i \in 1..m : i <= 10 => f[i].value \in Values(e, i)
  <2>1. \A i \in 1..10 : i <= m => f[i].value \in Values(e, i)
    BY <1>1 DEF FileOK
  <2> TAKE i \in 1..m
  <2> HAVE i <= 10
  <2>2. i \in 1..10 /\ i <= m
    BY <1>1
  <2> QED
    BY <2>1, <2>2
<1>3. \A i \in 1..m : f[i] \in S
  BY <1>1, ElementOfSeq
<1>4. /\ Empty \in V /\ Garbled \in V /\ Time \subseteq V
      /\ \A i \in 1..5 : Empty \in Values(e, i) /\ Garbled \in Values(e, i)
      /\ \A i \in 6..10 : Values(e, i) = Time \cup {Empty}
  <2>1. \A i \in 1..5 : Empty \in Values(e, i) /\ Garbled \in Values(e, i)
    <3> TAKE i \in 1..5
    <3>1. CASE i = 1
      BY <3>1 DEF Values
    <3>2. CASE i # 1
      <4>1. i \in 2..5
        BY <3>2
      <4>2. Values(e, i) = Contents(e, i - 1)
        BY <4>1, <3>2 DEF Values
      <4> QED
        BY <4>2 DEF Contents
    <3> QED
      BY <3>1, <3>2
  <2>2. \A i \in 6..10 : Values(e, i) = Time \cup {Empty}
    <3> TAKE i \in 6..10
    <3>1. i # 1 /\ i \notin 2..5
      OBVIOUS
    <3> QED
      BY <3>1 DEF Values
  <2>3. Values(e, 1) \subseteq V /\ Values(e, 6) \subseteq V
    BY 1 \in 1..11, 6 \in 1..11
  <2> HIDE DEF V
  <2> QED
    BY <2>1, <2>2, <2>3, 1 \in 1..5, 6 \in 6..10
<1> HIDE DEF V
<1>5. ASSUME NEW h \in Seq(S), Len(h) <= 10 + d + 1,
             \A i \in 1..Len(h) : i <= 10 => h[i].value \in Values(e, i)
      PROVE  FileOK(e, d + 1, h)
  <2>1. Len(h) \in Nat
    OBVIOUS
  <2>2. \A i \in 1..10 : i <= Len(h) => i \in 1..Len(h) /\ i <= 10
    BY <2>1
  <2>3. \A i \in 1..10 : i <= Len(h) => h[i].value \in Values(e, i)
    BY <1>5, <2>2
  <2>4. Len(h) <= 10 + (d + 1)
    BY <1>5, <2>1
  <2>5. h \in Seq([tag : Phase, value : UNION {Values(e, i) : i \in 1..11}, shortest : BOOLEAN])
    BY DEF V
  <2> QED
    BY <2>3, <2>4, <2>5 DEF FileOK
<1>6. ASSUME NEW i \in 1..m, NEW en \in S,
             i <= 10 => en.value \in Values(e, i)
      PROVE  FileOK(e, d + 1, [f EXCEPT ![i] = en])
  <2> DEFINE h == [f EXCEPT ![i] = en]
  <2> HIDE DEF S
  <2>1. h \in Seq(S) /\ Len(h) = m
    BY <1>1, <1>6, ExceptSeq
  <2>2. \A j \in 1..m : h[j] = IF j = i THEN en ELSE f[j]
    BY <1>1
  <2> HIDE DEF h
  <2>3. \A j \in 1..Len(h) : j <= 10 => h[j].value \in Values(e, j)
    <3> TAKE j \in 1..Len(h)
    <3> HAVE j <= 10
    <3>1. j \in 1..m /\ h[j] = IF j = i THEN en ELSE f[j]
      BY <1>1, <2>1, <2>2
    <3> QED
      BY <3>1, <1>2, <1>6
  <2>4. Len(h) <= 10 + d + 1
    BY <1>1, <2>1
  <2>5. FileOK(e, d + 1, h)
    BY <2>1, <2>3, <2>4, <1>5
  <2> QED
    BY <2>5 DEF h
<1>7. CASE \E n \in 0..(m - 1) : g = SubSeq(f, 1, n)
  <2>1. PICK n \in 0..(m - 1) : g = SubSeq(f, 1, n)
    BY <1>7
  <2> HIDE DEF S
  <2>2. n \in Nat /\ n < m /\ \A i \in 1..n : i \in 1..m
    BY <1>1
  <2>3. g \in Seq(S) /\ Len(g) = n /\ \A i \in 1..n : g[i] = f[i]
    BY <1>1, <2>1, <2>2
  <2>4. \A i \in 1..Len(g) : i <= 10 => g[i].value \in Values(e, i)
    BY <1>2, <2>2, <2>3
  <2>5. Len(g) <= 10 + d + 1
    BY <1>1, <2>2, <2>3
  <2> QED
    BY <2>3, <2>4, <2>5, <1>5
<1>8. CASE m >= 10 /\ g = Append(f, Entry(0, Garbled))
  <2>1. Entry(0, Garbled) \in S
    BY <1>4, 0 \in Phase DEF Entry, Phase
  <2> DEFINE en == Entry(0, Garbled)
  <2> HIDE DEF S, en
  <2>2. g \in Seq(S) /\ Len(g) = m + 1 /\ \A i \in 1..m : g[i] = f[i]
    <3>1. en \in S /\ g = Append(f, en)
      BY <2>1, <1>8 DEF en
    <3> QED
      BY <1>1, <3>1, AppendProperties
  <2>3. \A i \in 1..Len(g) : i <= 10 => g[i].value \in Values(e, i)
    <3> TAKE i \in 1..Len(g)
    <3> HAVE i <= 10
    <3>1. i \in 1..m
      BY <1>1, <1>8, <2>2
    <3> QED
      BY <3>1, <1>2, <2>2
  <2>4. Len(g) <= 10 + d + 1
    BY <1>1, <2>2
  <2> QED
    BY <2>2, <2>3, <2>4, <1>5
<1>9. CASE \E i \in 1..m : \E en \in Altered(f[i]) :
             (i > 5 => en.value # Garbled) /\ g = [f EXCEPT ![i] = en]
  <2>1. PICK i \in 1..m : \E en \in Altered(f[i]) :
               (i > 5 => en.value # Garbled) /\ g = [f EXCEPT ![i] = en]
    BY <1>9
  <2>2. PICK en \in Altered(f[i]) : (i > 5 => en.value # Garbled) /\ g = [f EXCEPT ![i] = en]
    BY <2>1
  <2>3. f[i] \in S
    BY <1>3
  <2>4. CASE \E v \in {Empty, Garbled} : en = [f[i] EXCEPT !.value = v]
    <3>1. en \in S /\ en.value \in {Empty, Garbled}
      BY <2>3, <2>4, <1>4
    <3>2. i <= 10 => en.value \in Values(e, i)
      <4>1. CASE i <= 5
        <5>1. i \in 1..5
          BY <4>1, <1>1
        <5> QED
          BY <5>1, <3>1, <1>4
      <4>2. CASE i > 5 /\ i <= 10
        <5>1. i \in 6..10 /\ en.value = Empty
          BY <4>2, <3>1, <2>2
        <5> QED
          BY <5>1, <1>4
      <4> QED
        BY <4>1, <4>2, <1>1
    <3> HIDE DEF S
    <3> QED
      BY <3>1, <3>2, <2>2, <1>6
  <2>5. CASE en \in {[f[i] EXCEPT !.tag = (@ + 1) % 5], [f[i] EXCEPT !.shortest = FALSE]}
    <3>1. f[i].tag \in 0..4 /\ (f[i].tag + 1) % 5 \in 0..4
      <4>1. f[i].tag \in 0..4
        BY <2>3 DEF Phase
      <4> QED
        BY <4>1
    <3>2. en \in S /\ en.value = f[i].value
      BY <3>1, <2>3, <2>5 DEF Phase
    <3>3. i <= 10 => en.value \in Values(e, i)
      BY <3>2, <1>1, <1>2
    <3> HIDE DEF S
    <3> QED
      BY <3>2, <3>3, <2>2, <1>6
  <2> QED
    BY <2>2, <2>4, <2>5 DEF Altered
<1>10. CASE \E i \in 6..m, t \in Time : g = [f EXCEPT ![i].value = t]
  <2>1. PICK i \in 6..m, t \in Time : g = [f EXCEPT ![i].value = t]
    BY <1>10
  <2> DEFINE en == [f[i] EXCEPT !.value = t]
  <2>2. i \in 1..m
    BY <1>1
  <2>3. en \in S /\ en.value = t
    BY <1>3, <1>4, <2>2
  <2>4. g = [f EXCEPT ![i] = en]
    BY <2>1
  <2>5. i <= 10 => en.value \in Values(e, i)
    BY <2>3, <1>1, <1>4
  <2> HIDE DEF S, en
  <2> QED
    BY <2>2, <2>3, <2>4, <2>5, <1>6
<1> QED
  BY <1>1, <1>7, <1>8, <1>9, <1>10

\* Any change makes the damage positive, after which no answer is compared and no
\* load is of what was saved; an archive in memory was good and is not there.
LEMMA DamageKeeps ==
  ASSUME StagedInv, Damage
  PROVE  StagedInv'
<1>0. /\ ~Running /\ damage < MaxDamage /\ damage' = damage + 1
      /\ UNCHANGED <<execution, archive, call, ended, answer, saving, saved>>
  BY DEF Damage
<1>1. /\ archive = NoArchive /\ ~saving /\ execution \in Execution
      /\ damage \in Nat /\ MaxDamage \in Nat /\ FileOK(execution, damage, file)
  BY <1>0, StoppedMeans, DamageAssumption DEF StagedInv
<1>2. damage' \in 0..MaxDamage /\ damage' # 0
  BY <1>0, <1>1
<1>3. FileOK(execution, damage', file')
  <2>1. FileOK(execution, damage + 1, file')
    BY <1>1, DamagedFileOK DEF Damage
  <2> QED
    BY <2>1, <1>0
<1>4. RegionOK'
  BY <1>0, RegionStays DEF StagedInv
<1>5. ExportOK'
  <2>1. saved = NoArchive \/ GoodArchive(execution, damage', saved)
    BY <1>2 DEF StagedInv, ExportOK, GoodArchive
  <2> QED
    BY <2>1, <1>0, <1>1, <1>2 DEF ExportOK
<1>6. AnswerOK(execution, damage', answer)
  BY <1>2 DEF StagedInv, AnswerOK
<1> QED
  BY <1>0, <1>1, <1>2, <1>3, <1>4, <1>5, <1>6 DEF StagedInv

-----------------------------------------------------------------------------
(* The theorems *)

LEMMA InitHasInv == Init => StagedInv
<1> SUFFICES ASSUME Init PROVE StagedInv
  OBVIOUS
<1>0. /\ execution \in Execution /\ archive = NoArchive /\ call = NoCall /\ ended = <<>>
      /\ answer = NoAnswer /\ file = <<>> /\ saving = FALSE /\ saved = NoArchive /\ damage = 0
  BY DEF Init
<1>1. damage \in 0..MaxDamage
  BY <1>0, DamageAssumption
<1>2. RegionOK
  <2>1. ended \in Seq({TaskResult(i) : i \in Shards}) /\ Len(ended) = 0
    BY <1>0
  <2> QED
    BY <2>1, <1>0 DEF RegionOK
<1>3. FileOK(execution, damage, file)
  BY <1>0, EmptyFileOK, 0 \in Nat
<1>4. ExportOK
  <2>1. Len(file) = 0
    BY <1>0
  <2> QED
    BY <2>1, <1>0 DEF ExportOK
<1>5. AnswerOK(execution, damage, answer)
  BY <1>0 DEF AnswerOK, NoAnswer
<1> QED
  BY <1>0, <1>1, <1>2, <1>3, <1>4, <1>5, NoCallOK DEF StagedInv

LEMMA NextKeepsInv == StagedInv /\ [Next]_vars => StagedInv'
<1> SUFFICES ASSUME StagedInv, [Next]_vars PROVE StagedInv'
  OBVIOUS
<1>1. CASE Prove
  BY <1>1, ReadBackKeeps, CommitKeeps, StartTasksKeeps, TaskKeeps, JoinTasksKeeps,
     MakeFinalKeeps, FinishKeeps DEF Prove
<1>2. CASE \E until \in Phase : Advance(until)
  BY <1>2, AdvanceKeeps
<1>3. CASE \E planIsOurs \in BOOLEAN : ProveBlock(planIsOurs)
  BY <1>3, ProveBlockKeeps
<1>4. CASE Execute \/ Load
  BY <1>4, ExecuteKeeps, LoadKeeps
<1>5. CASE Save \/ WriteEntry \/ SaveFails
  BY <1>5, SaveKeeps, WriteEntryKeeps, SaveFailsKeeps
<1>6. CASE Crash \/ Damage
  BY <1>6, CrashKeeps, DamageKeeps
<1>7. CASE UNCHANGED vars
  <2>0. UNCHANGED <<execution, archive, call, ended, answer, file, saving, saved, damage>>
    BY <1>7 DEF vars
  <2>1. RegionOK'
    BY <2>0, RegionStays DEF StagedInv
  <2>2. ExportOK'
    BY <2>0 DEF StagedInv, ExportOK
  <2> QED
    BY <2>0, <2>1, <2>2 DEF StagedInv
<1> QED
  BY <1>1, <1>2, <1>3, <1>4, <1>5, <1>6, <1>7 DEF Next

\* The inductive invariant holds of every run of the prover and its caller.
THEOREM StagedInvariance == Spec => []StagedInv
<1>1. Init => StagedInv
  BY InitHasInv
<1>2. StagedInv /\ [Next]_vars => StagedInv'
  BY NextKeepsInv
<1> QED
  BY <1>1, <1>2, PTL DEF Spec

LEMMA InvIsTyped == StagedInv => StagedTypeOK
<1> SUFFICES ASSUME StagedInv PROVE StagedTypeOK
  OBVIOUS
<1>1. Running => /\ archive.post = execution
                 /\ DOMAIN archive.later = LaterPhase
                 /\ archive.timing \in [Phase -> Time \cup {Empty}]
  <2> SUFFICES ASSUME Running
               PROVE  /\ archive.post = execution
                      /\ DOMAIN archive.later = LaterPhase
                      /\ archive.timing \in [Phase -> Time \cup {Empty}]
    OBVIOUS
  <2>1. archive # NoArchive
    BY DEF Running, NoArchive
  <2> QED
    BY <2>1 DEF StagedInv, GoodArchive
<1>2. Calling => /\ Running /\ ~saving
                 /\ call.phase \in 1..5 /\ call.until \in LaterPhase
  BY CallMeans
<1>3. /\ Len(ended) <= execution.shards
      /\ \A k \in 1..Len(ended) : ended[k].at \in Shards
  <2> DEFINE at == [k \in 1..Len(ended) |-> ended[k].at]
  <2>1. execution.shards \in Nat
    BY Executed DEF StagedInv
  <2>2. /\ ended \in Seq({TaskResult(i) : i \in Shards})
        /\ \A k, l \in 1..Len(ended) : ended[k].at = ended[l].at => k = l
    BY DEF StagedInv, RegionOK
  <2>3. Len(ended) \in Nat /\ DOMAIN ended = 1..Len(ended)
    BY <2>2
  <2>4. \A k \in 1..Len(ended) : ended[k].at \in Shards
    <3> TAKE k \in 1..Len(ended)
    <3>1. PICK i \in Shards : ended[k] = TaskResult(i)
      BY <2>2, ElementOfSeq
    <3>2. TaskResult(i).at = i
      BY DEF TaskResult
    <3> QED
      BY <3>1, <3>2
  <2>5. at \in [1..Len(ended) -> 1..execution.shards]
    BY <2>4 DEF Shards
  <2>6. \A k, l \in 1..Len(ended) : at[k] = at[l] => k = l
    BY <2>2
  <2> HIDE DEF at
  <2>7. Len(ended) <= execution.shards
    BY <2>1, <2>3, <2>5, <2>6, OnePlaceEach
  <2> QED
    BY <2>4, <2>7
<1>4. /\ Len(file) <= 10 + MaxDamage
      /\ \A i \in 1..10 : i <= Len(file) => EntryOK(i, file[i])
  <2> DEFINE S == [tag : Phase, value : UNION {Values(execution, i) : i \in 1..11},
                   shortest : BOOLEAN]
             m == Len(file)
  <2>1. /\ file \in Seq(S) /\ m = Len(file) /\ m \in Nat /\ m <= 10 + damage
        /\ \A i \in 1..10 : i <= m => file[i].value \in Values(execution, i)
    BY DEF StagedInv, FileOK
  <2> HIDE DEF m
  <2>2. damage \in 0..MaxDamage /\ MaxDamage \in Nat
    BY DamageAssumption DEF StagedInv
  <2>3. \A i \in 1..10 : i <= m => EntryOK(i, file[i])
    <3> TAKE i \in 1..10
    <3> HAVE i <= m
    <3>1. i \in 1..m
      BY <2>1
    <3>2. file[i] \in S
      BY <2>1, <3>1, ElementOfSeq
    <3>3. file[i].tag \in Phase /\ file[i].shortest \in BOOLEAN
      BY <3>2
    <3>4. i > 5 => file[i].value \in Time \cup {Empty}
      <4> HAVE i > 5
      <4>1. i # 1 /\ i \notin 2..5 /\ i \in 6..10
        OBVIOUS
      <4>2. Values(execution, i) = Time \cup {Empty}
        BY <4>1 DEF Values
      <4> QED
        BY <4>2, <2>1
    <3> QED
      BY <3>3, <3>4 DEF EntryOK
  <2>4. m <= 10 + MaxDamage
    BY <2>1, <2>2
  <2> QED
    BY <2>1, <2>3, <2>4
<1>5. saving => Running
  BY GoodArchiveMeans DEF StagedInv, ExportOK, Running
<1> QED
  BY <1>1, <1>2, <1>3, <1>4, <1>5 DEF StagedTypeOK, StagedInv

\* Types; a region has no more results than shards, and no export goes on while a
\* call runs.
THEOREM StagedTypes == Spec => []StagedTypeOK
BY StagedInvariance, InvIsTyped, PTL

\* "Phases fill in order, once each, and are timed exactly when they are filled",
\* of an archive that was filled, exported, damaged and loaded in any order.
THEOREM EveryArchiveIsWellFormed == Spec => []ArchivesAreWellFormed
<1>1. StagedInv => ArchivesAreWellFormed
  BY DEF StagedInv, ArchivesAreWellFormed, GoodArchive, Running, NoArchive
<1> QED
  BY <1>1, StagedInvariance, PTL

\* A phase's content is what an uninterrupted run stores, however many processes
\* it took, or bytes that are refused; and a block is the run's block.
THEOREM ResumedRunsAreTheRun == Spec => []StoredPhasesAreTheRun
<1>1. StagedInv => StoredPhasesAreTheRun
  <2> SUFFICES ASSUME StagedInv PROVE StoredPhasesAreTheRun
    OBVIOUS
  <2>1. answer.kind = "block" => answer.block = RunContent(execution, 4)
    BY DEF StagedInv, AnswerOK
  <2>2. Running => \A p \in LaterPhase : Held(p) \in {Empty, Garbled, RunContent(execution, p)}
    BY DEF StagedInv, GoodArchive, Contents, Running, NoArchive, Held
  <2> QED
    BY <2>1, <2>2 DEF StoredPhasesAreTheRun
<1> QED
  BY <1>1, StagedInvariance, PTL

\* What a call answers is decided by the execution and the phase asked for: the
\* first failing shard of the statement's order, whichever task fails first.
THEOREM AnswersAreTheStatements == Spec => []AnswersDoNotDependOnTheSchedule
<1>1. StagedInv => AnswersDoNotDependOnTheSchedule
  BY DEF StagedInv, AnswerOK, AnswersDoNotDependOnTheSchedule
<1> QED
  BY <1>1, StagedInvariance, PTL

\* A file is taken exactly when its export ended, and gives back its archive.
THEOREM LoadsReturnTheSaved == Spec => []LoadsReturnWhatWasSaved
<1>1. StagedInv => LoadsReturnWhatWasSaved
  <2> SUFFICES ASSUME StagedInv, damage = 0
               PROVE  /\ Accepts(file) <=> saved.post # Empty
                      /\ saved.post # Empty => Imported(file) = saved
    BY DEF LoadsReturnWhatWasSaved
  <2>1. execution \in Execution
    BY DEF StagedInv
  <2>2. CASE saved = NoArchive
    <3>1. saved.post = Empty
      BY <2>2 DEF NoArchive
    <3>2. Len(file) < 10
      BY <2>2 DEF StagedInv, ExportOK
    <3>3. ~Accepts(file)
      BY <3>2 DEF Accepts
    <3> QED
      BY <3>1, <3>3
  <2>3. CASE saved # NoArchive
    <3>1. GoodArchive(execution, damage, saved) /\ file = Exported(saved)
      BY <2>3 DEF StagedInv, ExportOK
    <3>2. saved.post # Empty
      BY <3>1, <2>1, GoodArchiveMeans
    <3> QED
      BY <3>1, <3>2, <2>1, ExportsAreRead
  <2> QED
    BY <2>2, <2>3
<1> QED
  BY <1>1, StagedInvariance, PTL
=============================================================================
