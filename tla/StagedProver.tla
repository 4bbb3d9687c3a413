---------------------------- MODULE StagedProver ----------------------------
(***************************************************************************)
(* The prover that works through an archive phase by phase                 *)
(* (crates/prover/src/phases.rs): advance, prove_block, finish, and the    *)
(* encodings of the four sections.  Its caller, which the repository does  *)
(* not have, exports the archive to a file, may die at any point, and goes *)
(* on from the file or from the execution.                                 *)
(*                                                                         *)
(* Commitments, proofs and transcripts are terms that say what they were   *)
(* made from.  A shard is its position in the statement.                   *)
(***************************************************************************)
EXTENDS PhaseArchive, FiniteSets

CONSTANTS
  Execution,  \* the executions that may have been archived
  Time,
  MaxDamage   \* how often the file may be changed behind the prover's back

\* A shard of unfillable has no columns; one of uncountable has columns whose
\* lookup multiplicities cannot be counted; an execution of a recursion program
\* has buffers with field accesses.
ASSUME ExecutionAssumption ==
  \A e \in Execution :
    /\ e.shards \in Nat \ {0}
    /\ e.unfillable \subseteq 1..e.shards
    /\ e.uncountable \subseteq 1..e.shards
    /\ e.recursion \in BOOLEAN
ASSUME AbsentAssumption ==
  /\ Empty # Garbled
  /\ \A absent \in {Empty, Garbled} : absent \notin Execution /\ absent \notin Time
ASSUME DamageAssumption == MaxDamage \in Nat

VARIABLES
  execution,  \* what was executed
  archive,    \* the caller's TraceArchive, NoArchive while no process runs
  call,       \* the running advance or prove_block, NoCall while there is none
  ended,      \* the results of the rayon tasks, in the order they ended
  answer,     \* what the last call returned
  file,       \* the entries on disk
  saving,     \* whether export is writing them
  saved,      \* the archive whose export ended last, NoArchive once another begins
  damage

vars == <<execution, archive, call, ended, answer, file, saving, saved, damage>>

Shards == 1..execution.shards
Least(S) == CHOOSE s \in S : \A r \in S : s <= r

-----------------------------------------------------------------------------
(* The work of a phase *)

\* The statement without roots, the transcript it left, the digest.
GlobalCommit(e) ==
  [statement |-> [run |-> e, roots |-> <<>>], transcript |-> <<e>>, digest |-> e]

\* The shard's transcript, seeded with the digest, after its GKR proof.
GkrPart(global, s) ==
  [shard |-> s, root |-> s,
   transcript |-> [seed |-> <<global.digest, s>>, absorbed |-> <<"witness", "gkr">>,
                   events |-> <<"witness", "gkr">>]]

\* The opening goes on from that transcript.
OpeningPart(global, gkr) ==
  [shard |-> gkr.shard, root |-> gkr.root, digest |-> global.digest,
   opening |-> [seed |-> gkr.transcript.seed,
                absorbed |-> Append(gkr.transcript.absorbed, "opening")]]

\* The statement with each shard's roots, read from its proof, and the proofs.
FinalOf(global, proofs) ==
  [statement |-> [global.statement EXCEPT !.roots = [i \in DOMAIN proofs |-> proofs[i].root]],
   proofs    |-> proofs]

\* Mutant: the snapshot is taken before the GKR proof.
SnapshotBeforeGkr(t) == [seed |-> t.seed, absorbed |-> <<"witness">>]

\* A snapshot leaves out the event log; restore starts an empty one.
Snapshot(t) == [seed |-> t.seed, absorbed |-> t.absorbed]
Restore(s)  == [seed |-> s.seed, absorbed |-> s.absorbed, events |-> <<>>]

EncodeGkr(g) == [shard |-> g.shard, root |-> g.root, snapshot |-> Snapshot(g.transcript)]
DecodeGkr(b) == [shard |-> b.shard, root |-> b.root, transcript |-> Restore(b.snapshot)]

Encoded(p, got) == IF p = 2 THEN [i \in DOMAIN got |-> EncodeGkr(got[i])] ELSE got
Decoded(p, content) == IF p = 2 THEN [i \in DOMAIN content |-> DecodeGkr(content[i])] ELSE content

-----------------------------------------------------------------------------
(* Calls *)

\* phase is the one the call is about, 5 for finish; got holds what the phases
\* before it gave, computed or read back.
NoCall ==
  [phase |-> 0, until |-> 0, block |-> FALSE, working |-> FALSE, got |-> [p \in 1..3 |-> Empty]]
Started(until, block) ==
  [NoCall EXCEPT !.phase = 1, !.until = until, !.block = block]

NoAnswer == [kind |-> "none", until |-> 0, at |-> 0, block |-> Empty]
Answer(kind, at) == [NoAnswer EXCEPT !.kind = kind, !.until = call.until, !.at = at]

Return(ans) == /\ call' = NoCall /\ ended' = <<>> /\ answer' = ans
               /\ UNCHANGED <<execution, file, saving, saved, damage>>

Continue(new) == /\ call' = new /\ ended' = <<>>
                 /\ UNCHANGED <<execution, answer, file, saving, saved, damage>>

\* Phase p is in the archive and gave got: stop here, or go on.
Proceed(p, got) ==
  IF call.until = p /\ ~call.block
    THEN Return(Answer("ok", 0))
    ELSE Continue([call EXCEPT !.phase = p + 1, !.working = FALSE,
                               !.got = [q \in 1..3 |-> IF q = p THEN got ELSE @[q]]])

\* A phase computed: fill, then on.
Complete(p, got) ==
  IF MayFill(archive, p)
    THEN /\ \E t \in Time : archive' = Filled(archive, p, Encoded(p, got), t)
         /\ Proceed(p, got)
    ELSE Return(Answer("archive", p)) /\ UNCHANGED archive

Running == archive.post # Empty
Calling == call.phase # 0
Idle == Running /\ ~Calling /\ ~saving
At(p) == Calling /\ call.phase = p /\ ~call.working
Held(p) == archive.later[p]

Advance(until) ==
  /\ Idle /\ UNCHANGED archive
  /\ IF until = 0 THEN Return([NoAnswer EXCEPT !.kind = "ok"]) ELSE Continue(Started(until, FALSE))

\* The plan must be the archived execution's own.
ProveBlock(planIsOurs) ==
  /\ Idle /\ UNCHANGED archive
  /\ IF planIsOurs THEN Continue(Started(4, TRUE)) ELSE Return([NoAnswer EXCEPT !.kind = "plan"])

\* A phase the archive holds is read back.  The final one is left to finish.
ReadBack(p) ==
  /\ At(p) /\ Held(p) # Empty /\ UNCHANGED archive
  /\ IF p # 4 /\ Held(p) = Garbled
       THEN Return(Answer("archive", p))
       ELSE Proceed(p, Decoded(p, Held(p)))

\* statement_inputs goes through the shards in order.
Commit ==
  /\ At(1) /\ Held(1) = Empty
  /\ IF execution.unfillable # {}
       THEN Return(Answer("trace", Least(execution.unfillable))) /\ UNCHANGED archive
       ELSE Complete(1, GlobalCommit(execution))

\* The two parallel regions: one task a shard, each over its own columns, ended
\* in any order.  A failure stops no other task.
StartTasks ==
  /\ At(2) \/ At(3)
  /\ Held(call.phase) = Empty
  /\ Continue([call EXCEPT !.working = TRUE]) /\ UNCHANGED archive

HasColumns(s) == s \notin execution.unfillable \cup execution.uncountable

ShardOf(i) == IF call.phase = 2 THEN i ELSE call.got[2][i].shard

TaskResult(i) ==
  [at |-> i, ok |-> HasColumns(ShardOf(i)),
   value |-> IF ~HasColumns(ShardOf(i)) THEN ShardOf(i)
             ELSE IF call.phase = 2 THEN GkrPart(call.got[1], i)
             ELSE OpeningPart(call.got[1], call.got[2][i])]

\* Mutant: after a failure no other task ends, and the join waits for all.
TaskUnlessFailed(i) ==
  /\ Calling /\ call.working
  /\ \A k \in 1..Len(ended) : ended[k].at # i /\ ended[k].ok
  /\ ended' = Append(ended, TaskResult(i))
  /\ UNCHANGED <<execution, archive, call, answer, file, saving, saved, damage>>

Task(i) ==
  /\ Calling /\ call.working
  /\ \A k \in 1..Len(ended) : ended[k].at # i
  /\ ended' = Append(ended, TaskResult(i))
  /\ UNCHANGED <<execution, archive, call, answer, file, saving, saved, damage>>

\* Mutant: results in the order they ended.
CollectedAsEnded(results) == results

\* map over an indexed parallel iterator collects in order.
Collected(results) ==
  [i \in DOMAIN results |-> results[CHOOSE k \in DOMAIN results : results[k].at = i]]

Failures(results) == {i \in DOMAIN results : ~results[i].ok}

\* first_error, then the phase.
JoinTasks ==
  /\ Calling /\ call.working /\ Len(ended) = execution.shards
  /\ LET results == Collected(ended) IN
       IF Failures(results) # {}
         THEN /\ Return(Answer("trace", results[Least(Failures(results))].value))
              /\ UNCHANGED archive
         ELSE Complete(call.phase, [i \in DOMAIN results |-> results[i].value])

MakeFinal ==
  /\ At(4) /\ Held(4) = Empty
  /\ Complete(4, FinalOf(call.got[1], call.got[3]))

\* finish, after prove_block's advance.
Finish ==
  /\ At(5) /\ UNCHANGED archive
  /\ IF Held(4) = Garbled
       THEN Return(Answer("archive", 4))
       ELSE Return([Answer("block", 0) EXCEPT !.block = Held(4)])

Prove ==
  \/ \E p \in LaterPhase : ReadBack(p)
  \/ Commit \/ StartTasks \/ JoinTasks \/ MakeFinal \/ Finish
  \/ \E i \in Shards : Task(i)

-----------------------------------------------------------------------------
(* The caller *)

Execute ==
  /\ ~Running
  /\ \E t \in Time : archive' = FromExecution(execution, t)
  /\ UNCHANGED <<execution, call, ended, answer, file, saving, saved, damage>>

Load ==
  /\ ~Running /\ Accepts(file)
  /\ archive' = Imported(file)
  /\ UNCHANGED <<execution, call, ended, answer, file, saving, saved, damage>>

\* Mutant: the archive may be exported in the middle of a call.
SaveDuringCall ==
  /\ Running /\ ~saving
  /\ file' = <<>> /\ saved' = NoArchive
  /\ IF archive.post.recursion
       THEN /\ answer' = [NoAnswer EXCEPT !.kind = "panic"]
            /\ archive' = NoArchive /\ UNCHANGED saving
       ELSE saving' = TRUE /\ UNCHANGED <<answer, archive>>
  /\ UNCHANGED <<execution, call, ended, damage>>

\* export into a new file.  A recursion family's buffer has no encoding.
Save ==
  /\ Idle
  /\ file' = <<>> /\ saved' = NoArchive
  /\ IF archive.post.recursion
       THEN /\ answer' = [NoAnswer EXCEPT !.kind = "panic"]
            /\ archive' = NoArchive /\ UNCHANGED saving
       ELSE saving' = TRUE /\ UNCHANGED <<answer, archive>>
  /\ UNCHANGED <<execution, call, ended, damage>>

WriteEntry ==
  /\ saving
  /\ file' = Append(file, Exported(archive)[Len(file) + 1])
  /\ saving' = (Len(file') < 10)
  /\ saved' = IF saving' THEN NoArchive ELSE archive
  /\ UNCHANGED <<execution, archive, call, ended, answer, damage>>

\* write_all fails: the file stays torn, the archive stays.
SaveFails ==
  /\ saving /\ saving' = FALSE
  /\ UNCHANGED <<execution, archive, call, ended, answer, file, saved, damage>>

\* The process ends, killed for memory or by a panic.
Crash ==
  /\ Running
  /\ archive' = NoArchive /\ call' = NoCall /\ ended' = <<>> /\ saving' = FALSE
  /\ UNCHANGED <<execution, answer, file, saved, damage>>

Altered(entry) ==
  {[entry EXCEPT !.value = v] : v \in {Empty, Garbled}}
    \cup {[entry EXCEPT !.tag = (@ + 1) % 5], [entry EXCEPT !.shortest = FALSE]}

\* A file shortened, lengthened or changed in an entry while no process runs.
\* A timing that decodes at all is a number.
Damage ==
  /\ ~Running /\ damage < MaxDamage /\ damage' = damage + 1
  /\ \/ \E n \in 0..(Len(file) - 1) : file' = SubSeq(file, 1, n)
     \/ Len(file) >= 10 /\ file' = Append(file, Entry(0, Garbled))
     \/ \E i \in 1..Len(file) : \E e \in Altered(file[i]) :
          /\ i > 5 => e.value # Garbled
          /\ file' = [file EXCEPT ![i] = e]
     \/ \E i \in 6..Len(file), t \in Time : file' = [file EXCEPT ![i].value = t]
  /\ UNCHANGED <<execution, archive, call, ended, answer, saving, saved>>

Init ==
  /\ execution \in Execution
  /\ archive = NoArchive /\ call = NoCall /\ ended = <<>> /\ answer = NoAnswer
  /\ file = <<>> /\ saving = FALSE /\ saved = NoArchive /\ damage = 0

Next ==
  \/ Prove
  \/ \E until \in Phase : Advance(until)
  \/ \E planIsOurs \in BOOLEAN : ProveBlock(planIsOurs)
  \/ Execute \/ Load \/ Save \/ WriteEntry \/ SaveFails \/ Crash \/ Damage

Spec == Init /\ [][Next]_vars

\* Inside a call nothing waits for anything but rayon's own tasks.
FairSpec == Spec /\ WF_vars(Prove)

-----------------------------------------------------------------------------
(* Properties *)

EntryOK(i, entry) ==
  /\ entry.tag \in Phase /\ entry.shortest \in BOOLEAN
  /\ i > 5 => entry.value \in Time \cup {Empty}

\* Types, no shard proved twice by one call, and no export in the middle of one.
StagedTypeOK ==
  /\ execution \in Execution
  /\ Running => /\ archive.post = execution
                /\ DOMAIN archive.later = LaterPhase
                /\ archive.timing \in [Phase -> Time \cup {Empty}]
  /\ Calling => /\ Running /\ ~saving
                /\ call.phase \in 1..5 /\ call.until \in LaterPhase
  /\ Len(ended) <= execution.shards
  /\ \A k \in 1..Len(ended) : ended[k].at \in Shards
  /\ Len(file) <= 10 + MaxDamage
  /\ \A i \in 1..10 : i <= Len(file) => EntryOK(i, file[i])
  /\ saving => Running
  /\ damage \in 0..MaxDamage

\* "Phases fill in order, once each, and are timed exactly when they are
\* filled": of every archive a process holds, loaded from whatever file.
ArchivesAreWellFormed == Running => WellFormed(archive)

\* What one uninterrupted run stores for phase p.
RunProofs(e) ==
  [s \in 1..e.shards |-> OpeningPart(GlobalCommit(e), GkrPart(GlobalCommit(e), s))]
RunContent(e, p) ==
  CASE p = 1 -> GlobalCommit(e)
    [] p = 2 -> [s \in 1..e.shards |-> EncodeGkr(GkrPart(GlobalCommit(e), s))]
    [] p = 3 -> RunProofs(e)
    [] p = 4 -> FinalOf(GlobalCommit(e), RunProofs(e))

\* A phase's bytes are some bytes, and decode.
ASSUME ContentAssumption ==
  \A e \in Execution, p \in LaterPhase : RunContent(e, p) \notin {Empty, Garbled}

\* "An archive exported after any phase finishes to the same bytes as an
\* uninterrupted run", on any schedule of the tasks, and a section that is no
\* longer what export wrote is refused, never half read.
StoredPhasesAreTheRun ==
  /\ Running => \A p \in LaterPhase :
       Held(p) \in {Empty, Garbled, RunContent(execution, p)}
  /\ answer.kind = "block" => answer.block = RunContent(execution, 4)

\* What a call up to until must answer, by the statement's order alone.
Expected(e, until) ==
  IF until >= 1 /\ e.unfillable # {} THEN <<"trace", Least(e.unfillable)>>
  ELSE IF until >= 2 /\ e.uncountable # {} THEN <<"trace", Least(e.uncountable)>>
  ELSE <<"ok", 0>>

\* The answer depends on the execution and the phase asked for, not on the
\* schedule, on the crashes or on where the archive came from: a failure names
\* the first shard of the statement that fails, and no archive of ours is refused.
AnswersDoNotDependOnTheSchedule ==
  damage = 0 /\ answer.kind \notin {"none", "plan", "panic"} =>
    <<IF answer.kind = "block" THEN "ok" ELSE answer.kind, answer.at>>
      = Expected(execution, answer.until)

\* A file is taken exactly when its export ended, and gives back the archive
\* exported: what a crash or a full disk leaves is never half an archive.
LoadsReturnWhatWasSaved ==
  damage = 0 => /\ Accepts(file) <=> saved.post # Empty
                /\ saved.post # Empty => Imported(file) = saved

\* Every call returns, whatever its tasks do and whichever of them fail.
CallsReturn == Calling ~> ~Calling

\* "Every archive that can be built can be read back", so it can be written.
EveryArchiveCanBeExported == answer.kind # "panic"
=============================================================================
