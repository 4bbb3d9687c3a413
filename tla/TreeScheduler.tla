---------------------------- MODULE TreeScheduler ----------------------------
(***************************************************************************)
(* `bench recurse`: a recursion tree's nodes proved by processes over one  *)
(* directory (tools/bench/src/recurse.rs `run`, `node`), across runs that  *)
(* are stopped and started again.                                          *)
(*                                                                         *)
(* A run refuses a directory whose programs or plan are not its own,       *)
(* writes its own over them, takes a proof in the directory for done and   *)
(* starts nodes as their children are done.  A node is a process: it reads *)
(* its children's proofs, proves, writes <id>.block.partial and renames it *)
(* to <id>.block.                                                          *)
(*                                                                         *)
(* A file is absent, whole, torn, or the last process to truncate it,      *)
(* still writing.  Two processes of one node write the same bytes.         *)
(***************************************************************************)
EXTENDS Integers, Sequences, FiniteSets, SequencesExt, FiniteSetsExt

CONSTANTS
    Nodes, Root,        \* the plan's ids; a child's is below its parent's
    Children,           \* node -> its children, none of a leaf
    InFlight,           \* --in-flight
    ShardsInFlight,     \* --shards-in-flight
    Pid,                \* process ids
    MaxStops            \* bound: how often a run or a node is stopped

\* A plan is a tree (recursion.rs `Tree::plan`).
ASSUME TreeAssumption ==
    /\ Nodes \subseteq Nat /\ IsFiniteSet(Nodes) /\ Root \in Nodes
    /\ Children \in [Nodes -> SUBSET Nodes]
    /\ \A n \in Nodes : \A c \in Children[n] : c < n
    /\ \A c \in Nodes :
          Cardinality({n \in Nodes : c \in Children[n]}) = IF c = Root THEN 0 ELSE 1
    /\ InFlight \in Nat \ {0} /\ ShardsInFlight \in Nat \ {0}

VARIABLES
    phase,      \* where the run is
    planned,    \* the files a run refuses when they are not its own
    done,       \* run's done
    running,    \* run's running: <<process, share>>, in start order
    proc,       \* process -> the node it proves and how far it is
    partial,    \* node -> its <id>.block.partial
    block,      \* node -> its <id>.block
    stops

vars == <<phase, planned, done, running, proc, partial, block, stops>>
schedulerVars == <<phase, planned, done, running>>
nodeVars == <<proc, partial, block>>

\* The elves of the two programs, and tree.txt.
Planned == {"programs", "tree"}
Writing == [programs |-> "writing programs", tree |-> "writing tree"]
After == [programs |-> "tree", tree |-> "running"]
Over == {"down", "failed", "refused"}
Free == [id |-> 0, at |-> "free"]
Ended == {"ok", "failed"}
Live(p) == proc[p].at \notin Ended \cup {"free"}

Init ==
    /\ phase = "down" /\ done = {} /\ running = <<>> /\ stops = 0
    /\ planned = [f \in Planned |-> "absent"]
    /\ proc = [p \in Pid |-> Free]
    /\ partial = [n \in Nodes |-> "none"]
    /\ block = [n \in Nodes |-> "none"]

-----------------------------------------------------------------------------
(* The run up to its loop. *)

Launch ==
    /\ phase \in Over
    /\ phase' = "programs"
    /\ UNCHANGED <<planned, done, running, nodeVars, stops>>

\* What is there is read, and refused if it differs, before it is truncated.
Check(f) ==
    /\ phase = f
    /\ IF planned[f] = "torn" THEN phase' = "refused" /\ UNCHANGED planned
       ELSE phase' = Writing[f] /\ planned' = [planned EXCEPT ![f] = "torn"]
    /\ UNCHANGED <<done, running, nodeVars, stops>>

\* A node whose proof is already there is done.
Write(f) ==
    /\ phase = Writing[f]
    /\ phase' = After[f]
    /\ planned' = [planned EXCEPT ![f] = "whole"]
    /\ done' = IF f = "tree" THEN {n \in Nodes : block[n] # "none"} ELSE done
    /\ running' = <<>>
    /\ UNCHANGED <<nodeVars, stops>>

-----------------------------------------------------------------------------
(* Its loop.  Its error with nothing ready and nothing running is what      *)
(* ReadyNodesStart rules out.                                              *)

Runs == DOMAIN running
Looping == phase = "running" /\ Root \notin done
Ready ==
    {n \in Nodes \ done : Children[n] \subseteq done /\ \A k \in Runs : proc[running[k][1]].id # n}
\* A place in `runs` and a number for each shard the node there has in flight.
Slots(runs) == UNION {{k} \X (1..runs[k][2]) : k \in DOMAIN runs}
Held == Cardinality(Slots(running))
Spare == InFlight * ShardsInFlight - Held
Least(a, b) == IF a < b THEN a ELSE b

\* Mutant: the first node ready takes all that is spare.
AllSpare == Spare
\* Mutant: the share of an idle tree.
IdleShare == (InFlight * ShardsInFlight) \div Least(Cardinality(Ready), InFlight - Len(running))
Share == Max({Spare \div Least(Cardinality(Ready), InFlight - Len(running)), 1})

MayStart == Ready # {} /\ Len(running) < InFlight /\ Spare > 0

Start ==
    /\ Looping /\ MayStart
    /\ \E p \in Pid : proc[p] = Free
    /\ LET p == CHOOSE p \in Pid : proc[p] = Free
       IN  /\ proc' = [proc EXCEPT ![p] = [id |-> Min(Ready), at |-> "started"]]
           /\ running' = Append(running, <<p, Share>>)
    /\ UNCHANGED <<phase, planned, done, partial, block, stops>>

\* The first child found ended.
FirstEnded(k) ==
    /\ proc[running[k][1]].at \in Ended
    /\ \A j \in 1..k - 1 : Live(running[j][1])

\* A killed process leaves what it was writing torn.
Left(files, killed) == [n \in Nodes |-> IF files[n] \in killed THEN "torn" ELSE files[n]]
Reaped(killed) == [p \in Pid |-> IF p \in killed THEN Free ELSE proc[p]]
Processes == {running[k][1] : k \in Runs}

Proved(k) ==
    /\ Looping /\ ~MayStart /\ FirstEnded(k)
    /\ proc[running[k][1]].at = "ok"
    /\ done' = done \cup {proc[running[k][1]].id}
    /\ running' = RemoveAt(running, k)
    /\ proc' = Reaped({running[k][1]})
    /\ UNCHANGED <<phase, planned, partial, block, stops>>

\* Of a failing node, the others are killed and waited for.
Failed(k) ==
    /\ Looping /\ ~MayStart /\ FirstEnded(k)
    /\ proc[running[k][1]].at = "failed"
    /\ phase' = "failed"
    /\ running' = <<>>
    /\ proc' = Reaped(Processes)
    /\ partial' = Left(partial, Processes)
    /\ block' = Left(block, Processes)
    /\ UNCHANGED <<planned, done, stops>>

\* check_root: the root's proof reads and verifies.
CheckRoot ==
    /\ phase = "running" /\ Root \in done
    /\ phase' = IF block[Root] = "whole" THEN "proved" ELSE "failed"
    /\ UNCHANGED <<planned, done, running, nodeVars, stops>>

Scheduler ==
    \/ \E f \in Planned : Check(f) \/ Write(f)
    \/ Start
    \/ \E k \in Runs : Proved(k) \/ Failed(k)
    \/ CheckRoot

-----------------------------------------------------------------------------
(* A node's process.  One no run waits for leaves no status. *)

Moved(p, at) == [proc EXCEPT ![p].at = at]
Exit(p, status) == IF p \in Processes THEN Moved(p, status) ELSE Reaped({p})

\* The plan, the programs and the children's proofs, read before proving.
Read(p) ==
    /\ proc[p].at = "started"
    /\ proc' = IF /\ \A f \in Planned : planned[f] = "whole"
                  /\ \A c \in Children[proc[p].id] : block[c] = "whole"
               THEN Moved(p, "proving") ELSE Exit(p, "failed")
    /\ UNCHANGED <<schedulerVars, partial, block, stops>>

\* Mutant: the proof is written in its place.
OpenInPlace(p) ==
    /\ proc[p].at = "proving"
    /\ proc' = Moved(p, "writing")
    /\ block' = [block EXCEPT ![proc[p].id] = p]
    /\ partial' = [partial EXCEPT ![proc[p].id] = "whole"]
    /\ UNCHANGED <<schedulerVars, stops>>

\* Proved and verified, the proof's partial file is truncated.
Open(p) ==
    /\ proc[p].at = "proving"
    /\ proc' = Moved(p, "writing")
    /\ partial' = [partial EXCEPT ![proc[p].id] = p]
    /\ UNCHANGED <<schedulerVars, block, stops>>

\* A file is whole when its last truncater has written it, wherever it is.
Fill(p) ==
    /\ proc[p].at = "writing"
    /\ proc' = Moved(p, "written")
    /\ partial' = [n \in Nodes |-> IF partial[n] = p THEN "whole" ELSE partial[n]]
    /\ block' = [n \in Nodes |-> IF block[n] = p THEN "whole" ELSE block[n]]
    /\ UNCHANGED <<schedulerVars, stops>>

Rename(p) ==
    LET id == proc[p].id IN
    /\ proc[p].at = "written"
    /\ IF partial[id] = "none" THEN proc' = Exit(p, "failed") /\ UNCHANGED <<partial, block>>
       ELSE /\ proc' = Exit(p, "ok")
            /\ block' = [block EXCEPT ![id] = partial[id]]
            /\ partial' = [partial EXCEPT ![id] = "none"]
    /\ UNCHANGED <<schedulerVars, stops>>

Step(p) == Read(p) \/ Open(p) \/ Fill(p) \/ Rename(p)

-----------------------------------------------------------------------------
(* What stops a run: it alone, killed or returning from an I/O error, and  *)
(* then its nodes run on; it and its nodes; a node alone.                  *)

StopRun(killed) ==
    /\ phase \notin Over \cup {"proved"} /\ stops < MaxStops
    /\ stops' = stops + 1
    /\ phase' = "down"
    /\ running' = <<>>
    /\ proc' = Reaped(killed \cup {p \in Pid : ~Live(p)})
    /\ partial' = Left(partial, killed)
    /\ block' = Left(block, killed)
    /\ UNCHANGED <<planned, done>>
StopAlone == StopRun({})
StopAll == StopRun({p \in Pid : Live(p)})

StopNode(p) ==
    /\ Live(p) /\ stops < MaxStops
    /\ stops' = stops + 1
    /\ proc' = Exit(p, "failed")
    /\ partial' = Left(partial, {p})
    /\ block' = Left(block, {p})
    /\ UNCHANGED schedulerVars

Next ==
    \/ Launch \/ Scheduler
    \/ \E p \in Pid : Step(p) \/ StopNode(p)
    \/ StopAlone \/ StopAll

\* A run that ends is started again, and no process stands still.
Fairness == WF_vars(Launch) /\ WF_vars(Scheduler) /\ \A p \in Pid : WF_vars(Step(p))
Spec == Init /\ [][Next]_vars /\ Fairness

-----------------------------------------------------------------------------
\* The tree proves at most InFlight times ShardsInFlight shards at once: the
\* shares a run has given out are within it, whatever was ready when.
SharesAreWithinTheBudget == Held <= InFlight * ShardsInFlight

\* "each node started the moment its last child's proof exists": a run waits
\* only for a child of its own, and with a node ready only when InFlight run:
\* no node was ever given what another has to wait for.
ReadyNodesStart ==
    Looping /\ ~MayStart => running # <<>> /\ (Ready = {} \/ Len(running) = InFlight)

\* Every node is proved in the end, across stops, of a directory whose plan
\* no stop tore and where no two processes ever proved one node.
TwoProveOneNode ==
    \E p, q \in Pid : p # q /\ Live(p) /\ Live(q) /\ proc[p].id = proc[q].id
PlanIsTorn == phase \in Over /\ \E f \in Planned : planned[f] = "torn"
StoppedRunsFinish == [](~PlanIsTorn /\ ~TwoProveOneNode) => <>(phase = "proved")

\* recurse.rs:28: "A node whose proof is already in `<out>` is not proved
\* again, so a stopped run resumes": no run of the same tree is refused.
StoppedRunsResume == phase # "refused"
=============================================================================
