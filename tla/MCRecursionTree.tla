-------------------------- MODULE MCRecursionTree --------------------------
EXTENDS RecursionTree, StreamedProver

MCFamilies == <<"ADD", "JUMP", "INIT_TEARDOWN", "ZERO_WINDOWS", "PUBLIC_INPUT",
                "PUBLIC_OUTPUT", "ADVICE_WINDOWS">>
MCPublicAt == [f \in {"PUBLIC_INPUT", "PUBLIC_OUTPUT"} |->
                   IF f = "PUBLIC_INPUT" THEN 1 ELSE 2]
MCKeyHeights == [f \in WindowFamilies \cup PublicFamilies |->
                    IF f \in PublicFamilies THEN 1 ELSE 4]

\* An execution of two cycle shards over one word and one register, i -> m -> f
\* and r0 -> r1, whose guest reads neither public window.
MCTuples == {"i", "m", "f", "r0", "r1", "x", "y"}
Bag(ts) == [x \in MCTuples |-> IF x \in ts THEN 1 ELSE 0]
Trace(f, r, w, v) == [family |-> f, reads |-> Bag(r), writes |-> Bag(w), words |-> v]

\* add0b is add0's rows in another order; jump1 does in one JUMP shard what add1
\* does in an ADD shard; in2 and out2 are other public values.
MCTraceOf ==
    [c \in {"init", "add0", "add0b", "add1", "jump1", "in1", "in2", "out1", "out2",
           "zero", "adda", "addb", "jumpa"} |->
        CASE c = "init" -> Trace("INIT_TEARDOWN", {"f"}, {"i"}, 0)
          [] c \in {"add0", "add0b"} -> Trace("ADD", {"i"}, {"m"}, 0)
          [] c = "add1" -> Trace("ADD", {"m", "r0"}, {"f", "r1"}, 0)
          [] c = "jump1" -> Trace("JUMP", {"m", "r0"}, {"f", "r1"}, 0)
          [] c = "in1" -> Trace("PUBLIC_INPUT", {"x"}, {"x"}, 1)
          [] c = "in2" -> Trace("PUBLIC_INPUT", {"x"}, {"x"}, 2)
          [] c = "out1" -> Trace("PUBLIC_OUTPUT", {"y"}, {"y"}, 1)
          [] c = "out2" -> Trace("PUBLIC_OUTPUT", {"y"}, {"y"}, 2)
          [] c = "zero" -> Trace("ZERO_WINDOWS", {"x"}, {"x"}, 0)
          [] c \in {"adda", "addb"} -> Trace("ADD", {"x"}, {"x"}, 0)
          [] c = "jumpa" -> Trace("JUMP", {"x"}, {"x"}, 0)]
MCFinalsOf ==
    [b \in {"halted", "failed"} |->
        [reads |-> Bag(IF b = "halted" THEN {"r1"} ELSE {"r0"}), writes |-> Bag({"r0"}),
         exit |-> IF b = "halted" THEN 0 ELSE 1]]

Counts(add, jump) ==
    [f \in ToSet(MCFamilies) |->
        CASE f = "ADD" -> add [] f = "JUMP" -> jump
          [] f \in {"ZERO_WINDOWS", "ADVICE_WINDOWS"} -> 0 [] OTHER -> 1]
MCStatements ==
    { [digest |-> "d1", counts |-> Counts(2, 0), windows |-> <<>>, io |-> <<1, 1>>,
       exit |-> 0, boundary |-> "halted", ts |-> <<<<0, 4>>, <<0, 1>>, <<1, 2>>, <<0, 4>>, <<0, 4>>>>,
       lists |-> <<"init", "add0", "add1", "in1", "out1">>],
      [digest |-> "d2", counts |-> Counts(1, 1), windows |-> <<>>, io |-> <<2, 2>>,
       exit |-> 0, boundary |-> "halted", ts |-> <<<<0, 4>>, <<0, 1>>, <<1, 2>>, <<0, 4>>, <<0, 4>>>>,
       lists |-> <<"init", "add0b", "jump1", "in2", "out2">>] }

\* A streamed execution of four chunks and a window shard beside the fixed ones.
Execution(fills, traps, unfillable, uncountable) ==
    [counts |-> [Counts(3, 1) EXCEPT !["ZERO_WINDOWS"] = 1], windows |-> <<1>>,
     io |-> <<1, 1>>, exit |-> 0, boundary |-> "halted",
     ts |-> <<<<0, 4>>, <<0, 4>>, <<0, 1>>, <<1, 2>>, <<2, 3>>, <<0, 4>>, <<0, 4>>, <<0, 4>>>>,
     lists |-> <<"init", "zero", "add0", "add1", "adda", "jumpa", "in1", "out1">>,
     fills |-> fills, traps |-> traps, unfillable |-> unfillable, uncountable |-> uncountable]
MCExecutions ==
    {Execution(f, FALSE, {}, {}) :
        f \in {<<"ADD", "ADD", "JUMP", "ADD">>, <<"JUMP", "ADD", "ADD", "ADD">>}}
    \cup {Execution(<<"ADD", "JUMP", "ADD", "ADD">>, t, b, c) :
             t \in BOOLEAN, b \in {{}, {2}, {2, 4, 6}}, c \in {{}, {1}, {3, 5, 8}}}

\* The tree and the streaming prover, side by side: no step of one reads the other.
TreeOff ==
    /\ tree = <<>> /\ proved = <<"off">> /\ digests = <<>> /\ token = "own"
    /\ departed = 0 /\ keptTo = {} /\ decided = "off"
StreamOff ==
    /\ execution = [fills |-> <<>>] /\ pass = 3 /\ Queue!QueueInit
    /\ committed = <<>> /\ global = <<>> /\ answer = <<>>
BlockInit == (TreeInit /\ StreamOff) \/ (TreeOff /\ StreamInit)
BlockNext ==
    \/ pass = 3 /\ TreeNext /\ UNCHANGED streamVars
    \/ pass # 3 /\ StreamNext /\ UNCHANGED treeVars
    \/ pass = 0 /\ UNCHANGED <<treeVars, streamVars>>
BlockSpec == BlockInit /\ [][BlockNext]_<<treeVars, streamVars>>

MCPlans ==
    {[costs |-> <<1, 1, 1, 1, 1>>, leaf |-> l, budget |-> 9, fan_in |-> k] :
        l \in {2, 5}, k \in {2, 4}}
MCPlanGrid ==
    {[costs |-> c, leaf |-> l, budget |-> b, fan_in |-> k] :
        c \in UNION {[1..n -> {1, 3}] : n \in 1..6}, l \in 1..3, b \in {2, 5}, k \in 2..4}
=============================================================================
