------------------------------ MODULE Ceremony ------------------------------
(***************************************************************************)
(* The decider's key as a ceremony (crates/groth16/src/phase2.rs), through *)
(* the two files its command keeps (tools/bench/src/recurse.rs `ceremony`).*)
(*                                                                         *)
(* A group element is its discrete logarithm, modulo the prime Q.  The     *)
(* pairing equations over a random combination of elements are equations   *)
(* of each element, and a Schnorr proof is what it was made over: only who *)
(* knew a record's factor made it, and it is of that record there alone.   *)
(***************************************************************************)
EXTENDS Integers, Sequences, FiniteSets, SequencesExt

CONSTANTS
    Q,          \* the group's order
    Wires,      \* the circuit's wires
    Class,      \* wire -> the trapdoor its sum is over
    A, B, C,    \* wire -> its terms over the transcript's tau
    H,          \* tau^k Z(tau)
    Secrets,    \* the factors a contributor may make: trapdoor -> factor
    MaxRecords  \* bound: a state with as many records takes no contribution

Elements == 0..Q - 1
First == {"alpha", "beta"}
Second == {"gamma", "delta", "eta"}
Trapdoors == First \cup Second

\* The order is an odd prime, and factors are invertible: a zero one is a point
\* at infinity.
ASSUME CeremonyAssumption ==
    /\ Q \in Nat \ 0..2 /\ \A n \in 2..Q - 1 : Q % n # 0
    /\ Class \in [Wires -> Second]
    /\ A \in [Wires -> Elements] /\ B \in [Wires -> Elements] /\ C \in [Wires -> Elements]
    /\ H \in Elements /\ MaxRecords \in Nat
    /\ Secrets \subseteq [Trapdoors -> 1..Q - 1]

VARIABLES
    file,       \* decider.phase2, the lists in it: <<>> of one that is not there
    key,        \* decider.key, likewise
    at,         \* the command's step, or "idle"
    held,       \* the state the command read or made
    finished    \* history: the state of the key, when it was written whole
vars == <<file, key, at, held, finished>>

-----------------------------------------------------------------------------
(* A state. *)

Times(x, y) == (x * y) % Q
Scaled(points, by) == [w \in Wires |-> Times(points[w], by[w])]

\* A wire's three terms, under beta and alpha, as one.
Sum(w, beta, alpha) == (A[w] * beta + B[w] * alpha + C[w]) % Q

InitState ==
    [round |-> 1, alpha |-> 1, trapdoors |-> [t \in Trapdoors |-> 1], records |-> <<>>,
     terms |-> <<A, B, C>>, h |-> H]

\* What a record's proof binds: itself and every record before it.
Context(records) ==
    [k \in DOMAIN records |-> <<records[k].trapdoor, records[k].factor, records[k].after>>]
Proof(records, t, factor, after) == <<Context(records), t, factor, after>>
Record(records, t, factor, after) ==
    [trapdoor |-> t, factor |-> factor, after |-> after, proof |-> Proof(records, t, factor, after)]

\* Mutant: a trapdoor multiplied in where it is divided by.
NotDivided(x) == x
Reciprocal(x) == CHOOSE y \in 1..Q - 1 : Times(x, y) = 1

\* A record to a trapdoor.
RecordTo(s, t, factor) ==
    LET after == Times(s.trapdoors[t], factor)
    IN  [s EXCEPT !.trapdoors[t] = after,
                  !.records = Append(@, Record(s.records, t, factor, after))]

\* One to each trapdoor of the round, in order.
Recorded(s, factors) ==
    LET to(made, t) == RecordTo(made, t, factors[t])
    IN  IF s.round = 1 THEN to(to(s, "alpha"), "beta")
        ELSE to(to(to(s, "gamma"), "delta"), "eta")

\* contribute: the elements move with the trapdoors.
Contributed(s, factors) ==
    LET made == Recorded(s, factors)
        over(t) == Reciprocal(factors[t])
    IN  IF s.round = 1
        THEN [made EXCEPT !.alpha = Times(@, factors["alpha"]),
                          !.terms = <<Scaled(s.terms[1], [w \in Wires |-> factors["beta"]]),
                                      Scaled(s.terms[2], [w \in Wires |-> factors["alpha"]]),
                                      s.terms[3]>>]
        ELSE [made EXCEPT !.terms = <<Scaled(s.terms[1], [w \in Wires |-> over(Class[w])])>>,
                          !.h = Times(@, over("delta"))]

HasRecords(s, trapdoors) == trapdoors \subseteq {s.records[k].trapdoor : k \in DOMAIN s.records}
Sealable(s) == s.round = 1 /\ HasRecords(s, First)
Sealed(s) ==
    [s EXCEPT !.round = 2,
              !.terms = <<[w \in Wires |-> (@[1][w] + @[2][w] + @[3][w]) % Q]>>]

-----------------------------------------------------------------------------
(* verify. *)

\* Round 1's records are all before round 2's, which an unsealed state has none of.
Ordered(s, k) ==
    LET t == s.records[k].trapdoor
    IN  /\ t \in First => \A j \in 1..k - 1 : s.records[j].trapdoor \notin Second
        /\ t \in Second => s.round = 2

\* A trapdoor after the records up to k: the last of them to it.
TrapdoorAt(s, k, t) ==
    LET to == {j \in 1..k : s.records[j].trapdoor = t}
    IN  IF to = {} THEN 1 ELSE s.records[CHOOSE j \in to : \A i \in to : i <= j].after

RecordHolds(s, k) ==
    LET r == s.records[k]
    IN  /\ Ordered(s, k)
        /\ r.factor # 0
        /\ r.proof = Proof(SubSeq(s.records, 1, k - 1), r.trapdoor, r.factor, r.after)
        /\ Times(r.factor, TrapdoorAt(s, k - 1, r.trapdoor)) = r.after

\* Mutant: [alpha]_1 not held to the records.
TrapdoorsInG2(s) == \A t \in Trapdoors : s.trapdoors[t] = TrapdoorAt(s, Len(s.records), t)
TrapdoorsHold(s) ==
    /\ \A t \in Trapdoors : s.trapdoors[t] = TrapdoorAt(s, Len(s.records), t)
    /\ s.alpha = s.trapdoors["alpha"]

\* The wires of each class, in one combination under that class's trapdoor.
ElementsHold(s) ==
    IF s.round = 1
    THEN /\ \A w \in Wires : /\ s.terms[1][w] = Times(A[w], s.trapdoors["beta"])
                             /\ s.terms[2][w] = Times(B[w], s.trapdoors["alpha"])
                             /\ s.terms[3][w] = C[w]
         /\ s.h = H
    ELSE /\ \A w \in Wires : Times(s.terms[1][w], s.trapdoors[Class[w]])
                                = Sum(w, s.trapdoors["beta"], s.trapdoors["alpha"])
         /\ Times(s.h, s.trapdoors["delta"]) = H

Verifies(s) ==
    /\ Len(s.terms) = (IF s.round = 1 THEN 3 ELSE 1)
    /\ \A k \in DOMAIN s.records : RecordHolds(s, k)
    /\ TrapdoorsHold(s)
    /\ ElementsHold(s)

\* key, of a complete state, which is kept beside it.
Complete(s) == s.round = 2 /\ HasRecords(s, Trapdoors)
Public == {w \in Wires : Class[w] = "gamma"}
KeyOf(s) ==
    [trapdoors |-> [s.trapdoors EXCEPT !["alpha"] = s.alpha],
     ic |-> [w \in Public |-> s.terms[1][w]], l |-> s.terms[1], h |-> s.h]

-----------------------------------------------------------------------------
(* The two files: lists, each its length and then its items, so that one   *)
(* cut short within a list is refused as one that ends before it.          *)

\* write: a record's fields are columns, and a wire's terms three lists, of which
\* the last two are empty once they are summed.
StateLists(s) ==
    LET term(k) == IF k \in DOMAIN s.terms THEN <<s.terms[k]>> ELSE <<>>
        R == s.records
    IN  <<"state of the circuit", s.round, s.alpha, s.trapdoors,
          [k \in DOMAIN R |-> R[k].trapdoor], [k \in DOMAIN R |-> R[k].factor],
          [k \in DOMAIN R |-> R[k].proof], [k \in DOMAIN R |-> R[k].after],
          term(1), term(2), term(3), s.h>>

\* read: of a file with every list, and a column no shorter than the first.
StateReadable(f) ==
    /\ Len(f) >= 12
    /\ f[1] = "state of the circuit" /\ f[2] \in 1..2
    /\ \A c \in 6..8 : Len(f[c]) >= Len(f[5])
StateIn(f) ==
    [round |-> f[2], alpha |-> f[3], trapdoors |-> f[4],
     records |-> [k \in DOMAIN f[5] |-> [trapdoor |-> f[5][k], factor |-> f[6][k],
                                         after |-> f[8][k], proof |-> f[7][k]]],
     terms |-> f[9] \o f[10] \o f[11], h |-> f[12]]

\* finish writes alpha with the public wires, and the other trapdoors in G2.
KeyLists(k) ==
    LET x == k.trapdoors
    IN  <<"key of the circuit", <<x["alpha"], k.ic>>,
          <<x["beta"], x["gamma"], x["delta"], x["eta"]>>,
          "Lagrange in G1", "Lagrange in G2", k.l, k.h>>
KeyReadable(f) == Len(f) >= 7 /\ f[1] = "key of the circuit" /\ Len(f[2]) = 2 /\ Len(f[3]) = 4
KeyIn(f) ==
    [trapdoors |-> [t \in Trapdoors |-> CASE t = "alpha" -> f[2][1] [] t = "beta" -> f[3][1]
                                          [] t = "gamma" -> f[3][2] [] t = "delta" -> f[3][3]
                                          [] t = "eta" -> f[3][4]],
     ic |-> f[2][2], l |-> f[6], h |-> f[7]]

-----------------------------------------------------------------------------
(* The command. *)

Init == file = <<>> /\ key = <<>> /\ at = "idle" /\ held = <<>> /\ finished = {}

Begin == /\ at = "idle" /\ held' = InitState
         /\ at' = "write state" /\ UNCHANGED <<file, key, finished>>
Contribute ==
    /\ at = "idle" /\ StateReadable(file) /\ Len(StateIn(file).records) < MaxRecords
    /\ \E factors \in Secrets : held' = Contributed(StateIn(file), factors)
    /\ at' = "write state" /\ UNCHANGED <<file, key, finished>>
Seal ==
    /\ at = "idle" /\ StateReadable(file) /\ Sealable(StateIn(file))
    /\ held' = Sealed(StateIn(file))
    /\ at' = "write state" /\ UNCHANGED <<file, key, finished>>
\* Mutant: a key of a state that only verifies.
FinishEarly ==
    /\ at = "idle" /\ StateReadable(file) /\ Verifies(StateIn(file)) /\ StateIn(file).round = 2
    /\ held' = StateIn(file)
    /\ at' = "write key" /\ UNCHANGED <<file, key, finished>>
Finish ==
    /\ at = "idle" /\ StateReadable(file)
    /\ Verifies(StateIn(file)) /\ Complete(StateIn(file))
    /\ held' = StateIn(file)
    /\ at' = "write key" /\ UNCHANGED <<file, key, finished>>

\* A file is created anew, empty, and its lists written one after another.
WriteState ==
    /\ at = "write state" /\ file' = StateLists(held)
    /\ at' = "idle" /\ held' = <<>> /\ UNCHANGED <<key, finished>>
WriteKey ==
    /\ at = "write key" /\ key' = KeyLists(KeyOf(held)) /\ finished' = {held}
    /\ at' = "idle" /\ held' = <<>> /\ UNCHANGED file

\* What a write of the lists over an old file leaves when it is cut short.
\* Mutant: the old file is written over and not truncated.
CutOver(old, lists) ==
    {SubSeq(lists, 1, n) \o SubSeq(old, n + 1, Len(old)) : n \in 0..Len(lists) - 1}
Cut(old, lists) == {SubSeq(lists, 1, n) : n \in 0..Len(lists) - 1}
\* Mutant: a key so.
KeyCutOver == CutOver(key, KeyLists(KeyOf(held)))
KeyCut == Cut(key, KeyLists(KeyOf(held)))
\* The command stops before it opens its file, or within its write.
Stop ==
    /\ at # "idle" /\ at' = "idle" /\ held' = <<>>
    /\ \/ UNCHANGED <<file, key, finished>>
       \/ /\ at = "write state" /\ file' \in Cut(file, StateLists(held))
          /\ UNCHANGED <<key, finished>>
       \/ /\ at = "write key" /\ key' \in KeyCut /\ finished' = {} /\ UNCHANGED file

Next == Begin \/ Contribute \/ Seal \/ Finish \/ WriteState \/ WriteKey \/ Stop
Spec == Init /\ [][Next]_vars

-----------------------------------------------------------------------------
(* What a state may become in a stranger's hands. *)

Without(s, k) == [s EXCEPT !.records = RemoveAt(@, k)]
Altered(s) ==
    {[s EXCEPT !.alpha = x] : x \in Elements} \cup {[s EXCEPT !.h = x] : x \in Elements}
    \cup {[s EXCEPT !.trapdoors[p[1]] = p[2]] : p \in Trapdoors \X Elements}
    \cup {[s EXCEPT !.terms[p[1]][p[2]] = p[3]] : p \in (DOMAIN s.terms) \X Wires \X Elements}
    \cup {[s EXCEPT !.round = 3 - @]}
    \cup {Without(s, k) : k \in DOMAIN s.records}
    \cup {[s EXCEPT !.records[p[1]].after = p[2]] : p \in (DOMAIN s.records) \X Elements}

\* A record of the stranger's to any trapdoor, which it agrees with, and the
\* elements left where they were.
Moved(s, t, factor) ==
    LET made == RecordTo(s, t, factor)
    IN  [made EXCEPT !.alpha = IF t = "alpha" THEN made.trapdoors[t] ELSE @]
\* Its terms scaled as if they were still apart.
Rescaled(s, t, factor) ==
    [s EXCEPT !.terms = <<Scaled(@[1], [w \in Wires |-> factor])>> \o Tail(@),
              !.h = IF t = "delta" THEN Times(@, Reciprocal(factor)) ELSE @]
\* Round 1's state is held with the terms apart: contributions to the other
\* trapdoors and then to t, and elements that fit them all.
Summed(s, t) ==
    LET second == Moved(Moved(Moved(s, "gamma", 2), "delta", 2), "eta", 2)
        moved == Moved(second, t, 2)
        x == moved.trapdoors
    IN  [moved EXCEPT !.round = 2, !.h = Times(H, Reciprocal(x["delta"])),
                      !.terms = <<[w \in Wires |->
                                      Times(Sum(w, x["beta"], x["alpha"]), Reciprocal(x[Class[w]]))]>>]
Stranger(s) ==
    Altered(s)
    \cup (IF s.round = 1 THEN {Summed(s, t) : t \in Trapdoors} ELSE {})
    \cup {Moved(s, p[1], p[2]) : p \in Trapdoors \X Elements}
    \cup {Rescaled(Moved(s, p[1], p[2]), p[1], p[2]) : p \in Trapdoors \X (2..Q - 1)}

\* The product of a state's factors of a trapdoor.
Product(s, t) ==
    LET upTo[k \in 0..Len(s.records)] ==
            IF k = 0 THEN 1
            ELSE IF s.records[k].trapdoor # t THEN upTo[k - 1]
            ELSE Times(upTo[k - 1], s.records[k].factor)
    IN  upTo[Len(s.records)]

\* A state of the circuit under the product of its contributions: apart under
\* alpha and beta, or summed after they are finished and over a wire's own.
IsOfTheContributions(s) ==
    LET x == [t \in Trapdoors |-> Product(s, t)]
    IN  /\ s.trapdoors = x /\ s.alpha = x["alpha"]
        /\ IF s.round = 1
           THEN /\ s.terms = <<Scaled(A, [w \in Wires |-> x["beta"]]),
                               Scaled(B, [w \in Wires |-> x["alpha"]]), C>>
                /\ s.h = H
           ELSE /\ s.terms = <<[w \in Wires |-> Times(Sum(w, x["beta"], x["alpha"]),
                                                     Reciprocal(x[Class[w]]))]>>
                /\ s.h = Times(H, Reciprocal(x["delta"]))
        /\ \A j, k \in DOMAIN s.records :
              s.records[j].trapdoor \in Second /\ s.records[k].trapdoor \in First
                => k < j

-----------------------------------------------------------------------------
\* A state in the file verifies, after any contributions, a seal and a write cut
\* short anywhere: what is left of one is refused by read, or verifies.
ReadableStatesVerify == StateReadable(file) => Verifies(StateIn(file))

\* "Whether this state is `init`'s ... under trapdoors that are the product of
\* the contributions on record" (phase2.rs:340), whoever hands it over.
VerifiedStatesAreOfTheContributions ==
    StateReadable(file) =>
        LET own == StateIn(file)
        IN  \A s \in Stranger(own) \cup {own} : Verifies(s) => IsOfTheContributions(s)

\* "a key ProvingKey::read reads is a completed, verified ceremony's"
\* (phase2.rs:471), whatever finish was cut short in: its trapdoors are the
\* products of the contributions, of which each has one, and its elements are the
\* circuit's under them.
KeysAreOfTheCircuit ==
    KeyReadable(key) =>
        \E s \in finished :
            LET k == KeyIn(key)
                x == k.trapdoors
            IN  /\ \A t \in Trapdoors : /\ x[t] = Product(s, t)
                                       /\ \E j \in DOMAIN s.records : s.records[j].trapdoor = t
                /\ \A w \in Wires : Times(k.l[w], x[Class[w]]) = Sum(w, x["beta"], x["alpha"])
                /\ \A w \in Public : k.ic[w] = k.l[w]
                /\ Times(k.h, x["delta"]) = H
=============================================================================
