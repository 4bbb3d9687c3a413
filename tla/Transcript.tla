---------------------------- MODULE Transcript -----------------------------
(***************************************************************************)
(* The duplex sponge, and the typed messages over it                       *)
(* (crates/transcript/src/lib.rs), with its twin over cells                *)
(* (CellTranscript, crates/verifier-core/src/tape.rs).                     *)
(*                                                                         *)
(* The permutation is injective and one-way, so a state is the log of what *)
(* its duplex steps absorbed, and a lane squeezed from it is that log and  *)
(* the lane's number.                                                      *)
(***************************************************************************)
EXTENDS Integers, Sequences, SequencesExt

Rate == 2

\* The zero state; a transcript resumed from a state and a pending input.
NewTranscript == [state |-> <<>>, input |-> <<>>, output |-> <<>>]
Resume(state, pending) == [state |-> state, input |-> pending, output |-> <<>>]

Lanes(state) == [lane \in 1..Rate |-> <<state, lane>>]

\* Absorb elements: a duplex step each time the rate is full, which refills the
\* output; an element left pending drops it.
Observe(t, xs) ==
    LET held == t.input \o xs
        steps == Len(held) \div Rate
        state == t.state \o [i \in 1..steps |-> SubSeq(held, Rate * (i - 1) + 1, Rate * i)]
        left == SubSeq(held, Rate * steps + 1, Len(held))
    IN  [state |-> state, input |-> left,
         output |-> IF left = <<>> THEN Lanes(state) ELSE <<>>]

\* Squeeze one element, after a duplex step where something is pending or
\* nothing is left.
Sample(t) ==
    LET state == Append(t.state, t.input)
        ready == IF t.input # <<>> \/ t.output = <<>>
                 THEN [state |-> state, input |-> <<>>, output |-> Lanes(state)]
                 ELSE t
    IN  [value |-> Last(ready.output), rest |-> [ready EXCEPT !.output = Front(@)]]

\* Typed messages, <<tag, length, body>>: the tag, the length, the scalars.
TagScalar(tag) == <<tag, 0, "tag">>
Scalars(m) == <<TagScalar(m[1]), <<"length", m[2]>>>> \o [i \in 1..m[2] |-> <<m[1], i, m[3]>>]
AppendMessages(t, ms) ==
    IF ms = <<>> THEN t ELSE Observe(t, FlattenSeq([i \in 1..Len(ms) |-> Scalars(ms[i])]))

\* A challenge: its tag absorbed, one element squeezed.
Challenge(t, tag) == Sample(Observe(t, <<TagScalar(tag)>>))

\* The first n challenges under `tags`, in order.
Challenges(t, tags) ==
    FoldLeft(LAMBDA acc, tag :
                 LET c == Challenge(acc.rest, tag)
                 IN  [values |-> Append(acc.values, c.value), rest |-> c.rest],
             [values |-> <<>>, rest |-> t], tags)

\* Where a transcript is between two messages, for Resume.
Checkpoint(t) == [state |-> t.state, pending |-> t.input]
=============================================================================
