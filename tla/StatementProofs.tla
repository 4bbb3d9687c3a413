-------------------------- MODULE StatementProofs --------------------------
(***************************************************************************)
(* Theorems about Chain and StreamedProver, for every list of families and *)
(* every shape: what both rest on is a statement's shards and messages in  *)
(* statement order, of which the first half of this module is lemmas.      *)
(*                                                                         *)
(* Of the chain: a position's messages are the groups that start there and *)
(* its shard's list, and those of every position and of the suffix, end to *)
(* end, are the groups with their shards, each once (SegmentsAreTheGroups).*)
(* A sponge that absorbs one sequence and then another is in the state of  *)
(* one that absorbed the two, and holds an input over when their length is *)
(* odd.  So a chain cut anywhere has absorbed what the uncut one has.      *)
(*                                                                         *)
(* Of the streaming prover: the inductive invariant says of a pass which   *)
(* chunks have been found to fail, and of a result, that no chunk before   *)
(* the one it names fails.  At the end of a pass, the chunks and the       *)
(* shards no chunk carried are the shards of the statement, each once.     *)
(***************************************************************************)
EXTENDS StreamedProver, Chain, FiniteSetTheorems, SequenceTheorems, WellFoundedInduction, TLAPS

-----------------------------------------------------------------------------
(* Numbers and sequences *)

\* A set of naturals that is not empty has a least element.
LEMMA LeastOf ==
    ASSUME NEW S \in SUBSET Nat, S # {}
    PROVE  \E m \in S : \A x \in S : m <= x
<1> DEFINE R == {ss \in Nat \X Nat : ss[1] < ss[2]}
<1>1. IsWellFoundedOn(R, Nat)
    BY NatLessThanWellFounded DEF OpToRel
<1>2. \A x, y \in Nat : x < y => <<x, y>> \in R
    OBVIOUS
<1> HIDE DEF R
<1>3. PICK m \in S : \A x \in S : ~(<<x, m>> \in R)
    BY <1>1, WFMin
<1>4. \A x \in S : ~(x < m)
    BY <1>2, <1>3
<1> QED
    BY <1>4

\* Two functions that begin alike and go on alike are one.
LEMMA SameSteps ==
    ASSUME NEW n \in Nat, NEW bad, bad \in SUBSET (0..n), 0 \notin bad,
           \A i \in 1..n : i - 1 \notin bad => i \notin bad
    PROVE  bad = {}
<1> SUFFICES ASSUME bad # {} PROVE FALSE
    OBVIOUS
<1>1. bad \in SUBSET Nat
    OBVIOUS
<1>2. PICK m \in bad : \A x \in bad : m <= x
    BY <1>1, LeastOf
<1>3. m \in 1..n /\ m - 1 \notin bad
    BY <1>1, <1>2
<1> QED
    BY <1>2, <1>3

LEMMA ConcatIsAssociative ==
    \A T : \A x, y, z \in Seq(T) : x \o (y \o z) = (x \o y) \o z
BY ConcatAssociative

\* Concatenation, as what is known of it and no more.
Cat(x, y) == x \o y

LEMMA CatMeans ==
    \A S :
          /\ \A x, y \in Seq(S) : Cat(x, y) \in Seq(S)
          /\ \A x, y, z \in Seq(S) : Cat(x, Cat(y, z)) = Cat(Cat(x, y), z)
          /\ \A x \in Seq(S) : Cat(x, <<>>) = x /\ Cat(<<>>, x) = x
<1> TAKE S
<1>1. \A x, y \in Seq(S) : Cat(x, y) \in Seq(S)
    BY ConcatProperties DEF Cat
<1>2. \A x, y, z \in Seq(S) : Cat(x, Cat(y, z)) = Cat(Cat(x, y), z)
    BY ConcatIsAssociative DEF Cat
<1>3. \A x \in Seq(S) : Cat(x, <<>>) = x /\ Cat(<<>>, x) = x
    BY ConcatEmptySeq DEF Cat
<1> QED
    BY <1>1, <1>2, <1>3

\* What putting the first n of ss end to end goes through.
Grows(g, ss, n) == g[0] = <<>> /\ \A i \in 1..n : g[i] = g[i - 1] \o ss[i]

\* Sequences put end to end are what grows by one of them at a time.
LEMMA FlattenIs ==
    ASSUME NEW S, NEW n \in Nat, NEW ss \in [1..n -> Seq(S)], NEW g, Grows(g, ss, n)
    PROVE  FlattenSeq(ss) = g[n]
<1> USE DEF Grows
<1>1. Len(ss) = n /\ (n = 0 => ss = <<>>)
    OBVIOUS
<1>2. CASE n = 0
    BY <1>1, <1>2 DEF FlattenSeq
<1>3. CASE n > 0
    <2> DEFINE F(f) == [i \in 1..n |-> IF i = 1 THEN ss[i] ELSE f[i - 1] \o ss[i]]
               h == [i \in 1..n |-> g[i]]
               flat == CHOOSE f : f = F(f)
    <2>1. h = F(h)
        <3>1. g[1] = ss[1]
            <4>1. 1 \in 1..n /\ ss[1] \in Seq(S)
                BY <1>3
            <4>2. g[1] = g[1 - 1] \o ss[1]
                BY <4>1
            <4>3. 1 - 1 = 0
                OBVIOUS
            <4>4. g[1] = <<>> \o ss[1]
                BY <4>2, <4>3
            <4> QED
                BY <4>1, <4>4, ConcatEmptySeq
        <3>2. ASSUME NEW i \in 1..n, i # 1
              PROVE  g[i] = h[i - 1] \o ss[i]
            <4>1. i - 1 \in 1..n
                BY <3>2
            <4> QED
                BY <4>1
        <3> QED
            BY <3>1, <3>2
    <2> HIDE DEF h
    <2>2. flat = F(flat)
        BY <2>1
    <2>3. FlattenSeq(ss) = flat[n]
        BY <1>1, <1>3 DEF FlattenSeq
    <2> HIDE DEF flat
    <2> DEFINE bad == {i \in 1..n : flat[i] # h[i]}
    <2>4. \A i \in 1..n : i - 1 \notin bad => i \notin bad
        <3> SUFFICES ASSUME NEW i \in 1..n, i - 1 \notin bad
                     PROVE  flat[i] = h[i]
            OBVIOUS
        <3>1. flat[i] = IF i = 1 THEN ss[i] ELSE flat[i - 1] \o ss[i]
            BY <2>2
        <3>2. h[i] = IF i = 1 THEN ss[i] ELSE h[i - 1] \o ss[i]
            BY <2>1
        <3>3. i # 1 => i - 1 \in 1..n
            OBVIOUS
        <3> QED
            BY <3>1, <3>2, <3>3
    <2>5. bad \in SUBSET (0..n) /\ 0 \notin bad
        OBVIOUS
    <2> HIDE DEF bad
    <2>6. bad = {}
        BY <2>4, <2>5, SameSteps
    <2>7. flat[n] = h[n]
        <3>1. n \in 1..n /\ n \notin bad
            BY <2>6, <1>3
        <3> QED
            BY <3>1 DEF bad
    <2> QED
        BY <2>3, <2>7, <1>3 DEF h
<1> QED
    BY <1>2, <1>3

LEMMA FlattenGrows ==
    ASSUME NEW S, NEW n \in Nat, NEW ss \in [1..n -> Seq(S)]
    PROVE  \E g \in [0..n -> Seq(S)] : Grows(g, ss, n) /\ FlattenSeq(ss) = g[n]
<1> DEFINE bad == {m \in 0..n : ~\E g \in [0..m -> Seq(S)] : Grows(g, ss, m)}
<1>1. 0 \notin bad
    <2> DEFINE g == [i \in 0..0 |-> <<>>]
    <2>1. g \in [0..0 -> Seq(S)] /\ g[0] = <<>>
        OBVIOUS
    <2>2. Grows(g, ss, 0)
        BY <2>1 DEF Grows
    <2> QED
        BY <2>1, <2>2
<1>2. \A i \in 1..n : i - 1 \notin bad => i \notin bad
    <2> SUFFICES ASSUME NEW i \in 1..n, i - 1 \notin bad
                 PROVE  \E h \in [0..i -> Seq(S)] : Grows(h, ss, i)
        OBVIOUS
    <2>1. PICK g \in [0..i - 1 -> Seq(S)] : Grows(g, ss, i - 1)
        OBVIOUS
    <2> DEFINE h == [j \in 0..i |-> IF j = i THEN g[i - 1] \o ss[i] ELSE g[j]]
    <2>2. g[i - 1] \o ss[i] \in Seq(S)
        BY ConcatProperties
    <2>3. h \in [0..i -> Seq(S)]
        BY <2>2
    <2>4. h[0] = <<>>
        BY <2>1 DEF Grows
    <2>5. ASSUME NEW j \in 1..i
          PROVE  h[j] = h[j - 1] \o ss[j]
        <3>1. j \in 0..i /\ j - 1 \in 0..i /\ j - 1 # i
            OBVIOUS
        <3>2. h[j - 1] = g[j - 1]
            BY <3>1
        <3>3. CASE j = i
            BY <3>1, <3>2, <3>3
        <3>4. CASE j # i
            <4>1. j \in 1..i - 1
                BY <3>4
            <4>2. h[j] = g[j]
                BY <3>1, <3>4
            <4> HIDE DEF h
            <4> QED
                BY <2>1, <3>2, <4>1, <4>2 DEF Grows
        <3> QED
            BY <3>3, <3>4
    <2> HIDE DEF h
    <2>7. Grows(h, ss, i)
        BY <2>4, <2>5 DEF Grows
    <2> QED
        BY <2>3, <2>7
<1>3. bad \in SUBSET (0..n)
    OBVIOUS
<1> HIDE DEF bad
<1>4. n \notin bad
    BY <1>1, <1>2, <1>3, SameSteps
<1>5. PICK g \in [0..n -> Seq(S)] : Grows(g, ss, n)
    BY <1>4 DEF bad
<1>7. FlattenSeq(ss) = g[n]
    BY <1>5, FlattenIs
<1> QED
    BY <1>5, <1>7

LEMMA FlattenTyped ==
    ASSUME NEW S, NEW n \in Nat, NEW ss \in [1..n -> Seq(S)]
    PROVE  FlattenSeq(ss) \in Seq(S) /\ (n = 0 => FlattenSeq(ss) = <<>>)
<1>1. PICK g \in [0..n -> Seq(S)] : Grows(g, ss, n) /\ FlattenSeq(ss) = g[n]
    BY FlattenGrows
<1>2. g[0] = <<>> /\ g[n] \in Seq(S)
    BY <1>1 DEF Grows
<1> QED
    BY <1>1, <1>2

\* One sequence more, and several more.
LEMMA FlattenOneMore ==
    ASSUME NEW S, NEW n \in Nat \ {0}, NEW ss \in [1..n -> Seq(S)],
           NEW rr, rr = [i \in 1..n - 1 |-> ss[i]]
    PROVE  FlattenSeq(ss) = FlattenSeq(rr) \o ss[n]
<1>1. PICK g \in [0..n -> Seq(S)] : Grows(g, ss, n) /\ FlattenSeq(ss) = g[n]
    BY FlattenGrows
<1>2. rr \in [1..n - 1 -> Seq(S)] /\ n - 1 \in Nat
    OBVIOUS
<1>3. g[0] = <<>>
    BY <1>1 DEF Grows
<1>31. ASSUME NEW i \in 1..n - 1
       PROVE  g[i] = g[i - 1] \o rr[i]
    <2>1. i \in 1..n /\ i \in 0..n /\ rr[i] = ss[i]
        OBVIOUS
    <2> QED
        BY <1>1, <2>1 DEF Grows
<1>4. FlattenSeq(rr) = g[n - 1]
    <2>1. Grows(g, rr, n - 1)
        BY <1>3, <1>31 DEF Grows
    <2> QED
        BY <1>2, <2>1, FlattenIs
<1>5. n \in 1..n
    OBVIOUS
<1> QED
    BY <1>1, <1>4, <1>5 DEF Grows

Parts(a, n, S) == a \in [1..n -> Seq(S)]
Followed(a, n, b, m) == [i \in 1..n + m |-> IF i <= n THEN a[i] ELSE b[i - n]]

LEMMA FlattenConcat ==
    ASSUME NEW S, NEW n \in Nat, NEW m \in Nat,
           NEW a, Parts(a, n, S), NEW b, Parts(b, m, S)
    PROVE  FlattenSeq(Followed(a, n, b, m)) = Cat(FlattenSeq(a), FlattenSeq(b))
<1> DEFINE c == Followed(a, n, b, m)
<1>p. a \in [1..n -> Seq(S)] /\ b \in [1..m -> Seq(S)]
    BY DEF Parts
<1>c. c = [i \in 1..n + m |-> IF i <= n THEN a[i] ELSE b[i - n]]
    BY DEF Followed
<1> HIDE DEF c
<1>0. \A x, y, z \in Seq(S) : x \o (y \o z) = (x \o y) \o z
    BY ConcatIsAssociative
<1>1. PICK g \in [0..n -> Seq(S)] : Grows(g, a, n) /\ FlattenSeq(a) = g[n]
    BY <1>p, FlattenGrows
<1>2. PICK h \in [0..m -> Seq(S)] : Grows(h, b, m) /\ FlattenSeq(b) = h[m]
    BY <1>p, FlattenGrows
<1> DEFINE k == [i \in 0..n + m |-> IF i <= n THEN g[i] ELSE g[n] \o h[i - n]]
<1>3. c \in [1..n + m -> Seq(S)]
    BY <1>c, <1>p
<1>4. k[0] = <<>>
    BY <1>1 DEF Grows
<1>5. ASSUME NEW i \in 1..n + m
      PROVE  k[i] = k[i - 1] \o c[i]
    <2>1. CASE i <= n
        <3>1. i \in 1..n /\ i \in 0..n /\ i - 1 \in 0..n + m /\ i \in 0..n + m /\ i - 1 <= n
            BY <2>1
        <3>2. k[i] = g[i] /\ k[i - 1] = g[i - 1] /\ c[i] = a[i]
            BY <3>1, <2>1, <1>c
        <3>3. g[i] = g[i - 1] \o a[i]
            BY <3>1, <1>1 DEF Grows
        <3> HIDE DEF k
        <3> QED
            BY <3>2, <3>3
    <2>2. CASE i > n
        <3>1. /\ i - n \in 1..m /\ i - n \in 0..m /\ i - n - 1 \in 0..m
              /\ c[i] = b[i - n] /\ k[i] = g[n] \o h[i - n]
            <4>1. i - n \in 1..m /\ i - n \in 0..m /\ i - n - 1 \in 0..m
                BY <2>2
            <4>2. c[i] = b[i - n]
                BY <2>2, <1>c
            <4>3. k[i] = g[n] \o h[i - n]
                BY <2>2
            <4> HIDE DEF k
            <4> QED
                BY <4>1, <4>2, <4>3
        <3>2. h[i - n] = h[i - n - 1] \o b[i - n]
            BY <3>1, <1>2 DEF Grows
        <3>3. g[n] \in Seq(S) /\ h[i - n] \in Seq(S) /\ h[i - n - 1] \in Seq(S) /\ b[i - n] \in Seq(S)
            BY <3>1, <1>p
        <3>4. k[i - 1] = g[n] \o h[i - n - 1]
            <4>1. CASE i - 1 = n
                <5>1. h[i - n - 1] = <<>>
                    BY <4>1, <1>2 DEF Grows
                <5>2. k[i - 1] = g[n]
                    BY <4>1
                <5> QED
                    BY <5>1, <5>2, <3>3, ConcatEmptySeq
            <4>2. CASE i - 1 > n
                <5>1. i - 1 \in 0..n + m /\ i - 1 - n = i - n - 1 /\ ~(i - 1 <= n)
                    BY <4>2
                <5> QED
                    BY <5>1
            <4>3. i - 1 = n \/ i - 1 > n
                BY <2>2
            <4> HIDE DEF k
            <4> QED
                BY <4>1, <4>2, <4>3
        <3>5. g[n] \o (h[i - n - 1] \o b[i - n]) = (g[n] \o h[i - n - 1]) \o b[i - n]
            <4> HIDE DEF k
            <4>2. \A z \in Seq(S) : g[n] \o (h[i - n - 1] \o z) = (g[n] \o h[i - n - 1]) \o z
                BY <1>0, <3>3
            <4> QED
                BY <3>3, <4>2
        <3> HIDE DEF k
        <3> QED
            BY <3>1, <3>2, <3>4, <3>5
    <2>3. i <= n \/ i > n
        OBVIOUS
    <2> HIDE DEF k
    <2> QED
        BY <2>1, <2>2, <2>3
<1> HIDE DEF k
<1>51. n + m \in Nat
    OBVIOUS
<1>6. FlattenSeq(c) = k[n + m]
    <2>1. Grows(k, c, n + m)
        BY <1>4, <1>5 DEF Grows
    <2> QED
        BY <1>3, <1>51, <2>1, FlattenIs
<1>7. k[n + m] = g[n] \o h[m]
    <2>1. CASE m = 0
        <3>1. h[m] = <<>> /\ g[n] \in Seq(S)
            BY <2>1, <1>2 DEF Grows
        <3>2. k[n + m] = g[n]
            BY <2>1 DEF k
        <3> QED
            BY <3>1, <3>2, ConcatEmptySeq
    <2>2. CASE m > 0
        <3>1. n + m - n = m /\ ~(n + m <= n) /\ n + m \in 0..n + m
            BY <2>2
        <3> QED
            BY <3>1 DEF k
    <2>3. m = 0 \/ m > 0
        OBVIOUS
    <2> QED
        BY <2>1, <2>2, <2>3
<1> QED
    BY <1>1, <1>2, <1>6, <1>7 DEF c, Cat

-----------------------------------------------------------------------------
(* The groups *)

Distinct(s) == \A i, j \in 1..Len(s) : s[i] = s[j] => i = j

\* Two sequences end to end, position by position.
Joins(r, a, b) ==
    /\ Len(r) = Len(a) + Len(b)
    /\ \A i \in 1..Len(a) : i \in 1..Len(r) /\ r[i] = a[i]
    /\ \A i \in 1..Len(b) : Len(a) + i \in 1..Len(r) /\ r[Len(a) + i] = b[i]

LEMMA EndToEnd ==
    ASSUME NEW S, NEW a \in Seq(S), NEW b \in Seq(S)
    PROVE  a \o b \in Seq(S) /\ Joins(a \o b, a, b)
<1> DEFINE r == a \o b
<1>1. /\ a \o b \in Seq(S) /\ Len(a \o b) = Len(a) + Len(b)
      /\ \A i \in 1..Len(a) + Len(b) :
            (a \o b)[i] = IF i <= Len(a) THEN a[i] ELSE b[i - Len(a)]
    BY ConcatProperties
<1>2. /\ r \in Seq(S) /\ Len(r) = Len(a) + Len(b)
      /\ \A i \in 1..Len(a) + Len(b) : r[i] = IF i <= Len(a) THEN a[i] ELSE b[i - Len(a)]
    BY <1>1
<1> HIDE DEF r
<1>3. Len(a) \in Nat /\ Len(b) \in Nat
    OBVIOUS
<1>4. ASSUME NEW i \in 1..Len(a)
      PROVE  i \in 1..Len(r) /\ r[i] = a[i]
    BY <1>2, <1>3
<1>5. ASSUME NEW i \in 1..Len(b)
      PROVE  Len(a) + i \in 1..Len(r) /\ r[Len(a) + i] = b[i]
    <2>1. /\ Len(a) + i \in 1..Len(a) + Len(b) /\ ~(Len(a) + i <= Len(a))
          /\ Len(a) + i - Len(a) = i
        BY <1>3
    <2> QED
        BY <1>2, <2>1
<1>6. r \in Seq(S) /\ Joins(r, a, b)
    BY <1>2, <1>4, <1>5 DEF Joins
<1> QED
    BY <1>6 DEF r

\* What a part of a sequence holds.
LEMMA PartOf ==
    ASSUME NEW S, NEW s \in Seq(S), NEW m \in Nat, NEW n \in Nat, m <= n, n <= Len(s),
           NEW r, r = SubSeq(s, m + 1, n)
    PROVE  /\ r \in Seq(S) /\ Len(r) = n - m
           /\ \A i \in 1..n - m : r[i] = s[m + i]
<1>1. Len(s) \in Nat /\ \A i \in 1..Len(s) : s[i] \in S
    OBVIOUS
<1>2. SubSeq(s, m + 1, n) = [i \in 1..(1 + n - (m + 1)) |-> s[i + (m + 1) - 1]]
    OBVIOUS
<1>3. 1 + n - (m + 1) = n - m /\ n - m \in Nat
    OBVIOUS
<1>4. r = [i \in 1..n - m |-> s[i + (m + 1) - 1]]
    BY <1>2, <1>3
<1>5. ASSUME NEW i \in 1..n - m
      PROVE  r[i] = s[m + i] /\ s[m + i] \in S
    <2>1. i + (m + 1) - 1 = m + i /\ m + i \in 1..Len(s)
        BY <1>1
    <2> QED
        BY <1>1, <1>4, <2>1
<1>6. r \in [1..n - m -> S]
    BY <1>4, <1>5
<1> QED
    BY <1>3, <1>5, <1>6

Drops(r, s, k) ==
    /\ Len(r) = Len(s) - 1 /\ Distinct(r)
    /\ \A i \in 1..Len(s) : i # k => \E j \in 1..Len(r) : r[j] = s[i]
    /\ \A j \in 1..Len(r) : r[j] # s[k] /\ \E i \in 1..Len(s) : r[j] = s[i]

LEMMA WithoutMeans ==
    ASSUME NEW S, NEW s \in Seq(S), Distinct(s), NEW k \in 1..Len(s)
    PROVE  Without(s, s[k]) \in Seq(S) /\ Drops(Without(s, s[k]), s, k)
<1> DEFINE r == Without(s, s[k])
<1>1. (CHOOSE i \in 1..Len(s) : s[i] = s[k]) = k
    BY DEF Distinct
<1>2. r = SubSeq(s, 1, k - 1) \o SubSeq(s, k + 1, Len(s))
    BY <1>1 DEF Without, RemoveAt
<1> HIDE DEF r
<1>0. Len(s) \in Nat /\ k - 1 \in Nat /\ k \in Nat /\ k <= Len(s)
    OBVIOUS
<1> DEFINE a == SubSeq(s, 0 + 1, k - 1)
           b == SubSeq(s, k + 1, Len(s))
<1>3. a \in Seq(S) /\ Len(a) = k - 1 /\ \A i \in 1..k - 1 : a[i] = s[i]
    <2>1. /\ a \in Seq(S) /\ Len(a) = k - 1 - 0 /\ \A i \in 1..k - 1 - 0 : a[i] = s[0 + i]
        BY <1>0, PartOf
    <2> HIDE DEF a
    <2> QED
        BY <1>0, <2>1
<1>31. b \in Seq(S) /\ Len(b) = Len(s) - k /\ \A i \in 1..Len(s) - k : b[i] = s[k + i]
    BY <1>0, PartOf
<1>4. r = a \o b
    BY <1>2
<1> HIDE DEF a, b
<1>5. /\ r \in Seq(S) /\ Len(r) = Len(a) + Len(b)
      /\ \A i \in 1..Len(a) : i \in 1..Len(r) /\ r[i] = a[i]
      /\ \A i \in 1..Len(b) : Len(a) + i \in 1..Len(r) /\ r[Len(a) + i] = b[i]
    <2>1. r \in Seq(S) /\ Joins(r, a, b)
        BY <1>3, <1>31, <1>4, EndToEnd
    <2> QED
        BY <2>1 DEF Joins
<1>6. /\ Len(r) = Len(s) - 1
      /\ \A i \in 1..Len(s) - 1 : r[i] = IF i < k THEN s[i] ELSE s[i + 1]
    <2>2. ASSUME NEW i \in 1..Len(s) - 1
          PROVE  r[i] = IF i < k THEN s[i] ELSE s[i + 1]
        <3>2. CASE i < k
            BY <1>0, <3>2, <1>3, <1>5
        <3>3. CASE ~(i < k)
            <4>1. PICK j \in 1..Len(s) - k : i = k - 1 + j
                <5>1. i - k + 1 \in 1..Len(s) - k /\ i = k - 1 + (i - k + 1)
                    BY <1>0, <3>3
                <5> QED
                    BY <5>1
            <4>2. r[i] = s[k + j] /\ k + j = i + 1
                BY <1>0, <4>1, <1>3, <1>31, <1>5
            <4> QED
                BY <3>3, <4>2
        <3> QED
            BY <3>2, <3>3
    <2> QED
        BY <1>0, <1>3, <1>31, <1>5, <2>2
<1>7. Distinct(r)
    BY <1>6 DEF Distinct
<1>8. ASSUME NEW i \in 1..Len(s), i # k
      PROVE  \E j \in 1..Len(r) : r[j] = s[i]
    <2>1. CASE i < k
        BY <2>1, <1>6, i \in 1..Len(s) - 1
    <2>2. CASE i > k
        <3>1. i - 1 \in 1..Len(s) - 1 /\ ~(i - 1 < k) /\ i - 1 + 1 = i
            BY <2>2
        <3> QED
            BY <3>1, <1>6
    <2> QED
        BY <2>1, <2>2, <1>8
<1>9. ASSUME NEW j \in 1..Len(r)
      PROVE  r[j] # s[k] /\ \E i \in 1..Len(s) : r[j] = s[i]
    <2>1. j \in 1..Len(s) /\ j + 1 \in 1..Len(s)
        BY <1>6
    <2> QED
        BY <2>1, <1>6 DEF Distinct
<1>10. r \in Seq(S) /\ Drops(r, s, k)
    BY <1>5, <1>6, <1>7, <1>8, <1>9 DEF Drops
<1> QED
    BY <1>10 DEF r

\* The groups are the config's families, each once, INIT_TEARDOWN first.
LEMMA GroupsAreTheFamilies ==
    /\ K \in Nat
    /\ GroupOrder \in Seq(ToSet(Families)) /\ Len(GroupOrder) = K /\ Distinct(GroupOrder)
    /\ ToSet(Families) = {GroupOrder[g] : g \in 1..K}
<1> DEFINE F == ToSet(Families)
<1>1. Families \in Seq(F) /\ DOMAIN Families = 1..Len(Families) /\ F = {Families[i] : i \in 1..Len(Families)}
    BY StatementAssumption DEF ToSet
<1>2. Distinct(Families)
    BY <1>1, StatementAssumption DEF Distinct, IsInjective
<1>3. "INIT_TEARDOWN" \in F /\ "ZERO_WINDOWS" \in F
    BY StatementAssumption DEF WindowFamilies
<1> HIDE DEF F
<1>4. PICK i \in 1..Len(Families) : Families[i] = "INIT_TEARDOWN"
    BY <1>1, <1>3
<1>5. PICK z \in 1..Len(Families) : Families[z] = "ZERO_WINDOWS"
    BY <1>1, <1>3
<1> DEFINE a == Without(Families, "INIT_TEARDOWN")
           b == Without(a, "ZERO_WINDOWS")
           lead == <<"INIT_TEARDOWN", "ZERO_WINDOWS">>
<1>51. a = Without(Families, Families[i])
    BY <1>4
<1>52. K = Len(Families) /\ K \in Nat
    BY <1>1 DEF K
<1> HIDE DEF a
<1>53. /\ a \in Seq(F) /\ Len(a) = Len(Families) - 1 /\ Distinct(a)
       /\ \A x \in 1..Len(Families) : x # i => \E j \in 1..Len(a) : a[j] = Families[x]
       /\ \A j \in 1..Len(a) : a[j] # Families[i]
    <2>1. a \in Seq(F) /\ Drops(a, Families, i)
        BY <1>1, <1>2, <1>51, WithoutMeans
    <2> QED
        BY <2>1 DEF Drops
<1>6. /\ a \in Seq(F) /\ Len(a) = K - 1 /\ Distinct(a)
      /\ \A x \in 1..K : x # i => \E j \in 1..Len(a) : a[j] = Families[x]
      /\ \A j \in 1..Len(a) : a[j] # "INIT_TEARDOWN"
    BY <1>52, <1>53, <1>4
<1>7. PICK y \in 1..Len(a) : a[y] = "ZERO_WINDOWS"
    BY <1>4, <1>5, <1>6, <1>52
<1>71. b = Without(a, a[y])
    BY <1>7
<1> HIDE DEF b
<1>72. /\ b \in Seq(F) /\ Len(b) = Len(a) - 1 /\ Distinct(b)
       /\ \A x \in 1..Len(a) : x # y => \E j \in 1..Len(b) : b[j] = a[x]
       /\ \A j \in 1..Len(b) : b[j] # a[y] /\ \E x \in 1..Len(a) : b[j] = a[x]
    <2>1. b \in Seq(F) /\ Drops(b, a, y)
        BY <1>6, <1>71, WithoutMeans
    <2> QED
        BY <2>1 DEF Drops
<1>8. /\ b \in Seq(F) /\ Len(b) = Len(a) - 1 /\ Distinct(b)
      /\ \A x \in 1..Len(a) : x # y => \E j \in 1..Len(b) : b[j] = a[x]
      /\ \A j \in 1..Len(b) : b[j] # "ZERO_WINDOWS" /\ \E x \in 1..Len(a) : b[j] = a[x]
    BY <1>7, <1>72
<1>9. K \in Nat
    BY <1>52
<1>10. lead \in Seq(F) /\ Len(lead) = 2 /\ lead[1] = "INIT_TEARDOWN" /\ lead[2] = "ZERO_WINDOWS"
    BY <1>3
<1>11. GroupOrder = lead \o b
    BY DEF GroupOrder, a, b
<1> HIDE DEF lead
<1>12. /\ GroupOrder \in Seq(F) /\ Len(GroupOrder) = Len(lead) + Len(b)
       /\ \A j \in 1..Len(lead) : GroupOrder[j] = lead[j]
       /\ \A j \in 1..Len(b) : GroupOrder[Len(lead) + j] = b[j]
    <2>1. GroupOrder \in Seq(F) /\ Joins(GroupOrder, lead, b)
        BY <1>8, <1>10, <1>11, EndToEnd
    <2> QED
        BY <2>1 DEF Joins
<1>13. Len(GroupOrder) = K /\ Len(b) = K - 2 /\ Len(b) \in Nat
    BY <1>6, <1>8, <1>9, <1>10, <1>12
<1>14. /\ GroupOrder[1] = "INIT_TEARDOWN" /\ GroupOrder[2] = "ZERO_WINDOWS"
       /\ \A j \in 1..K - 2 : GroupOrder[j + 2] = b[j]
    BY <1>9, <1>10, <1>12, <1>13
<1>15. \A j \in 1..Len(b) : b[j] # "ZERO_WINDOWS" /\ b[j] # "INIT_TEARDOWN"
    BY <1>6, <1>8
<1>16. Distinct(GroupOrder)
    <2> SUFFICES ASSUME NEW p \in 1..K, NEW q \in 1..K, GroupOrder[p] = GroupOrder[q]
                 PROVE  p = q
        BY <1>13 DEF Distinct
    <2>1. \A x \in 1..K : x = 1 \/ x = 2 \/ \E j \in 1..K - 2 : x = j + 2
        <3> SUFFICES ASSUME NEW x \in 1..K, x # 1, x # 2
                     PROVE  x - 2 \in 1..K - 2 /\ x = x - 2 + 2
            OBVIOUS
        <3> QED
            BY <1>9
    <2>2. \A j \in 1..K - 2 : GroupOrder[j + 2] # GroupOrder[1] /\ GroupOrder[j + 2] # GroupOrder[2]
        BY <1>13, <1>14, <1>15
    <2>3. \A j, k \in 1..K - 2 : GroupOrder[j + 2] = GroupOrder[k + 2] => j = k
        <3> SUFFICES ASSUME NEW j \in 1..K - 2, NEW k \in 1..K - 2,
                            GroupOrder[j + 2] = GroupOrder[k + 2]
                     PROVE  j = k
            OBVIOUS
        <3>1. b[j] = b[k]
            BY <1>14
        <3>2. j \in 1..Len(b) /\ k \in 1..Len(b)
            BY <1>13
        <3> QED
            BY <1>8, <3>1, <3>2 DEF Distinct
    <2>4. GroupOrder[1] # GroupOrder[2]
        BY <1>14
    <2> QED
        BY <2>1, <2>2, <2>3, <2>4
<1>17. F \subseteq {GroupOrder[g] : g \in 1..K}
    <2> SUFFICES ASSUME NEW x \in 1..K
                 PROVE  \E g \in 1..K : GroupOrder[g] = Families[x]
        <3>1. \A e \in F : \E z0 \in 1..K : e = Families[z0]
            BY <1>1, <1>52
        <3> QED
            BY <3>1
    <2>0. K >= 2
        BY <1>6, <1>7, <1>9
    <2>1. CASE Families[x] = "INIT_TEARDOWN"
        BY <2>0, <2>1, <1>9, <1>14
    <2>2. CASE Families[x] = "ZERO_WINDOWS"
        BY <2>0, <2>2, <1>9, <1>14
    <2>3. CASE Families[x] # "INIT_TEARDOWN" /\ Families[x] # "ZERO_WINDOWS"
        <3>1. PICK j \in 1..Len(a) : a[j] = Families[x]
            BY <2>3, <1>4, <1>52, <1>6
        <3>2. PICK k \in 1..Len(b) : b[k] = a[j]
            BY <2>3, <3>1, <1>7, <1>8
        <3>3. k \in 1..K - 2 /\ k + 2 \in 1..K
            BY <1>9, <1>13
        <3>4. GroupOrder[k + 2] = Families[x]
            BY <3>1, <3>2, <3>3, <1>14
        <3> QED
            BY <3>3, <3>4
    <2> QED
        BY <2>1, <2>2, <2>3
<1>18. \A g \in 1..K : GroupOrder[g] \in F
    <2> DEFINE go == GroupOrder
    <2>1. go \in Seq(F) /\ Len(go) = K
        BY <1>12, <1>13
    <2> HIDE DEF go
    <2>2. \A g \in 1..K : go[g] \in F
        BY <2>1
    <2> QED
        BY <2>2 DEF go
<1> QED
    BY <1>9, <1>12, <1>13, <1>16, <1>17, <1>18 DEF F

-----------------------------------------------------------------------------
(* The shards of the statement *)

\* A count for each family.
Counted(counts) == counts \in [ToSet(Families) -> Nat]
ShardsOfFamily(f, n) == {[family |-> f, index |-> i] : i \in 0..n - 1}

LEMMA OneFamily ==
    ASSUME NEW f, NEW n \in Nat
    PROVE  IsFiniteSet(ShardsOfFamily(f, n)) /\ Cardinality(ShardsOfFamily(f, n)) = n
<1> DEFINE S == ShardsOfFamily(f, n)
           h == [i \in 0..n - 1 |-> [family |-> f, index |-> i]]
<1>1. h \in Bijection(0..n - 1, S)
    <2>1. h \in [0..n - 1 -> S]
        BY DEF ShardsOfFamily
    <2>2. \A i, j \in 0..n - 1 : h[i] = h[j] => i = j
        BY DEF ShardsOfFamily
    <2>3. \A s \in S : \E i \in 0..n - 1 : h[i] = s
        BY DEF ShardsOfFamily
    <2> HIDE DEF h, S
    <2> QED
        BY <2>1, <2>2, <2>3 DEF Bijection, Injection, Surjection, IsInjective
<1>2. IsFiniteSet(0..n - 1) /\ Cardinality(0..n - 1) = n
    <2>1. 0 \in Int /\ n - 1 \in Int
        OBVIOUS
    <2>2. /\ IsFiniteSet(0..n - 1)
          /\ Cardinality(0..n - 1) = IF 0 > n - 1 THEN 0 ELSE n - 1 - 0 + 1
        BY <2>1, FS_Interval
    <2> QED
        BY <2>2
<1>3. ExistsBijection(0..n - 1, S)
    BY <1>1 DEF ExistsBijection
<1> QED
    BY <1>2, <1>3, FS_Bijection

LEMMA OneFamilyMore ==
    ASSUME NEW counts, NEW A, NEW f, f \notin A, counts[f] \in Nat, IsFiniteSet(ShardsOf(counts, A))
    PROVE  /\ IsFiniteSet(ShardsOf(counts, A \cup {f}))
           /\ Cardinality(ShardsOf(counts, A \cup {f})) = Cardinality(ShardsOf(counts, A)) + counts[f]
<1> DEFINE S == ShardsOf(counts, A)
           T == ShardsOfFamily(f, counts[f])
<1>1. ShardsOf(counts, A \cup {f}) = S \cup T
    BY DEF ShardsOf, ShardsOfFamily
<1>2. S \cap T = {}
    BY DEF ShardsOf, ShardsOfFamily
<1>3. IsFiniteSet(T) /\ Cardinality(T) = counts[f]
    BY OneFamily
<1> HIDE DEF S, T
<1>4. IsFiniteSet(S)
    BY DEF S
<1>5. Cardinality(S) \in Nat
    BY <1>4, FS_CardinalityType
<1>6. IsFiniteSet(S \cup T) /\ Cardinality(S \cup T) = Cardinality(S) + counts[f] - Cardinality({})
    BY <1>2, <1>3, <1>4, FS_Union
<1>7. Cardinality(S \cup T) = Cardinality(S) + counts[f]
    BY <1>5, <1>6, FS_EmptySet
<1> QED
    BY <1>1, <1>6, <1>7 DEF S

\* The groups before a group.
Before(g) == {GroupOrder[h] : h \in 1..g - 1}
Size(counts, g) == counts[GroupOrder[g]]

LEMMA SizesAreCounts ==
    ASSUME NEW counts, Counted(counts), NEW g \in 1..K
    PROVE  Size(counts, g) \in Nat /\ GroupOrder[g] \in ToSet(Families)
BY GroupsAreTheFamilies DEF Counted, Size

LEMMA NextGroupStarts ==
    ASSUME NEW counts, Counted(counts), NEW g \in 1..K, IsFiniteSet(ShardsOf(counts, Before(g)))
    PROVE  /\ IsFiniteSet(ShardsOf(counts, Before(g + 1)))
           /\ GroupStart(counts, g + 1) = GroupStart(counts, g) + Size(counts, g)
<1>1. g + 1 - 1 = g /\ 1..g = 1..g - 1 \cup {g} /\ K \in Nat
    BY GroupsAreTheFamilies
<1>2. Before(g + 1) = Before(g) \cup {GroupOrder[g]}
    BY <1>1 DEF Before
<1>3. GroupOrder[g] \notin Before(g)
    <2> SUFFICES ASSUME NEW h \in 1..g - 1, GroupOrder[h] = GroupOrder[g]
                 PROVE  FALSE
        BY DEF Before
    <2>1. h \in 1..K /\ h # g
        BY <1>1
    <2> QED
        BY <2>1, GroupsAreTheFamilies DEF Distinct
<1>4. counts[GroupOrder[g]] \in Nat
    BY SizesAreCounts DEF Size
<1>5. /\ IsFiniteSet(ShardsOf(counts, Before(g + 1)))
      /\ Cardinality(ShardsOf(counts, Before(g + 1)))
            = Cardinality(ShardsOf(counts, Before(g))) + counts[GroupOrder[g]]
    BY <1>2, <1>3, <1>4, OneFamilyMore
<1>6. \A h : GroupStart(counts, h) = Cardinality(ShardsOf(counts, Before(h)))
    BY DEF GroupStart, Before
<1> QED
    BY <1>5, <1>6 DEF Size

LEMMA GroupStartsAt ==
    ASSUME NEW counts, Counted(counts)
    PROVE  /\ GroupStart(counts, 1) = 0
           /\ \A g \in 1..K + 1 : GroupStart(counts, g) \in Nat
           /\ \A g \in 1..K : GroupStart(counts, g + 1) = GroupStart(counts, g) + Size(counts, g)
           /\ GroupStart(counts, K + 1) = Total(counts)
<1>1. Before(1) = {} /\ ShardsOf(counts, {}) = {}
    BY DEF Before, ShardsOf
<1>2. K \in Nat /\ Before(K + 1) = ToSet(Families)
    <2>1. K \in Nat /\ K + 1 - 1 = K
        BY GroupsAreTheFamilies
    <2> QED
        BY <2>1, GroupsAreTheFamilies DEF Before
<1> DEFINE bad == {i \in 0..K : ~IsFiniteSet(ShardsOf(counts, Before(i + 1)))}
<1>3. 0 \notin bad
    BY <1>1, FS_EmptySet
<1>4. \A i \in 1..K : i - 1 \notin bad => i \notin bad
    <2> SUFFICES ASSUME NEW i \in 1..K, i - 1 \notin bad
                 PROVE  IsFiniteSet(ShardsOf(counts, Before(i + 1)))
        OBVIOUS
    <2>1. i - 1 \in 0..K /\ i - 1 + 1 = i
        BY <1>2
    <2>2. IsFiniteSet(ShardsOf(counts, Before(i)))
        BY <2>1
    <2> QED
        BY <2>2, NextGroupStarts
<1>5. bad \in SUBSET (0..K)
    OBVIOUS
<1> HIDE DEF bad
<1>6. bad = {}
    BY <1>2, <1>3, <1>4, <1>5, SameSteps
<1>7. ASSUME NEW g \in 1..K + 1
      PROVE  IsFiniteSet(ShardsOf(counts, Before(g)))
    <2>1. g - 1 \in 0..K /\ g - 1 + 1 = g
        BY <1>2
    <2>2. g - 1 \notin bad
        BY <1>6
    <2> QED
        BY <2>1, <2>2 DEF bad
<1>8. ASSUME NEW g \in 1..K + 1
      PROVE  GroupStart(counts, g) \in Nat
    BY <1>7, FS_CardinalityType DEF GroupStart, Before
<1>9. ASSUME NEW g \in 1..K
      PROVE  GroupStart(counts, g + 1) = GroupStart(counts, g) + Size(counts, g)
    <2>1. g \in 1..K + 1
        BY <1>2
    <2> QED
        BY <2>1, <1>7, NextGroupStarts
<1>10. GroupStart(counts, 1) = 0
    BY <1>1, FS_EmptySet DEF GroupStart, Before
<1>11. GroupStart(counts, K + 1) = Total(counts)
    BY <1>2 DEF GroupStart, Before, Total
<1> QED
    BY <1>8, <1>9, <1>10, <1>11

\* Later groups start later, or where nothing is between.
LEMMA StartsAscend ==
    ASSUME NEW counts, Counted(counts), NEW g \in 1..K + 1, NEW h \in g..K + 1
    PROVE  GroupStart(counts, g) <= GroupStart(counts, h)
<1> DEFINE bad == {i \in 0..h - g : ~(GroupStart(counts, g) <= GroupStart(counts, g + i))}
<1>0. K \in Nat /\ h - g \in Nat
    BY GroupsAreTheFamilies
<1>1. 0 \notin bad
    BY <1>0, GroupStartsAt
<1>2. \A i \in 1..h - g : i - 1 \notin bad => i \notin bad
    <2> SUFFICES ASSUME NEW i \in 1..h - g, i - 1 \notin bad
                 PROVE  GroupStart(counts, g) <= GroupStart(counts, g + i)
        OBVIOUS
    <2>1. i - 1 \in 0..h - g /\ g + (i - 1) \in 1..K /\ g + (i - 1) + 1 = g + i
        BY <1>0
    <2>2. GroupStart(counts, g) <= GroupStart(counts, g + (i - 1))
        BY <2>1
    <2>3. Size(counts, g + (i - 1)) \in Nat
        BY <2>1, SizesAreCounts
    <2>4. GroupStart(counts, g + i) = GroupStart(counts, g + (i - 1)) + Size(counts, g + (i - 1))
        BY <2>1, GroupStartsAt
    <2>5. GroupStart(counts, g) \in Nat /\ GroupStart(counts, g + (i - 1)) \in Nat
        BY <1>0, <2>1, GroupStartsAt
    <2> QED
        BY <2>2, <2>3, <2>4, <2>5
<1>3. bad \in SUBSET (0..h - g)
    OBVIOUS
<1> HIDE DEF bad
<1>4. bad = {}
    BY <1>0, <1>1, <1>2, <1>3, SameSteps
<1>5. h - g \in 0..h - g /\ g + (h - g) = h
    BY <1>0
<1> QED
    BY <1>4, <1>5 DEF bad

-----------------------------------------------------------------------------
(* The messages of the groups, and where they fall *)

Messages(counts, lists) ==
    {GroupMessage(counts, g) : g \in 1..K} \cup {CommitmentMessage(lists[p]) : p \in 1..Total(counts)}

\* The groups' messages, the first k groups of those that start at p; the first
\* k groups with their lists; the segments of the first p shards.
Piece(counts, p, g) ==
    IF GroupStart(counts, g) = p THEN <<GroupMessage(counts, g)>> ELSE <<>>
StartsTo(counts, p, k) == FlattenSeq([g \in 1..k |-> Piece(counts, p, g)])
Group(counts, lists, g) ==
    <<GroupMessage(counts, g)>>
        \o [i \in 1..Size(counts, g) |-> CommitmentMessage(lists[GroupStart(counts, g) + i])]
GroupsTo(counts, lists, k) == FlattenSeq([g \in 1..k |-> Group(counts, lists, g)])
SegmentsTo(counts, lists, p) ==
    FlattenSeq([q \in 1..p |-> SegmentMessages(counts, q - 1, lists[q])])

LEMMA StartsStep ==
    ASSUME NEW counts, NEW lists, NEW p
    PROVE  /\ StartsTo(counts, p, 0) = <<>>
           /\ GroupMessages(counts, p) = StartsTo(counts, p, K)
           /\ \A k \in 0..K : StartsTo(counts, p, k) \in Seq(Messages(counts, lists))
           /\ \A k \in 1..K : StartsTo(counts, p, k) = StartsTo(counts, p, k - 1) \o Piece(counts, p, k)
<1> DEFINE M == Messages(counts, lists)
<1>0. K \in Nat /\ Len(GroupOrder) = K
    BY GroupsAreTheFamilies
<1>1. \A g \in 1..K : Piece(counts, p, g) \in Seq(M)
    <2> SUFFICES ASSUME NEW g \in 1..K
                 PROVE  Piece(counts, p, g) \in Seq(M)
        OBVIOUS
    <2>1. GroupMessage(counts, g) \in M
        BY DEF Messages
    <2> HIDE DEF M
    <2>2. <<GroupMessage(counts, g)>> \in Seq(M) /\ <<>> \in Seq(M)
        BY <2>1
    <2> QED
        BY <2>2 DEF Piece
<1> HIDE DEF M
<1>2. ASSUME NEW k \in 0..K
      PROVE  StartsTo(counts, p, k) \in Seq(M) /\ (k = 0 => StartsTo(counts, p, k) = <<>>)
    <2>1. [g \in 1..k |-> Piece(counts, p, g)] \in [1..k -> Seq(M)]
        BY <1>0, <1>1
    <2> QED
        BY <2>1, <1>0, FlattenTyped DEF StartsTo
<1>3. ASSUME NEW k \in 1..K
      PROVE  StartsTo(counts, p, k) = StartsTo(counts, p, k - 1) \o Piece(counts, p, k)
    <2> DEFINE ss == [g \in 1..k |-> Piece(counts, p, g)]
               rr == [g \in 1..k - 1 |-> Piece(counts, p, g)]
    <2>1. ss \in [1..k -> Seq(M)] /\ rr = [i \in 1..k - 1 |-> ss[i]] /\ k \in Nat \ {0}
        BY <1>0, <1>1
    <2>2. ss[k] = Piece(counts, p, k)
        OBVIOUS
    <2> HIDE DEF ss, rr
    <2>3. FlattenSeq(ss) = FlattenSeq(rr) \o ss[k]
        BY <2>1, FlattenOneMore
    <2> QED
        BY <2>2, <2>3 DEF ss, rr, StartsTo
<1>4. GroupMessages(counts, p) = StartsTo(counts, p, K)
    BY <1>0 DEF GroupMessages, StartsTo, Piece
<1>5. 0 \in 0..K
    BY <1>0
<1> QED
    BY <1>2, <1>3, <1>4, <1>5 DEF M

\* Groups that start elsewhere add nothing.
LEMMA StartsElsewhere ==
    ASSUME NEW counts, NEW lists, NEW p, NEW a \in 0..K, NEW b \in a..K,
           \A g \in a + 1..b : GroupStart(counts, g) # p
    PROVE  StartsTo(counts, p, b) = StartsTo(counts, p, a)
<1> DEFINE bad == {i \in 0..b - a : StartsTo(counts, p, a + i) # StartsTo(counts, p, a)}
<1>0. K \in Nat /\ b - a \in Nat
    BY GroupsAreTheFamilies
<1>1. 0 \notin bad
    BY <1>0
<1>2. \A i \in 1..b - a : i - 1 \notin bad => i \notin bad
    <2> SUFFICES ASSUME NEW i \in 1..b - a, i - 1 \notin bad
                 PROVE  StartsTo(counts, p, a + i) = StartsTo(counts, p, a)
        OBVIOUS
    <2>1. /\ i - 1 \in 0..b - a /\ a + i - 1 = a + (i - 1) /\ a + i \in 1..K /\ a + i \in a + 1..b
          /\ a + (i - 1) \in 0..K
        BY <1>0
    <2>2. StartsTo(counts, p, a + (i - 1)) = StartsTo(counts, p, a)
        BY <2>1
    <2>3. Piece(counts, p, a + i) = <<>>
        BY <2>1 DEF Piece
    <2>4. StartsTo(counts, p, a + (i - 1)) \in Seq(Messages(counts, lists))
        BY <2>1, StartsStep
    <2>50. StartsTo(counts, p, a + i) = StartsTo(counts, p, a + i - 1) \o Piece(counts, p, a + i)
        <3> DEFINE k == a + i
        <3>1. k \in 1..K
            BY <2>1
        <3> HIDE DEF k
        <3>2. StartsTo(counts, p, k) = StartsTo(counts, p, k - 1) \o Piece(counts, p, k)
            BY <3>1, StartsStep
        <3> QED
            BY <3>2 DEF k
    <2>5. StartsTo(counts, p, a + i) = StartsTo(counts, p, a + (i - 1)) \o <<>>
        BY <2>1, <2>3, <2>50
    <2> QED
        BY <2>2, <2>4, <2>5, ConcatEmptySeq
<1>3. bad \in SUBSET (0..b - a)
    OBVIOUS
<1> HIDE DEF bad
<1>4. bad = {}
    BY <1>0, <1>1, <1>2, <1>3, SameSteps
<1>5. b - a \in 0..b - a /\ a + (b - a) = b
    BY <1>0
<1> QED
    BY <1>4, <1>5 DEF bad

LEMMA GroupsStep ==
    ASSUME NEW counts, Counted(counts), NEW lists
    PROVE  /\ GroupsTo(counts, lists, 0) = <<>>
           /\ \A g \in 1..K : Group(counts, lists, g) \in Seq(Messages(counts, lists))
           /\ \A k \in 0..K : GroupsTo(counts, lists, k) \in Seq(Messages(counts, lists))
           /\ \A k \in 1..K :
                GroupsTo(counts, lists, k) = GroupsTo(counts, lists, k - 1) \o Group(counts, lists, k)
<1> DEFINE M == Messages(counts, lists)
<1>0. K \in Nat
    BY GroupsAreTheFamilies
<1>1. ASSUME NEW g \in 1..K
      PROVE  Group(counts, lists, g) \in Seq(M)
    <2> DEFINE n == Size(counts, g)
               Q == GroupStart(counts, g)
               own == [i \in 1..n |-> CommitmentMessage(lists[Q + i])]
    <2>1. GroupMessage(counts, g) \in M
        BY DEF Messages
    <2>2. n \in Nat /\ Q \in Nat /\ Q + n <= Total(counts) /\ Total(counts) \in Nat
        <3>1. /\ g \in 1..K + 1 /\ g + 1 \in 1..K + 1 /\ K + 1 \in 1..K + 1 /\ K + 1 \in g + 1..K + 1
            BY <1>0
        <3>2. GroupStart(counts, g + 1) <= GroupStart(counts, K + 1)
            BY <3>1, StartsAscend
        <3>3. n \in Nat
            BY SizesAreCounts
        <3>4. Q \in Nat /\ GroupStart(counts, g + 1) = Q + n /\ GroupStart(counts, K + 1) = Total(counts)
              /\ GroupStart(counts, K + 1) \in Nat
            BY <3>1, GroupStartsAt
        <3> QED
            BY <3>2, <3>3, <3>4
    <2>3. ASSUME NEW i \in 1..n
          PROVE  CommitmentMessage(lists[Q + i]) \in M
        <3>1. Q + i \in 1..Total(counts)
            BY <2>2
        <3> QED
            BY <3>1 DEF Messages
    <2> HIDE DEF M, n, Q
    <2>4. own \in Seq(M) /\ <<GroupMessage(counts, g)>> \in Seq(M)
        BY <2>1, <2>2, <2>3
    <2>5. Group(counts, lists, g) = <<GroupMessage(counts, g)>> \o own
        BY DEF Group, n, Q
    <2> HIDE DEF own
    <2> QED
        BY <2>4, <2>5, ConcatProperties
<1> HIDE DEF M
<1>2. ASSUME NEW k \in 0..K
      PROVE  GroupsTo(counts, lists, k) \in Seq(M) /\ (k = 0 => GroupsTo(counts, lists, k) = <<>>)
    <2>1. [g \in 1..k |-> Group(counts, lists, g)] \in [1..k -> Seq(M)]
        BY <1>0, <1>1
    <2> QED
        BY <2>1, <1>0, FlattenTyped DEF GroupsTo
<1>3. ASSUME NEW k \in 1..K
      PROVE  GroupsTo(counts, lists, k) = GroupsTo(counts, lists, k - 1) \o Group(counts, lists, k)
    <2> DEFINE ss == [g \in 1..k |-> Group(counts, lists, g)]
               rr == [g \in 1..k - 1 |-> Group(counts, lists, g)]
    <2>1. ss \in [1..k -> Seq(M)] /\ rr = [i \in 1..k - 1 |-> ss[i]] /\ k \in Nat \ {0}
        BY <1>0, <1>1
    <2>2. ss[k] = Group(counts, lists, k)
        OBVIOUS
    <2> HIDE DEF ss, rr
    <2>3. FlattenSeq(ss) = FlattenSeq(rr) \o ss[k]
        BY <2>1, FlattenOneMore
    <2> QED
        BY <2>2, <2>3 DEF ss, rr, GroupsTo
<1>5. 0 \in 0..K
    BY <1>0
<1> QED
    BY <1>1, <1>2, <1>3, <1>5 DEF M

LEMMA TotalIsNat ==
    ASSUME NEW counts, Counted(counts)
    PROVE  Total(counts) \in Nat
<1>1. K + 1 \in 1..K + 1
    BY GroupsAreTheFamilies
<1> QED
    BY <1>1, GroupStartsAt

\* A segment is the messages of the groups at its position, and its list.
LEMMA SegmentsStep ==
    ASSUME NEW counts, Counted(counts), NEW lists
    PROVE  /\ SegmentsTo(counts, lists, 0) = <<>>
           /\ \A p \in 0..Total(counts) - 1 :
                /\ SegmentMessages(counts, p, lists[p + 1])
                      = StartsTo(counts, p, K) \o <<CommitmentMessage(lists[p + 1])>>
                /\ SegmentMessages(counts, p, lists[p + 1]) \in Seq(Messages(counts, lists))
                /\ SegmentsTo(counts, lists, p + 1)
                      = SegmentsTo(counts, lists, p) \o SegmentMessages(counts, p, lists[p + 1])
           /\ \A p \in 0..Total(counts) : SegmentsTo(counts, lists, p) \in Seq(Messages(counts, lists))
<1> DEFINE M == Messages(counts, lists)
           T == Total(counts)
<1>0. K \in Nat /\ T \in Nat /\ K \in 0..K
    BY GroupsAreTheFamilies, TotalIsNat
<1>1. ASSUME NEW p \in 1..T
      PROVE  /\ SegmentMessages(counts, p - 1, lists[p])
                   = StartsTo(counts, p - 1, K) \o <<CommitmentMessage(lists[p])>>
             /\ SegmentMessages(counts, p - 1, lists[p]) \in Seq(M)
    <2> DEFINE own == CommitmentMessage(lists[p])
               starts == StartsTo(counts, p - 1, K)
    <2>1. own \in M
        BY DEF Messages
    <2>2. starts \in Seq(M) /\ GroupMessages(counts, p - 1) = starts
        BY <1>0, StartsStep
    <2>3. SegmentMessages(counts, p - 1, lists[p]) = Append(starts, own)
        BY <2>2 DEF SegmentMessages
    <2> HIDE DEF own, starts, M
    <2>4. Append(starts, own) = starts \o <<own>> /\ Append(starts, own) \in Seq(M)
        BY <2>1, <2>2, AppendIsConcat, AppendProperties
    <2> QED
        BY <2>3, <2>4 DEF own, starts
<1> HIDE DEF M
<1>2. ASSUME NEW p \in 0..T
      PROVE  SegmentsTo(counts, lists, p) \in Seq(M) /\ (p = 0 => SegmentsTo(counts, lists, p) = <<>>)
    <2>00. \A q \in 1..p : q \in 1..T
        BY <1>0
    <2>01. \A q \in 1..T : SegmentMessages(counts, q - 1, lists[q]) \in Seq(M)
        BY <1>1
    <2>0. \A q \in 1..p : SegmentMessages(counts, q - 1, lists[q]) \in Seq(M)
        BY <2>00, <2>01
    <2>1. [q \in 1..p |-> SegmentMessages(counts, q - 1, lists[q])] \in [1..p -> Seq(M)]
        BY <2>0
    <2> QED
        BY <2>1, <1>0, FlattenTyped DEF SegmentsTo
<1>3. ASSUME NEW p \in 0..T - 1
      PROVE  SegmentsTo(counts, lists, p + 1)
                = SegmentsTo(counts, lists, p) \o SegmentMessages(counts, p, lists[p + 1])
    <2> DEFINE n == p + 1
               ss == [q \in 1..n |-> SegmentMessages(counts, q - 1, lists[q])]
               rr == [q \in 1..n - 1 |-> SegmentMessages(counts, q - 1, lists[q])]
    <2>0. n \in 1..T /\ n - 1 = p
        BY <1>0
    <2> HIDE DEF n
    <2>00. \A q \in 1..n : q \in 1..T
        BY <1>0, <2>0
    <2>01. \A q \in 1..T : SegmentMessages(counts, q - 1, lists[q]) \in Seq(M)
        BY <1>1
    <2>1. \A q \in 1..n : SegmentMessages(counts, q - 1, lists[q]) \in Seq(M)
        BY <2>00, <2>01
    <2>2. ss \in [1..n -> Seq(M)] /\ rr = [i \in 1..n - 1 |-> ss[i]] /\ n \in Nat \ {0}
        BY <1>0, <2>0, <2>1
    <2>3. ss[n] = SegmentMessages(counts, n - 1, lists[n])
        BY <2>0, <1>0
    <2> HIDE DEF ss, rr
    <2>4. FlattenSeq(ss) = FlattenSeq(rr) \o ss[n]
        BY <2>2, FlattenOneMore
    <2>5. SegmentsTo(counts, lists, n)
             = SegmentsTo(counts, lists, n - 1) \o SegmentMessages(counts, n - 1, lists[n])
        BY <2>3, <2>4 DEF ss, rr, SegmentsTo
    <2> QED
        BY <2>0, <2>5 DEF n
<1>4. ASSUME NEW p \in 0..T - 1
      PROVE  /\ SegmentMessages(counts, p, lists[p + 1])
                   = StartsTo(counts, p, K) \o <<CommitmentMessage(lists[p + 1])>>
             /\ SegmentMessages(counts, p, lists[p + 1]) \in Seq(M)
    <2>1. p + 1 \in 1..T /\ p + 1 - 1 = p
        BY <1>0
    <2> QED
        BY <2>1, <1>1
<1>5. 0 \in 0..T
    BY <1>0
<1> QED
    BY <1>2, <1>3, <1>4, <1>5 DEF M

\* A group as far as its i-th list.
GroupTo(counts, lists, g, i) ==
    <<GroupMessage(counts, g)>>
        \o [j \in 1..i |-> CommitmentMessage(lists[GroupStart(counts, g) + j])]

\* The segments of a group's shards, after those before it and the messages of
\* the groups before it that start where it does, are the group as far.
LEMMA SegmentsOfGroup ==
    ASSUME NEW counts, Counted(counts), NEW lists, NEW g \in 1..K,
           NEW before, before = Cat(SegmentsTo(counts, lists, GroupStart(counts, g)),
                                    StartsTo(counts, GroupStart(counts, g), g - 1)),
           NEW i \in 1..Size(counts, g)
    PROVE  SegmentsTo(counts, lists, GroupStart(counts, g) + i)
              = Cat(before, GroupTo(counts, lists, g, i))
<1> DEFINE M == Messages(counts, lists)
           Q == GroupStart(counts, g)
           n == Size(counts, g)
           T == Total(counts)
<1>0. /\ K \in Nat /\ T \in Nat /\ n \in Nat /\ Q \in Nat /\ Q + n <= T
      /\ g \in 1..K + 1 /\ g + 1 \in 1..K + 1 /\ GroupStart(counts, g + 1) = Q + n
    <2>1. /\ K \in Nat /\ g \in 1..K + 1 /\ g + 1 \in 1..K + 1 /\ K + 1 \in 1..K + 1 /\ K + 1 \in g + 1..K + 1
        BY GroupsAreTheFamilies
    <2>2. GroupStart(counts, g + 1) <= GroupStart(counts, K + 1)
        BY <2>1, StartsAscend
    <2>3. n \in Nat
        BY SizesAreCounts
    <2>4. Q \in Nat /\ GroupStart(counts, g + 1) = Q + n /\ GroupStart(counts, K + 1) = T
        BY <2>1, GroupStartsAt
    <2>5. T \in Nat
        BY TotalIsNat
    <2> QED
        BY <2>1, <2>2, <2>3, <2>4, <2>5
\* Where each of its segments starts.
<1>1. StartsTo(counts, Q, K) = StartsTo(counts, Q, g - 1) \o <<GroupMessage(counts, g)>>
    <2>1. StartsTo(counts, Q, g) = StartsTo(counts, Q, g - 1) \o Piece(counts, Q, g)
        BY StartsStep
    <2>2. Piece(counts, Q, g) = <<GroupMessage(counts, g)>>
        BY DEF Piece
    <2>3. ASSUME NEW h \in g + 1..K
          PROVE  GroupStart(counts, h) # Q
        <3>1. h \in g + 1..K + 1 /\ h \in 1..K + 1
            BY <1>0
        <3>2. GroupStart(counts, g + 1) <= GroupStart(counts, h) /\ GroupStart(counts, h) \in Nat
            BY <1>0, <3>1, StartsAscend, GroupStartsAt
        <3> QED
            BY <1>0, <3>2
    <2>4. g \in 0..K /\ K \in g..K
        BY <1>0
    <2>5. StartsTo(counts, Q, K) = StartsTo(counts, Q, g)
        BY <2>3, <2>4, StartsElsewhere
    <2> QED
        BY <2>1, <2>2, <2>5
<1>2. ASSUME NEW j \in 1..n - 1
      PROVE  StartsTo(counts, Q + j, K) = <<>>
    <2>1. ASSUME NEW h \in 1..K
          PROVE  GroupStart(counts, h) # Q + j
        <3>0. h \in 1..K + 1
            BY <1>0
        <3>1. CASE h <= g
            <4>1. g \in h..K + 1
                BY <1>0, <3>1
            <4>2. GroupStart(counts, h) <= Q /\ GroupStart(counts, h) \in Nat
                BY <1>0, <3>0, <4>1, StartsAscend, GroupStartsAt
            <4> QED
                BY <1>0, <4>2
        <3>2. CASE h > g
            <4>1. h \in g + 1..K + 1
                BY <1>0, <3>2
            <4>2. GroupStart(counts, g + 1) <= GroupStart(counts, h) /\ GroupStart(counts, h) \in Nat
                BY <1>0, <3>0, <4>1, StartsAscend, GroupStartsAt
            <4> QED
                BY <1>0, <4>2
        <3> QED
            BY <3>1, <3>2, <1>0
    <2>2. 0 \in 0..K /\ K \in 0..K /\ \A h \in 0 + 1..K : GroupStart(counts, h) # Q + j
        BY <1>0, <2>1
    <2>3. StartsTo(counts, Q + j, K) = StartsTo(counts, Q + j, 0)
        BY <2>2, StartsElsewhere
    <2> QED
        BY <2>3, StartsStep
<1> DEFINE list(j) == CommitmentMessage(lists[Q + j])
           own(j) == [k \in 1..j |-> list(k)]
<1>3. ASSUME NEW j \in 1..n
      PROVE  list(j) \in M
    <2>1. Q + j \in 1..T
        BY <1>0
    <2> QED
        BY <2>1 DEF Messages
<1>4. ASSUME NEW j \in 0..n
      PROVE  own(j) \in Seq(M)
    <2>1. \A k \in 1..j : list(k) \in M
        BY <1>0, <1>3
    <2> QED
        BY <2>1, <1>0
<1>5. ASSUME NEW j \in 1..n
      PROVE  own(j) = own(j - 1) \o <<list(j)>>
    <2>1. j - 1 \in 0..n
        BY <1>0
    <2>2. own(j - 1) \in Seq(M) /\ list(j) \in M /\ Len(own(j - 1)) = j - 1
        BY <2>1, <1>0, <1>3, <1>4
    <2>3. own(j) = Append(own(j - 1), list(j))
        BY <2>1, <2>2, <1>0
    <2> HIDE DEF own, list
    <2> QED
        BY <2>2, <2>3, AppendIsConcat
<1>6. before \in Seq(M) /\ <<GroupMessage(counts, g)>> \in Seq(M)
    <2>1. Q \in 0..T /\ g - 1 \in 0..K
        BY <1>0
    <2>2. SegmentsTo(counts, lists, Q) \in Seq(M) /\ StartsTo(counts, Q, g - 1) \in Seq(M)
        BY <2>1, StartsStep, SegmentsStep
    <2>3. GroupMessage(counts, g) \in M
        BY DEF Messages
    <2>4. before \in Seq(M)
        BY <2>2, CatMeans
    <2> HIDE DEF M
    <2> QED
        BY <2>3, <2>4
<1> DEFINE bad == {j \in 0..n : j # 0 /\ SegmentsTo(counts, lists, Q + j) # Cat(before, GroupTo(counts, lists, g, j))}
<1>7. \A j \in 1..n : j - 1 \notin bad => j \notin bad
    <2> SUFFICES ASSUME NEW j \in 1..n, j - 1 \notin bad
                 PROVE  SegmentsTo(counts, lists, Q + j) = Cat(before, GroupTo(counts, lists, g, j))
        OBVIOUS
    <2>0. j - 1 \in 0..n /\ Q + (j - 1) \in 0..T - 1 /\ Q + (j - 1) + 1 = Q + j
        BY <1>0
    <2>00. j - 1 # 0 => SegmentsTo(counts, lists, Q + (j - 1)) = Cat(before, GroupTo(counts, lists, g, j - 1))
        BY <2>0
    <2> HIDE DEF bad
    <2> DEFINE p == Q + (j - 1)
    <2>1. /\ SegmentsTo(counts, lists, p + 1)
                = SegmentsTo(counts, lists, p) \o SegmentMessages(counts, p, lists[p + 1])
          /\ SegmentMessages(counts, p, lists[p + 1])
                = StartsTo(counts, p, K) \o <<CommitmentMessage(lists[p + 1])>>
          /\ SegmentsTo(counts, lists, p) \in Seq(M)
        <3>1. p \in 0..T - 1 /\ p \in 0..T
            BY <2>0, <1>0
        <3> HIDE DEF p
        <3> QED
            BY <3>1, SegmentsStep
    <2>2. SegmentsTo(counts, lists, Q + j)
             = SegmentsTo(counts, lists, p) \o (StartsTo(counts, p, K) \o <<list(j)>>)
        BY <2>0, <2>1
    <2>3. \A k : GroupTo(counts, lists, g, k) = <<GroupMessage(counts, g)>> \o own(k)
        BY DEF GroupTo
    <2>4. own(j) = own(j - 1) \o <<list(j)>> /\ own(j - 1) \in Seq(M) /\ list(j) \in M
        BY <2>0, <1>3, <1>4, <1>5
    <2>5. <<list(j)>> \in Seq(M)
        BY <2>4
    <2> DEFINE head == <<GroupMessage(counts, g)>>
               last == <<list(j)>>
    <2>6. CASE j = 1
        <3>1. p = Q /\ own(j - 1) = <<>>
            BY <2>6, <1>0
        <3>2. SegmentsTo(counts, lists, Q + j)
                 = SegmentsTo(counts, lists, Q) \o ((StartsTo(counts, Q, g - 1) \o head) \o last)
            BY <2>2, <3>1, <1>1
        <3>3. own(j) = last
            BY <2>4, <2>5, <3>1, ConcatEmptySeq
        <3>4. /\ SegmentsTo(counts, lists, Q) \in Seq(M) /\ StartsTo(counts, Q, g - 1) \in Seq(M)
              /\ head \in Seq(M) /\ last \in Seq(M)
            <4>1. g - 1 \in 0..K
                BY <1>0
            <4> QED
                BY <4>1, <2>1, <2>5, <3>1, <1>6, StartsStep
        <3> HIDE DEF M, head, last, own, p, list
        <3>6. SegmentsTo(counts, lists, Q + j) = Cat(before, Cat(head, last))
            <4> DEFINE x == SegmentsTo(counts, lists, Q)
                       y == StartsTo(counts, Q, g - 1)
            <4>1. x \in Seq(M) /\ y \in Seq(M) /\ before = Cat(x, y)
                BY <3>4 DEF Q
            <4>2. SegmentsTo(counts, lists, Q + j) = Cat(x, Cat(Cat(y, head), last))
                BY <3>2 DEF Cat
            <4> HIDE DEF x, y
            <4>3. Cat(x, Cat(Cat(y, head), last)) = Cat(Cat(x, y), Cat(head, last))
                BY <3>4, <4>1, CatMeans
            <4> QED
                BY <4>1, <4>2, <4>3
        <3> QED
            BY <2>3, <3>3, <3>6 DEF head, Cat
    <2>7. CASE j > 1
        <3>1. j - 1 \in 1..n - 1 /\ j - 1 # 0
            BY <2>7, <1>0
        <3>2. StartsTo(counts, p, K) = <<>>
            BY <3>1, <1>2
        <3>3. SegmentsTo(counts, lists, p) = Cat(before, Cat(head, own(j - 1)))
            BY <2>00, <2>3, <3>1 DEF Cat
        <3>4. SegmentsTo(counts, lists, Q + j) = Cat(SegmentsTo(counts, lists, p), last)
            BY <2>2, <2>5, <3>2, ConcatEmptySeq DEF Cat
        <3>5. /\ head \in Seq(M) /\ last \in Seq(M) /\ own(j - 1) \in Seq(M) /\ before \in Seq(M)
            BY <1>6, <2>4, <2>5
        <3>7. own(j) = Cat(own(j - 1), last)
            BY <2>4 DEF Cat
        <3> DEFINE o == own(j - 1)
                   ho == Cat(head, o)
        <3>8. o \in Seq(M) /\ ho \in Seq(M) /\ SegmentsTo(counts, lists, Q + j) = Cat(Cat(before, ho), last)
            BY <3>3, <3>4, <3>5, CatMeans
        <3>10. GroupTo(counts, lists, g, j) = Cat(head, Cat(o, last))
            BY <2>3, <3>7 DEF Cat
        <3> HIDE DEF M, head, last, own, p, list, Q, o
        <3>9. Cat(ho, last) = Cat(head, Cat(o, last))
            BY <3>5, <3>8, CatMeans
        <3> HIDE DEF ho
        <3>11. Cat(before, Cat(ho, last)) = Cat(Cat(before, ho), last)
            BY <3>5, <3>8, CatMeans
        <3> QED
            BY <3>8, <3>9, <3>10, <3>11
    <2>8. j = 1 \/ j > 1
        OBVIOUS
    <2> QED
        BY <2>6, <2>7, <2>8
<1>8. bad \in SUBSET (0..n) /\ 0 \notin bad
    OBVIOUS
<1> HIDE DEF bad
<1>9. bad = {}
    BY <1>0, <1>7, <1>8, SameSteps
<1>10. i \in 0..n /\ i # 0
    BY <1>0
<1> QED
    BY <1>9, <1>10 DEF bad

\* `global_transcript` goes group by group, chain.rs' `segment` position by
\* position: the segments of every position, and then the messages of the groups
\* that start after the last, are the groups, each with its lists.
THEOREM SegmentsAreTheGroups ==
    ASSUME NEW counts, Counted(counts), NEW lists
    PROVE  GroupsTo(counts, lists, K)
              = SegmentsTo(counts, lists, Total(counts)) \o GroupMessages(counts, Total(counts))
<1> DEFINE M == Messages(counts, lists)
           Upto(g) == Cat(SegmentsTo(counts, lists, GroupStart(counts, g + 1)),
                          StartsTo(counts, GroupStart(counts, g + 1), g))
           bad == {g \in 0..K : GroupsTo(counts, lists, g) # Upto(g)}
<1>0. K \in Nat
    BY GroupsAreTheFamilies
<1>1. 0 \notin bad
    <2>1. GroupStart(counts, 0 + 1) = 0
        BY GroupStartsAt
    <2>2. SegmentsTo(counts, lists, 0) = <<>> /\ StartsTo(counts, 0, 0) = <<>> /\ GroupsTo(counts, lists, 0) = <<>>
        BY GroupsStep, SegmentsStep, StartsStep
    <2>3. Cat(<<>>, <<>>) = <<>>
        <3>1. <<>> \in Seq(M)
            OBVIOUS
        <3> QED
            BY <3>1, CatMeans
    <2>4. Upto(0) = <<>>
        BY <2>1, <2>2, <2>3
    <2> QED
        BY <2>2, <2>4
<1>2. ASSUME NEW g \in 1..K, g - 1 \notin bad
      PROVE  GroupsTo(counts, lists, g) = Upto(g)
    <2> DEFINE Q == GroupStart(counts, g)
               n == Size(counts, g)
               head == <<GroupMessage(counts, g)>>
               before == Cat(SegmentsTo(counts, lists, Q), StartsTo(counts, Q, g - 1))
    <2>0. /\ n \in Nat /\ Q \in Nat /\ GroupStart(counts, g + 1) = Q + n
          /\ g - 1 \in 0..K /\ g \in 0..K /\ g - 1 + 1 = g /\ g \in 1..K + 1 /\ g + 1 \in 1..K + 1
        <3>1. g \in 1..K + 1
            BY <1>0
        <3> QED
            BY <1>0, <3>1, SizesAreCounts, GroupStartsAt
    <2>1. GroupsTo(counts, lists, g - 1) = before
        BY <1>2, <2>0
    <2>2. GroupsTo(counts, lists, g) = Cat(before, GroupTo(counts, lists, g, n))
        <3>1. GroupsTo(counts, lists, g) = GroupsTo(counts, lists, g - 1) \o Group(counts, lists, g)
            BY GroupsStep
        <3> QED
            BY <2>1, <3>1 DEF Cat, Group, GroupTo
    <2>3. CASE n = 0
        <3>1. GroupTo(counts, lists, g, n) = head
            <4>1. GroupTo(counts, lists, g, 0) = head \o <<>>
                BY DEF GroupTo
            <4>2. head \in Seq({GroupMessage(counts, g)})
                OBVIOUS
            <4> HIDE DEF head
            <4> QED
                BY <2>3, <4>1, <4>2, ConcatEmptySeq
        <3>2. Upto(g) = Cat(SegmentsTo(counts, lists, Q), StartsTo(counts, Q, g))
            BY <2>0, <2>3
        <3>3. StartsTo(counts, Q, g) = Cat(StartsTo(counts, Q, g - 1), head)
            <4>1. StartsTo(counts, Q, g) = StartsTo(counts, Q, g - 1) \o Piece(counts, Q, g)
                BY StartsStep
            <4>2. Piece(counts, Q, g) = head
                BY DEF Piece
            <4> QED
                BY <4>1, <4>2 DEF Cat
        <3>4. SegmentsTo(counts, lists, Q) \in Seq(M) /\ StartsTo(counts, Q, g - 1) \in Seq(M) /\ head \in Seq(M)
            <4>1. Q \in 0..Total(counts)
                <5>1. K + 1 \in g..K + 1 /\ K + 1 \in 1..K + 1
                    BY <1>0, <2>0
                <5>2. Q <= GroupStart(counts, K + 1)
                    BY <2>0, <5>1, StartsAscend
                <5>3. GroupStart(counts, K + 1) = Total(counts)
                    BY GroupStartsAt
                <5> QED
                    BY <2>0, <5>2, <5>3, TotalIsNat
            <4>2. GroupMessage(counts, g) \in M
                BY DEF Messages
            <4>3. SegmentsTo(counts, lists, Q) \in Seq(M) /\ StartsTo(counts, Q, g - 1) \in Seq(M)
                BY <2>0, <4>1, SegmentsStep, StartsStep
            <4> HIDE DEF M
            <4> QED
                BY <4>2, <4>3
        <3> DEFINE x == SegmentsTo(counts, lists, Q)
                   y == StartsTo(counts, Q, g - 1)
        <3>5. x \in Seq(M) /\ y \in Seq(M) /\ head \in Seq(M)
            BY <3>4
        <3>6. Upto(g) = Cat(x, Cat(y, head)) /\ GroupsTo(counts, lists, g) = Cat(Cat(x, y), head)
            BY <2>2, <3>1, <3>2, <3>3
        <3> HIDE DEF x, y, head, M, Upto
        <3>7. Cat(x, Cat(y, head)) = Cat(Cat(x, y), head)
            BY <3>5, CatMeans
        <3> QED
            BY <3>6, <3>7
    <2>4. CASE n > 0
        <3>1. SegmentsTo(counts, lists, Q + n) = Cat(before, GroupTo(counts, lists, g, n))
            <4>1. n \in 1..n
                BY <2>0, <2>4
            <4>2. before = Cat(SegmentsTo(counts, lists, Q), StartsTo(counts, Q, g - 1))
                OBVIOUS
            <4> HIDE DEF before
            <4> QED
                BY <4>1, <4>2, SegmentsOfGroup
        <3>2. StartsTo(counts, Q + n, g) = <<>>
            <4>1. ASSUME NEW h \in 0 + 1..g
                  PROVE  GroupStart(counts, h) # Q + n
                <5>1. h \in 1..K + 1 /\ g \in h..K + 1
                    BY <1>0
                <5>2. GroupStart(counts, h) <= Q /\ GroupStart(counts, h) \in Nat
                    BY <1>0, <5>1, StartsAscend, GroupStartsAt
                <5> QED
                    BY <2>0, <2>4, <5>2
            <4>2. 0 \in 0..K /\ g \in 0..K
                BY <1>0
            <4>3. StartsTo(counts, Q + n, g) = StartsTo(counts, Q + n, 0)
                BY <4>1, <4>2, StartsElsewhere
            <4> QED
                BY <4>3, StartsStep
        <3>3. GroupsTo(counts, lists, g) \in Seq(M)
            BY <2>0, GroupsStep
        <3>4. Cat(GroupsTo(counts, lists, g), <<>>) = GroupsTo(counts, lists, g)
            BY <3>3, CatMeans
        <3>5. Upto(g) = Cat(GroupsTo(counts, lists, g), <<>>)
            BY <2>0, <2>2, <3>1, <3>2
        <3> QED
            BY <3>4, <3>5
    <2>5. n = 0 \/ n > 0
        BY <2>0
    <2> QED
        BY <2>3, <2>4, <2>5
<1>3. \A g \in 1..K : g - 1 \notin bad => g \notin bad
    BY <1>2
<1>4. bad \in SUBSET (0..K)
    OBVIOUS
<1> HIDE DEF bad
<1>5. bad = {}
    BY <1>0, <1>1, <1>3, <1>4, SameSteps
<1>6. GroupsTo(counts, lists, K) = Upto(K)
    <2>1. K \in 0..K
        BY <1>0
    <2> QED
        BY <1>5, <2>1 DEF bad
<1>7. GroupStart(counts, K + 1) = Total(counts)
    BY GroupStartsAt
<1>8. GroupMessages(counts, Total(counts)) = StartsTo(counts, Total(counts), K)
    BY StartsStep
<1> QED
    BY <1>6, <1>7, <1>8 DEF Cat

-----------------------------------------------------------------------------
(* The sponge *)

\* What a sponge makes of what it holds: its blocks, and what is left.
Blocks(s) == [i \in 1..Len(s) \div 2 |-> SubSeq(s, 2 * (i - 1) + 1, 2 * i)]
Rest(s) == SubSeq(s, 2 * (Len(s) \div 2) + 1, Len(s))
Holding(state, input) ==
    [state |-> state, input |-> input, output |-> IF input = <<>> THEN Lanes(state) ELSE <<>>]

LEMMA ObserveMeans ==
    \A t, xs : Observe(t, xs) = Holding(t.state \o Blocks(t.input \o xs), Rest(t.input \o xs))
BY DEF Observe, Rate, Blocks, Rest, Holding

LEMMA SameSequence ==
    ASSUME NEW S, NEW a \in Seq(S), NEW b \in Seq(S), Len(a) = Len(b),
           \A i \in 1..Len(a) : a[i] = b[i]
    PROVE  a = b
OBVIOUS

LEMMA OneOrTwo ==
    ASSUME NEW S, NEW r \in Seq(S)
    PROVE  /\ Len(r) = 1 => r = <<r[1]>> /\ r[1] \in S
           /\ Len(r) = 2 => r = <<r[1], r[2]>> /\ r[1] \in S /\ r[2] \in S
<1>1. ASSUME Len(r) = 1
      PROVE  r = <<r[1]>> /\ r[1] \in S
    <2>0. 1 \in 1..Len(r)
        BY <1>1
    <2>1. r[1] \in S
        BY <2>0
    <2> DEFINE u == <<r[1]>>
    <2>2. u \in Seq(S) /\ Len(u) = 1 /\ u[1] = r[1]
        BY <2>1
    <2> HIDE DEF u
    <2>3. r = u
        BY <1>1, <2>2, SameSequence
    <2> QED
        BY <2>1, <2>3 DEF u
<1>2. ASSUME Len(r) = 2
      PROVE  r = <<r[1], r[2]>> /\ r[1] \in S /\ r[2] \in S
    <2>0. 1 \in 1..Len(r) /\ 2 \in 1..Len(r)
        BY <1>2
    <2>1. r[1] \in S /\ r[2] \in S
        BY <2>0
    <2> DEFINE u == <<r[1], r[2]>>
    <2>2. u \in Seq(S) /\ Len(u) = 2 /\ u[1] = r[1] /\ u[2] = r[2]
        BY <2>1
    <2> HIDE DEF u
    <2>3. r = u
        BY <1>2, <2>2, SameSequence
    <2> QED
        BY <2>1, <2>3 DEF u
<1> QED
    BY <1>1, <1>2

LEMMA Halves ==
    ASSUME NEW n \in Nat
    PROVE  n \div 2 \in Nat /\ (n % 2) \in {0, 1} /\ n = 2 * (n \div 2) + (n % 2)
OBVIOUS

LEMMA HalfIs ==
    ASSUME NEW n \in Nat, NEW k \in Nat, NEW b \in {0, 1}, n = 2 * k + b
    PROVE  (n \div 2) = k /\ (n % 2) = b
OBVIOUS

\* A block is two elements; what is left is one or none.
LEMMA BlockIs ==
    ASSUME NEW S, NEW s \in Seq(S), NEW i \in 1..Len(s) \div 2
    PROVE  /\ SubSeq(s, 2 * (i - 1) + 1, 2 * i) = <<s[2 * i - 1], s[2 * i]>>
           /\ 2 * i - 1 \in 1..Len(s) /\ 2 * i \in 1..Len(s)
<1> DEFINE m == 2 * (i - 1)
           n == 2 * i
           r == SubSeq(s, m + 1, n)
<1>1. Len(s) \in Nat
    OBVIOUS
<1>2. m \in Nat /\ n \in Nat /\ n <= Len(s) /\ n - m = 2 /\ m + 1 = 2 * i - 1 /\ m + 2 = 2 * i /\ m <= n
    BY <1>1, Halves
<1> HIDE DEF m, n
<1>3. r \in Seq(S) /\ Len(r) = n - m /\ \A k \in 1..n - m : r[k] = s[m + k]
    BY <1>2, PartOf
<1> HIDE DEF r
<1>4. Len(r) = 2 /\ r[1] = s[2 * i - 1] /\ r[2] = s[2 * i]
    BY <1>2, <1>3
<1>5. r = <<r[1], r[2]>>
    BY <1>3, <1>4, OneOrTwo
<1>6. 2 * i - 1 \in 1..Len(s) /\ 2 * i \in 1..Len(s)
    BY <1>1, <1>2 DEF m, n
<1> QED
    BY <1>4, <1>5, <1>6 DEF r, m, n

LEMMA BlocksTyped ==
    ASSUME NEW S, NEW s \in Seq(S)
    PROVE  Blocks(s) \in Seq(Seq(S)) /\ Len(Blocks(s)) = Len(s) \div 2
<1>1. Len(s) \div 2 \in Nat
    <2>1. Len(s) \in Nat
        OBVIOUS
    <2> QED
        BY <2>1, Halves
<1>2. ASSUME NEW i \in 1..Len(s) \div 2
      PROVE  SubSeq(s, 2 * (i - 1) + 1, 2 * i) \in Seq(S)
    <2>1. SubSeq(s, 2 * (i - 1) + 1, 2 * i) = <<s[2 * i - 1], s[2 * i]>>
        BY BlockIs
    <2>2. s[2 * i - 1] \in S /\ s[2 * i] \in S
        BY BlockIs
    <2> QED
        BY <2>1, <2>2
<1> QED
    BY <1>1, <1>2 DEF Blocks

LEMMA RestIs ==
    ASSUME NEW S, NEW s \in Seq(S)
    PROVE  /\ Rest(s) \in Seq(S) /\ Len(Rest(s)) = (Len(s) % 2)
           /\ Len(s) % 2 = 0 => Rest(s) = <<>>
           /\ Len(s) % 2 = 1 => Rest(s) = <<s[Len(s)]>> /\ Len(s) \in 1..Len(s)
<1> DEFINE n == Len(s)
           m == 2 * (n \div 2)
           r == SubSeq(s, m + 1, n)
<1>1. n \in Nat
    OBVIOUS
<1>2. m \in Nat /\ m <= n /\ n - m = (n % 2) /\ (n % 2) \in {0, 1}
    BY <1>1, Halves
<1> HIDE DEF m
<1>3. r \in Seq(S) /\ Len(r) = n - m /\ \A k \in 1..n - m : r[k] = s[m + k]
    BY <1>1, <1>2, PartOf
<1>4. r = Rest(s)
    BY DEF Rest, m
<1> HIDE DEF r, n
<1>5. (n % 2) = 0 => r = <<>>
    BY <1>2, <1>3
<1>6. ASSUME (n % 2) = 1
      PROVE  r = <<s[n]>> /\ n \in 1..n
    <2>1. Len(r) = 1 /\ m + 1 = n
        BY <1>1, <1>2, <1>3, <1>6
    <2>2. r[1] = s[n]
        BY <1>2, <1>3, <1>6, <2>1
    <2>3. r = <<r[1]>>
        BY <1>3, <2>1, OneOrTwo
    <2> QED
        BY <1>1, <1>2, <1>6, <2>2, <2>3
<1> QED
    BY <1>2, <1>3, <1>4, <1>5, <1>6 DEF n

\* What is held and then more of it: the blocks of the first, and those of what
\* it left with the rest.
LEMMA BlocksOfMore ==
    ASSUME NEW S, NEW s \in Seq(S), NEW u \in Seq(S)
    PROVE  /\ Blocks(s \o u) = Blocks(s) \o Blocks(Rest(s) \o u)
           /\ Rest(s \o u) = Rest(Rest(s) \o u)
<1> DEFINE w == s \o u
           r == Rest(s)
           v == r \o u
           n == Len(s) \div 2
           m == Len(v) \div 2
<1>0. Len(s) \in Nat /\ Len(u) \in Nat /\ n \in Nat
    BY Halves
<1>1. r \in Seq(S) /\ Len(r) = (Len(s) % 2) /\ Len(s) = 2 * n + Len(r) /\ Len(r) \in {0, 1}
    BY <1>0, RestIs, Halves
<1>2. w \in Seq(S) /\ Joins(w, s, u)
    BY EndToEnd
<1>10. Len(r) = 1 => r[1] = s[2 * n + 1] /\ 2 * n + 1 \in 1..Len(s)
    <2> SUFFICES ASSUME Len(r) = 1 PROVE r[1] = s[2 * n + 1] /\ 2 * n + 1 \in 1..Len(s)
        OBVIOUS
    <2>1. Len(s) % 2 = 1 /\ Len(s) = 2 * n + 1
        BY <1>1
    <2>2. r = <<s[Len(s)]>> /\ Len(s) \in 1..Len(s)
        BY <2>1, RestIs
    <2> HIDE DEF n, r
    <2> QED
        BY <2>1, <2>2
<1> HIDE DEF w, r
<1>3. v \in Seq(S) /\ Joins(v, r, u)
    BY <1>1, EndToEnd
<1> HIDE DEF v
<1>4. Len(v) \in Nat /\ m \in Nat /\ Len(v) = Len(r) + Len(u) /\ Len(w) = 2 * n + Len(v)
      /\ Len(w) \in Nat /\ (Len(v) % 2) \in {0, 1} /\ Len(v) = 2 * m + (Len(v) % 2)
    <2>1. Len(v) = Len(r) + Len(u) /\ Len(w) = Len(s) + Len(u)
        BY <1>2, <1>3 DEF Joins
    <2>2. Len(v) \in Nat
        BY <1>3
    <2>3. m \in Nat /\ (Len(v) % 2) \in {0, 1} /\ Len(v) = 2 * m + (Len(v) % 2)
        BY <2>2, Halves
    <2> HIDE DEF n, m
    <2>4. Len(w) = 2 * n + Len(v) /\ Len(w) \in Nat
        BY <1>0, <1>1, <2>1, <2>2
    <2> QED
        BY <2>1, <2>2, <2>3, <2>4
<1>5. ASSUME NEW i \in 1..Len(v)
      PROVE  w[2 * n + i] = v[i]
    <2>1. CASE i <= Len(r)
        <3>1. i = 1 /\ Len(r) = 1
            BY <1>1, <2>1
        <3>2. v[1] = r[1]
            BY <3>1, <1>3 DEF Joins
        <3>3. w[2 * n + 1] = s[2 * n + 1]
            BY <3>1, <1>10, <1>2 DEF Joins
        <3> QED
            BY <3>1, <3>2, <3>3, <1>10
    <2>2. CASE i > Len(r)
        <3> HIDE DEF n
        <3>0. Len(r) \in Nat /\ i \in Nat /\ i <= Len(r) + Len(u)
            <4>1. Len(r) \in Nat
                BY <1>1
            <4>2. i \in Nat /\ i <= Len(v)
                BY <1>4
            <4>3. Len(v) = Len(r) + Len(u)
                BY <1>4
            <4> QED
                BY <4>1, <4>2, <4>3
        <3>1. i - Len(r) \in 1..Len(u) /\ Len(r) + (i - Len(r)) = i /\ Len(s) + (i - Len(r)) = 2 * n + i
            BY <1>0, <1>1, <3>0, <2>2
        <3>2. v[Len(r) + (i - Len(r))] = u[i - Len(r)]
            BY <3>1, <1>3 DEF Joins
        <3>3. w[Len(s) + (i - Len(r))] = u[i - Len(r)]
            BY <3>1, <1>2 DEF Joins
        <3> QED
            BY <3>1, <3>2, <3>3
    <2> QED
        BY <2>1, <2>2, <1>1
<1>6. (Len(w) \div 2) = n + m /\ (Len(w) % 2) = (Len(v) % 2)
    <2> HIDE DEF n, m
    <2>1. n + m \in Nat /\ Len(w) = 2 * (n + m) + (Len(v) % 2)
        BY <1>0, <1>4
    <2> QED
        BY <2>1, <1>4, HalfIs
<1>7. Blocks(w) = Blocks(s) \o Blocks(v)
    <2> DEFINE B == Blocks(w)
               C == Blocks(s) \o Blocks(v)
    <2>1. B \in Seq(Seq(S)) /\ Len(B) = n + m
        BY <1>2, <1>6, BlocksTyped
    <2>2. /\ Blocks(s) \in Seq(Seq(S)) /\ Len(Blocks(s)) = n
          /\ Blocks(v) \in Seq(Seq(S)) /\ Len(Blocks(v)) = m
        BY <1>3, BlocksTyped
    <2>3. C \in Seq(Seq(S)) /\ Joins(C, Blocks(s), Blocks(v))
        BY <2>2, EndToEnd
    <2>4. \A i \in 1..n + m : B[i] = <<w[2 * i - 1], w[2 * i]>>
        <3>1. \A i \in 1..Len(w) \div 2 : SubSeq(w, 2 * (i - 1) + 1, 2 * i) = <<w[2 * i - 1], w[2 * i]>>
            BY <1>2, BlockIs
        <3> QED
            BY <3>1, <1>6 DEF Blocks
    <2>5. \A i \in 1..n : Blocks(s)[i] = <<s[2 * i - 1], s[2 * i]>>
        <3>1. \A i \in 1..Len(s) \div 2 : SubSeq(s, 2 * (i - 1) + 1, 2 * i) = <<s[2 * i - 1], s[2 * i]>>
            BY BlockIs
        <3> QED
            BY <3>1 DEF Blocks
    <2>6. \A i \in 1..m : Blocks(v)[i] = <<v[2 * i - 1], v[2 * i]>>
        <3>1. \A i \in 1..Len(v) \div 2 : SubSeq(v, 2 * (i - 1) + 1, 2 * i) = <<v[2 * i - 1], v[2 * i]>>
            BY <1>3, BlockIs
        <3> QED
            BY <3>1 DEF Blocks
    <2> HIDE DEF B, C
    <2>7. ASSUME NEW i \in 1..n
          PROVE  B[i] = C[i]
        <3>1. i \in 1..n + m
            BY <1>0, <1>4
        <3>2. C[i] = <<s[2 * i - 1], s[2 * i]>>
            BY <2>2, <2>3, <2>5 DEF Joins
        <3>3. 2 * i - 1 \in 1..Len(s) /\ 2 * i \in 1..Len(s)
            BY BlockIs
        <3>4. w[2 * i - 1] = s[2 * i - 1] /\ w[2 * i] = s[2 * i]
            BY <3>3, <1>2 DEF Joins
        <3> QED
            BY <3>1, <3>2, <3>4, <2>4
    <2>8. ASSUME NEW i \in 1..m
          PROVE  B[n + i] = C[n + i]
        <3>1. n + i \in 1..n + m /\ 2 * (n + i) - 1 = 2 * n + (2 * i - 1) /\ 2 * (n + i) = 2 * n + 2 * i
            BY <1>0, <1>4
        <3>2. C[n + i] = <<v[2 * i - 1], v[2 * i]>>
            BY <2>2, <2>3, <2>6 DEF Joins
        <3>3. 2 * i - 1 \in 1..Len(v) /\ 2 * i \in 1..Len(v)
            BY <1>3, BlockIs
        <3>4. w[2 * n + (2 * i - 1)] = v[2 * i - 1] /\ w[2 * n + 2 * i] = v[2 * i]
            BY <3>3, <1>5
        <3>5. B[n + i] = <<w[2 * (n + i) - 1], w[2 * (n + i)]>>
            BY <3>1, <2>4
        <3> QED
            BY <3>1, <3>2, <3>4, <3>5
    <2>9. Len(C) = n + m
        BY <2>2, <2>3 DEF Joins
    <2>10. ASSUME NEW i \in 1..n + m
           PROVE  B[i] = C[i]
        <3>1. CASE i <= n
            BY <3>1, <2>7, <1>0
        <3>2. CASE i > n
            <4>1. i - n \in 1..m /\ n + (i - n) = i
                BY <3>2, <1>0, <1>4
            <4>2. B[n + (i - n)] = C[n + (i - n)]
                BY <4>1, <2>8
            <4> QED
                BY <4>1, <4>2
        <3> QED
            BY <3>1, <3>2, <1>0
    <2>11. B = C
        BY <2>1, <2>3, <2>9, <2>10, SameSequence
    <2> QED
        BY <2>11 DEF B, C
<1>8. Rest(w) = Rest(v)
    <2> HIDE DEF n, m
    <2>1. CASE (Len(v) % 2) = 0
        BY <2>1, <1>2, <1>3, <1>6, RestIs
    <2>2. CASE (Len(v) % 2) = 1
        <3>1. Rest(w) = <<w[Len(w)]>> /\ Rest(v) = <<v[Len(v)]>> /\ Len(v) \in 1..Len(v)
            BY <2>2, <1>2, <1>3, <1>6, RestIs
        <3>2. w[2 * n + Len(v)] = v[Len(v)]
            BY <3>1, <1>5
        <3> QED
            BY <3>1, <3>2, <1>4
    <2> QED
        BY <2>1, <2>2, <1>4
<1> QED
    BY <1>7, <1>8 DEF w, v, r

\* What is absorbed in two parts is absorbed at once.
Sponge(t, S) == t.state \in Seq(Seq(S)) /\ t.input \in Seq(S)

LEMMA ObserveTwice ==
    ASSUME NEW S, NEW t, Sponge(t, S),
           NEW xs \in Seq(S), NEW ys \in Seq(S)
    PROVE  /\ Observe(Observe(t, xs), ys) = Observe(t, Cat(xs, ys))
           /\ Sponge(Observe(t, xs), S)
<1> DEFINE state == t.state
           input == t.input
           held == Cat(input, xs)
           left == Rest(held)
           one == Observe(t, xs)
<1>0. state \in Seq(Seq(S)) /\ input \in Seq(S)
    BY DEF Sponge
<1>2. one = Holding(Cat(state, Blocks(held)), left)
    BY ObserveMeans DEF Cat
<1>3. one.state = Cat(state, Blocks(held)) /\ one.input = left
    BY <1>2 DEF Holding
<1>31. \A zs : Observe(t, zs) = Holding(Cat(state, Blocks(Cat(input, zs))), Rest(Cat(input, zs)))
    BY ObserveMeans DEF Cat
<1> HIDE DEF state, input
<1>1. held \in Seq(S) /\ Cat(held, ys) = Cat(input, Cat(xs, ys)) /\ Cat(xs, ys) \in Seq(S)
    BY <1>0, CatMeans
<1> HIDE DEF held, one, left
<1>4. Blocks(held) \in Seq(Seq(S)) /\ left \in Seq(S)
    BY <1>1, BlocksTyped, RestIs DEF left
<1>5. /\ Blocks(Cat(held, ys)) = Cat(Blocks(held), Blocks(Cat(left, ys)))
      /\ Rest(Cat(held, ys)) = Rest(Cat(left, ys))
    BY <1>1, BlocksOfMore DEF Cat, left
<1>6. Cat(left, ys) \in Seq(S)
    BY <1>4, CatMeans
<1>7. Blocks(Cat(left, ys)) \in Seq(Seq(S))
    BY <1>6, BlocksTyped
<1>8. Observe(one, ys) = Holding(Cat(Cat(state, Blocks(held)), Blocks(Cat(left, ys))), Rest(Cat(left, ys)))
    BY <1>3, ObserveMeans DEF Cat
<1>9. Observe(t, Cat(xs, ys)) = Holding(Cat(state, Blocks(Cat(held, ys))), Rest(Cat(held, ys)))
    BY <1>1, <1>31
<1>10. Cat(Cat(state, Blocks(held)), Blocks(Cat(left, ys)))
          = Cat(state, Cat(Blocks(held), Blocks(Cat(left, ys))))
    BY <1>0, <1>4, <1>7, CatMeans
<1>11. Observe(one, ys) = Observe(t, Cat(xs, ys))
    BY <1>5, <1>8, <1>9, <1>10
<1>12. one.state \in Seq(Seq(S)) /\ one.input \in Seq(S)
    BY <1>0, <1>3, <1>4, CatMeans
<1> QED
    BY <1>11, <1>12 DEF one, Sponge

\* Only the state and the pending input are read.
LEMMA ObserveReads ==
    ASSUME NEW t, NEW u, t.state = u.state, t.input = u.input
    PROVE  \A xs : Observe(t, xs) = Observe(u, xs)
BY ObserveMeans

-----------------------------------------------------------------------------
(* Messages as scalars *)

Sized(M) == \A m \in M : m[2] \in Nat
ScalarsIn(M) == UNION {ToSet(Scalars(m)) : m \in M}
Stream(ms) == FlattenSeq([i \in 1..Len(ms) |-> Scalars(ms[i])])

LEMMA ScalarsAre ==
    ASSUME NEW M, Sized(M), NEW m \in M
    PROVE  Scalars(m) \in Seq(ScalarsIn(M)) /\ Len(Scalars(m)) = 2 + m[2]
<1> DEFINE head == <<TagScalar(m[1]), <<"length", m[2]>>>>
           body == [i \in 1..m[2] |-> <<m[1], i, m[3]>>]
           T == ToSet(head) \cup ToSet(body)
           r == head \o body
<1>0. m[2] \in Nat
    BY DEF Sized
<1>1. head \in Seq(T) /\ body \in Seq(T) /\ Len(head) = 2 /\ Len(body) = m[2]
    <2>1. \A i \in 1..2 : head[i] \in T
        BY DEF ToSet
    <2>2. \A i \in 1..m[2] : body[i] \in T
        BY DEF ToSet
    <2>3. body \in [1..m[2] -> T]
        BY <2>2
    <2>4. head[1] \in T /\ head[2] \in T
        BY <2>1
    <2> HIDE DEF T
    <2>5. head \in Seq(T) /\ Len(head) = 2
        BY <2>4
    <2> HIDE DEF body, head
    <2>6. body \in Seq(T) /\ Len(body) = m[2]
        BY <2>3, <1>0
    <2> QED
        BY <2>5, <2>6
<1> HIDE DEF head, body, T
<1>2. r \in Seq(T) /\ Joins(r, head, body)
    BY <1>1, EndToEnd
<1>3. r = Scalars(m)
    BY DEF Scalars, head, body
<1> HIDE DEF r
<1>4. Len(r) = 2 + m[2]
    BY <1>1, <1>2 DEF Joins
<1>5. \A i \in 1..Len(r) : r[i] \in ScalarsIn(M)
    <2>1. DOMAIN r = 1..Len(r)
        BY <1>2
    <2>2. \A i \in 1..Len(r) : r[i] \in ToSet(r)
        BY <2>1 DEF ToSet
    <2> QED
        BY <2>2, <1>3 DEF ScalarsIn
<1>6. r \in Seq(ScalarsIn(M))
    <2>1. r \in [1..Len(r) -> ScalarsIn(M)] /\ Len(r) \in Nat
        BY <1>2, <1>5
    <2> QED
        BY <2>1
<1> QED
    BY <1>3, <1>4, <1>6

LEMMA StreamTyped ==
    ASSUME NEW M, Sized(M), NEW ms \in Seq(M)
    PROVE  /\ Stream(ms) \in Seq(ScalarsIn(M))
           /\ [i \in 1..Len(ms) |-> Scalars(ms[i])] \in [1..Len(ms) -> Seq(ScalarsIn(M))]
           /\ ms = <<>> => Stream(ms) = <<>>
<1>1. Len(ms) \in Nat /\ \A i \in 1..Len(ms) : ms[i] \in M
    OBVIOUS
<1>2. \A i \in 1..Len(ms) : Scalars(ms[i]) \in Seq(ScalarsIn(M))
    BY <1>1, ScalarsAre
<1>3. [i \in 1..Len(ms) |-> Scalars(ms[i])] \in [1..Len(ms) -> Seq(ScalarsIn(M))]
    BY <1>2
<1>4. ms = <<>> => Len(ms) = 0
    OBVIOUS
<1> QED
    BY <1>1, <1>3, <1>4, FlattenTyped DEF Stream

LEMMA StreamOfMore ==
    ASSUME NEW M, Sized(M), NEW ms \in Seq(M), NEW ns \in Seq(M)
    PROVE  Stream(ms \o ns) = Stream(ms) \o Stream(ns)
<1> DEFINE r == ms \o ns
           a == [i \in 1..Len(ms) |-> Scalars(ms[i])]
           b == [i \in 1..Len(ns) |-> Scalars(ns[i])]
           c == Followed(a, Len(ms), b, Len(ns))
           d == [i \in 1..Len(r) |-> Scalars(r[i])]
<1>1. Len(ms) \in Nat /\ Len(ns) \in Nat
    OBVIOUS
<1>2. a \in [1..Len(ms) -> Seq(ScalarsIn(M))] /\ b \in [1..Len(ns) -> Seq(ScalarsIn(M))]
    BY StreamTyped
<1>3. Joins(r, ms, ns)
    BY EndToEnd
<1> HIDE DEF r
<1>4. ASSUME NEW i \in 1..Len(ms) + Len(ns)
      PROVE  d[i] = c[i]
    <2>0. i \in 1..Len(r)
        BY <1>3 DEF Joins
    <2>1. CASE i <= Len(ms)
        <3>1. i \in 1..Len(ms)
            BY <2>1, <1>1
        <3>2. r[i] = ms[i]
            BY <3>1, <1>3 DEF Joins
        <3> QED
            BY <2>0, <2>1, <3>1, <3>2 DEF Followed
    <2>2. CASE i > Len(ms)
        <3> DEFINE j == i - Len(ms)
        <3>1. j \in 1..Len(ns) /\ Len(ms) + j = i /\ ~(i <= Len(ms))
            BY <2>2, <1>1
        <3>2. r[Len(ms) + j] = ns[j]
            <4> HIDE DEF j
            <4> QED
                BY <3>1, <1>3 DEF Joins
        <3>3. r[i] = ns[j]
            BY <3>1, <3>2
        <3>4. c[i] = b[j]
            BY <3>1 DEF Followed
        <3>5. b[j] = Scalars(ns[j])
            BY <3>1
        <3>6. d[i] = Scalars(r[i])
            BY <2>0
        <3> HIDE DEF c, d, b, j
        <3> QED
            BY <3>3, <3>4, <3>5, <3>6
    <2>3. i <= Len(ms) \/ i > Len(ms)
        BY <1>1
    <2> HIDE DEF c, d
    <2> QED
        BY <2>1, <2>2, <2>3
<1>5. d = c
    <2>1. Len(r) = Len(ms) + Len(ns)
        BY <1>3 DEF Joins
    <2>2. d = [i \in 1..Len(ms) + Len(ns) |-> d[i]] /\ c = [i \in 1..Len(ms) + Len(ns) |-> c[i]]
        BY <2>1 DEF Followed
    <2> HIDE DEF c, d
    <2> QED
        BY <1>4, <2>2
<1> HIDE DEF a, b, d
<1>6. FlattenSeq(c) = FlattenSeq(a) \o FlattenSeq(b)
    <2>1. Parts(a, Len(ms), ScalarsIn(M)) /\ Parts(b, Len(ns), ScalarsIn(M))
        BY <1>2 DEF Parts
    <2> DEFINE k == Len(ms)
               l == Len(ns)
    <2>2. k \in Nat /\ l \in Nat /\ Parts(a, k, ScalarsIn(M)) /\ Parts(b, l, ScalarsIn(M)) /\ c = Followed(a, k, b, l)
        BY <1>1, <2>1
    <2> HIDE DEF k, l, c
    <2>3. FlattenSeq(Followed(a, k, b, l)) = Cat(FlattenSeq(a), FlattenSeq(b))
        BY <2>2, FlattenConcat
    <2> QED
        BY <2>2, <2>3 DEF Cat
<1> HIDE DEF c
<1> QED
    BY <1>5, <1>6 DEF Stream, a, b, d, r

\* One message more, and messages that are all of an even length.
LEMMA StreamOfOne ==
    ASSUME NEW M, Sized(M), NEW ms \in Seq(M), NEW m \in M
    PROVE  /\ Len(Stream(Append(ms, m))) = Len(Stream(ms)) + 2 + m[2]
           /\ Len(Stream(ms)) \in Nat /\ m[2] \in Nat /\ Append(ms, m) \in Seq(M)
<1> DEFINE E == ScalarsIn(M)
           n == Len(ms) + 1
           ns == Append(ms, m)
           ss == [i \in 1..n |-> Scalars(ns[i])]
           rr == [i \in 1..Len(ms) |-> Scalars(ms[i])]
<1>0. Len(ms) \in Nat /\ n - 1 = Len(ms) /\ n \in Nat \ {0}
    OBVIOUS
<1>1. ns \in Seq(M) /\ Len(ns) = n /\ ns[n] = m /\ \A i \in 1..Len(ms) : ns[i] = ms[i]
    BY AppendProperties
<1> HIDE DEF ns, n
<1>2. ss \in [1..n -> Seq(E)]
    BY <1>1, StreamTyped
<1>3. rr = [i \in 1..n - 1 |-> ss[i]]
    <2>1. \A i \in 1..Len(ms) : i \in 1..n
        BY <1>0
    <2> QED
        BY <1>0, <1>1, <2>1
<1>4. n \in 1..n
    BY <1>0
<1>5. ss[n] = Scalars(m)
    BY <1>1, <1>4
<1>6. Stream(ns) = FlattenSeq(ss) /\ Stream(ms) = FlattenSeq(rr)
    BY <1>1 DEF Stream
<1> HIDE DEF ss, rr, E
<1>7. FlattenSeq(ss) = FlattenSeq(rr) \o ss[n]
    BY <1>0, <1>2, <1>3, FlattenOneMore
<1>8. Scalars(m) \in Seq(E) /\ Len(Scalars(m)) = 2 + m[2] /\ Stream(ms) \in Seq(E)
    BY ScalarsAre, StreamTyped DEF E
<1>9. m[2] \in Nat
    BY DEF Sized
<1>10. Joins(Stream(ns), Stream(ms), Scalars(m))
    BY <1>5, <1>6, <1>7, <1>8, EndToEnd
<1>11. Len(Stream(ms)) \in Nat
    BY <1>8
<1>12. Len(Stream(ns)) = Len(Stream(ms)) + (2 + m[2])
    BY <1>8, <1>10 DEF Joins
<1>13. Len(Stream(ns)) = Len(Stream(ms)) + 2 + m[2]
    BY <1>9, <1>11, <1>12
<1> QED
    BY <1>1, <1>9, <1>11, <1>13 DEF ns

FirstOf(ms, k) == [i \in 1..k |-> ms[i]]
LengthTo(ms, k) == Len(Stream(FirstOf(ms, k)))

LEMMA LengthGrows ==
    ASSUME NEW M, Sized(M), NEW ms \in Seq(M)
    PROVE  /\ LengthTo(ms, 0) = 0 /\ LengthTo(ms, Len(ms)) = Len(Stream(ms))
           /\ \A k \in 0..Len(ms) : LengthTo(ms, k) \in Nat
           /\ \A k \in 1..Len(ms) :
                LengthTo(ms, k) = LengthTo(ms, k - 1) + 2 + ms[k][2] /\ ms[k] \in M /\ ms[k][2] \in Nat
<1>0. Len(ms) \in Nat /\ \A i \in 1..Len(ms) : ms[i] \in M
    OBVIOUS
<1>1. ASSUME NEW k \in 0..Len(ms)
      PROVE  FirstOf(ms, k) \in Seq(M) /\ Len(FirstOf(ms, k)) = k
    BY <1>0 DEF FirstOf
<1>2. LengthTo(ms, 0) = 0
    <2>1. FirstOf(ms, 0) = <<>>
        BY DEF FirstOf
    <2>2. <<>> \in Seq(M)
        OBVIOUS
    <2>3. Stream(FirstOf(ms, 0)) = <<>>
        BY <2>1, <2>2, StreamTyped
    <2> QED
        BY <2>3 DEF LengthTo
<1>3. ASSUME NEW k \in 1..Len(ms)
      PROVE  LengthTo(ms, k) = LengthTo(ms, k - 1) + 2 + ms[k][2] /\ ms[k][2] \in Nat
    <2>1. k - 1 \in 0..Len(ms) /\ k \in 0..Len(ms) /\ ms[k] \in M
        BY <1>0
    <2> DEFINE u == FirstOf(ms, k - 1)
               v == Append(u, ms[k])
    <2>3. FirstOf(ms, k) \in Seq(M) /\ Len(FirstOf(ms, k)) = k /\ u \in Seq(M) /\ Len(u) = k - 1
        BY <2>1, <1>1
    <2>4. v = FirstOf(ms, k)
        <3>1. u \in Seq(M) /\ Len(u) = k - 1 /\ \A i \in 1..k - 1 : u[i] = ms[i]
            BY <2>3 DEF FirstOf
        <3> HIDE DEF u
        <3>2. v \in Seq(M) /\ Len(v) = k /\ v[k] = ms[k] /\ \A i \in 1..k - 1 : v[i] = ms[i]
            BY <2>1, <3>1, AppendProperties
        <3> HIDE DEF v
        <3>3. \A i \in 1..k : v[i] = FirstOf(ms, k)[i]
            <4>1. \A i \in 1..k : i = k \/ i \in 1..k - 1
                OBVIOUS
            <4>2. \A i \in 1..k : FirstOf(ms, k)[i] = ms[i]
                BY DEF FirstOf
            <4> QED
                BY <3>2, <4>1, <4>2
        <3> QED
            BY <2>3, <3>2, <3>3, SameSequence
    <2> DEFINE m == ms[k]
    <2>5. u \in Seq(M) /\ m \in M /\ FirstOf(ms, k) = Append(u, m)
        BY <2>1, <2>3, <2>4
    <2> HIDE DEF u, m, v
    <2>6. Len(Stream(Append(u, m))) = Len(Stream(u)) + 2 + m[2] /\ m[2] \in Nat
        BY <2>5, StreamOfOne
    <2> QED
        BY <2>5, <2>6 DEF u, m, LengthTo
<1>4. FirstOf(ms, Len(ms)) = ms
    <2>0. Len(ms) \in 0..Len(ms)
        BY <1>0
    <2>1. FirstOf(ms, Len(ms)) \in Seq(M) /\ Len(FirstOf(ms, Len(ms))) = Len(ms)
        BY <1>1, <2>0
    <2>2. \A i \in 1..Len(ms) : FirstOf(ms, Len(ms))[i] = ms[i]
        BY DEF FirstOf
    <2> QED
        BY <2>1, <2>2, SameSequence
<1>5. ASSUME NEW k \in 0..Len(ms)
      PROVE  LengthTo(ms, k) \in Nat
    <2>1. FirstOf(ms, k) \in Seq(M)
        BY <1>1
    <2>2. Stream(FirstOf(ms, k)) \in Seq(ScalarsIn(M))
        BY <2>1, StreamTyped
    <2> QED
        BY <2>2 DEF LengthTo
<1> QED
    BY <1>0, <1>2, <1>3, <1>4, <1>5 DEF LengthTo

LEMMA EvenMore ==
    ASSUME NEW n \in Nat, NEW l \in Nat, (n % 2) = 0, (l % 2) = 0
    PROVE  ((n + 2 + l) % 2) = 0
OBVIOUS

LEMMA StreamIsEven ==
    ASSUME NEW M, Sized(M), \A m \in M : (m[2] % 2) = 0, NEW ms \in Seq(M)
    PROVE  (Len(Stream(ms)) % 2) = 0
<1> DEFINE bad == {k \in 0..Len(ms) : (LengthTo(ms, k) % 2) # 0}
<1>0. Len(ms) \in Nat
    OBVIOUS
<1>2. 0 \notin bad
    BY LengthGrows
<1>3. \A k \in 1..Len(ms) : k - 1 \notin bad => k \notin bad
    <2> SUFFICES ASSUME NEW k \in 1..Len(ms), k - 1 \notin bad
                 PROVE  (LengthTo(ms, k) % 2) = 0
        OBVIOUS
    <2>1. k - 1 \in 0..Len(ms)
        BY <1>0
    <2> DEFINE n == LengthTo(ms, k - 1)
               l == ms[k][2]
    <2>2. n \in Nat /\ (n % 2) = 0
        BY <2>1, LengthGrows
    <2>3. LengthTo(ms, k) = n + 2 + l /\ ms[k] \in M /\ l \in Nat
        BY LengthGrows
    <2>4. (l % 2) = 0
        BY <2>3
    <2> HIDE DEF n, l
    <2>5. ((n + 2 + l) % 2) = 0
        BY <2>2, <2>3, <2>4, EvenMore
    <2> QED
        BY <2>3, <2>5
<1>4. bad \in SUBSET (0..Len(ms))
    OBVIOUS
<1> HIDE DEF bad
<1>5. bad = {}
    BY <1>0, <1>2, <1>3, <1>4, SameSteps
<1>6. Len(ms) \in 0..Len(ms)
    BY <1>0
<1>7. (LengthTo(ms, Len(ms)) % 2) = 0
    BY <1>5, <1>6 DEF bad
<1> QED
    BY <1>7, LengthGrows

-----------------------------------------------------------------------------
(* The messages of a statement *)

P(s) == PrefixMessages(s.counts, s.windows, "identity", "io")
End == Message("MEMORY_BOUNDARY", BoundaryLen, "boundary")
\* Every message of the statement; the ones after the prefix.
AllMessages(s, lists) == ToSet(P(s)) \cup Messages(s.counts, lists) \cup {End}
LaterMessages(s, lists) == Messages(s.counts, lists) \cup {End}

LEMMA MessagesAreSized ==
    ASSUME NEW s \in Shapes, NEW lists
    PROVE  /\ Counted(s.counts) /\ Len(s.windows) \in Nat
           /\ Sized(AllMessages(s, lists)) /\ Sized(LaterMessages(s, lists))
           /\ \A m \in LaterMessages(s, lists) : (m[2] % 2) = 0
           /\ P(s) \in Seq(AllMessages(s, lists)) /\ Len(P(s)) = 7
           /\ LaterMessages(s, lists) \subseteq AllMessages(s, lists)
<1>1. Counted(s.counts) /\ Len(s.windows) \in Nat
    BY ShapesAssumption DEF Counted
<1>2. \A m \in LaterMessages(s, lists) : m[2] \in {2, 4}
    BY DEF LaterMessages, Messages, End, GroupMessage, CommitmentMessage, Message, BoundaryLen
<1>3. K \in Nat
    BY GroupsAreTheFamilies
<1> DEFINE p == P(s)
<1>4. /\ Len(p) = 7 /\ DOMAIN p = 1..7
      /\ p[1][2] = 1 /\ p[2][2] = 1 /\ p[3][2] = 2 * K + 1 /\ p[4][2] = K
      /\ p[5][2] = Len(s.windows) /\ p[6][2] = 1 /\ p[7][2] = 2
      /\ p = <<p[1], p[2], p[3], p[4], p[5], p[6], p[7]>>
    BY DEF P, PrefixMessages, Message
<1> HIDE DEF p
<1>5. ToSet(p) = {p[i] : i \in 1..7}
    BY <1>4 DEF ToSet
<1>6. \A i \in 1..7 : p[i][2] \in Nat
    BY <1>1, <1>3, <1>4
<1>7. Sized(AllMessages(s, lists)) /\ Sized(LaterMessages(s, lists))
    <2>1. AllMessages(s, lists) = ToSet(p) \cup LaterMessages(s, lists)
        BY DEF AllMessages, LaterMessages, p
    <2> QED
        BY <1>2, <1>5, <1>6, <2>1 DEF Sized
<1>8. p \in Seq(ToSet(p))
    <2>1. \A i \in 1..7 : p[i] \in ToSet(p)
        BY <1>5
    <2> DEFINE E == ToSet(p)
    <2>2. p[1] \in E /\ p[2] \in E /\ p[3] \in E /\ p[4] \in E /\ p[5] \in E /\ p[6] \in E /\ p[7] \in E
        BY <2>1
    <2> HIDE DEF E
    <2>3. <<p[1], p[2], p[3], p[4], p[5], p[6], p[7]>> \in Seq(E)
        BY <2>2
    <2> QED
        BY <2>3, <1>4 DEF E
<1>9. p \in Seq(AllMessages(s, lists))
    <2>1. ToSet(p) \subseteq AllMessages(s, lists)
        BY DEF AllMessages, p
    <2> QED
        BY <1>8, <2>1
<1>10. \A m \in LaterMessages(s, lists) : (m[2] % 2) = 0
    BY <1>2
<1>11. LaterMessages(s, lists) \subseteq AllMessages(s, lists)
    BY DEF LaterMessages, AllMessages
<1> QED
    BY <1>1, <1>4, <1>7, <1>9, <1>10, <1>11 DEF p

\* The prefix is 3K + w + 20 scalars.
LEMMA PrefixScalars ==
    ASSUME NEW s \in Shapes
    PROVE  Len(Stream(P(s))) = 3 * K + Len(s.windows) + 20
<1> DEFINE M == AllMessages(s, <<>>)
           w == Len(s.windows)
           p == P(s)
<1>1. Sized(M) /\ p \in Seq(M) /\ w \in Nat
    BY MessagesAreSized
<1>2. K \in Nat
    BY GroupsAreTheFamilies
<1>4. /\ Len(p) = 7
      /\ p[1][2] = 1 /\ p[2][2] = 1 /\ p[3][2] = 2 * K + 1 /\ p[4][2] = K
      /\ p[5][2] = w /\ p[6][2] = 1 /\ p[7][2] = 2
    BY DEF P, PrefixMessages, Message
<1> HIDE DEF p, w, M
<1>5. /\ LengthTo(p, 0) = 0 /\ LengthTo(p, 7) = Len(Stream(p))
      /\ \A k \in 1..7 : LengthTo(p, k) = LengthTo(p, k - 1) + 2 + p[k][2]
    BY <1>1, <1>4, LengthGrows
<1>6. /\ LengthTo(p, 1) = LengthTo(p, 0) + 2 + p[1][2]
      /\ LengthTo(p, 2) = LengthTo(p, 1) + 2 + p[2][2]
      /\ LengthTo(p, 3) = LengthTo(p, 2) + 2 + p[3][2]
      /\ LengthTo(p, 4) = LengthTo(p, 3) + 2 + p[4][2]
      /\ LengthTo(p, 5) = LengthTo(p, 4) + 2 + p[5][2]
      /\ LengthTo(p, 6) = LengthTo(p, 5) + 2 + p[6][2]
      /\ LengthTo(p, 7) = LengthTo(p, 6) + 2 + p[7][2]
    <2>1. /\ LengthTo(p, 1) = LengthTo(p, 1 - 1) + 2 + p[1][2]
          /\ LengthTo(p, 2) = LengthTo(p, 2 - 1) + 2 + p[2][2]
          /\ LengthTo(p, 3) = LengthTo(p, 3 - 1) + 2 + p[3][2]
          /\ LengthTo(p, 4) = LengthTo(p, 4 - 1) + 2 + p[4][2]
          /\ LengthTo(p, 5) = LengthTo(p, 5 - 1) + 2 + p[5][2]
          /\ LengthTo(p, 6) = LengthTo(p, 6 - 1) + 2 + p[6][2]
          /\ LengthTo(p, 7) = LengthTo(p, 7 - 1) + 2 + p[7][2]
        BY <1>5
    <2>2. 1 - 1 = 0 /\ 2 - 1 = 1 /\ 3 - 1 = 2 /\ 4 - 1 = 3 /\ 5 - 1 = 4 /\ 6 - 1 = 5 /\ 7 - 1 = 6
        OBVIOUS
    <2> QED
        BY <2>1, <2>2
<1>7. /\ LengthTo(p, 1) = 3 /\ LengthTo(p, 2) = 6 /\ LengthTo(p, 3) = 6 + 2 + (2 * K + 1)
    BY <1>4, <1>5, <1>6
<1>8. LengthTo(p, 7) = ((((6 + 2 + (2 * K + 1)) + 2 + K) + 2 + w) + 2 + 1) + 2 + 2
    BY <1>4, <1>6, <1>7
<1>k. Len(Stream(p)) = 3 * K + w + 20
    BY <1>1, <1>2, <1>5, <1>8
<1> QED
    BY <1>k DEF p, w

-----------------------------------------------------------------------------
(* The chain *)

ListsOf(s) == [p \in 1..Total(s.counts) |-> <<"commitments of shard", p>>]
Sent(s, p) == Cat(P(s), SegmentsTo(s.counts, ListsOf(s), p))
After(ms) == Observe(NewTranscript, Stream(ms))
Matches(t, ms) == t.state = After(ms).state /\ t.input = After(ms).input

LEMMA AfterIs ==
    ASSUME NEW M, Sized(M), NEW ms \in Seq(M)
    PROVE  /\ After(ms).state \in Seq(Seq(ScalarsIn(M))) /\ After(ms).input \in Seq(ScalarsIn(M))
           /\ After(ms).input = Rest(Stream(ms))
<1> DEFINE x == Stream(ms)
           S == ScalarsIn(M)
<1>1. x \in Seq(S)
    BY StreamTyped
<1> HIDE DEF x, S
<1>2. NewTranscript.state = <<>> /\ NewTranscript.input = <<>>
    BY DEF NewTranscript
<1>3. <<>> \in Seq(Seq(S)) /\ <<>> \in Seq(S)
    OBVIOUS
<1>4. Observe(NewTranscript, x).state \in Seq(Seq(S)) /\ Observe(NewTranscript, x).input \in Seq(S)
    <2>1. Sponge(NewTranscript, S)
        BY <1>2, <1>3 DEF Sponge
    <2> QED
        BY <1>1, <2>1, ObserveTwice DEF Sponge
<1>5. Cat(<<>>, x) = x
    BY <1>1, CatMeans
<1>6. Observe(NewTranscript, x).input = Rest(x)
    BY <1>2, <1>5, ObserveMeans DEF Holding, Cat
<1> QED
    BY <1>4, <1>6 DEF After, x, S

\* Messages after messages, from wherever the transcript was put down.
LEMMA MessagesAfter ==
    ASSUME NEW M, Sized(M), NEW ms \in Seq(M), NEW ns \in Seq(M), ns # <<>>,
           NEW t, Matches(t, ms)
    PROVE  AppendMessages(t, ns) = After(Cat(ms, ns))
<1> DEFINE x == Stream(ms)
           y == Stream(ns)
           S == ScalarsIn(M)
           u == After(ms)
<1>1. x \in Seq(S) /\ y \in Seq(S) /\ Stream(Cat(ms, ns)) = Cat(x, y)
    BY StreamTyped, StreamOfMore DEF Cat
<1>2. AppendMessages(t, ns) = Observe(t, y)
    BY DEF AppendMessages, Stream
<1>3. t.state = u.state /\ t.input = u.input
    BY DEF Matches
<1>4. u = Observe(NewTranscript, x)
    BY DEF After
<1>5. After(Cat(ms, ns)) = Observe(NewTranscript, Cat(x, y))
    BY <1>1 DEF After
<1> HIDE DEF x, y, S, u
<1>6. Observe(t, y) = Observe(u, y)
    BY <1>3, ObserveReads
<1> DEFINE e == NewTranscript
<1>7. Sponge(e, S)
    <2>1. <<>> \in Seq(Seq(S)) /\ <<>> \in Seq(S)
        OBVIOUS
    <2> QED
        BY <2>1 DEF NewTranscript, Sponge
<1>8. Observe(Observe(e, x), y) = Observe(e, Cat(x, y))
    <2> HIDE DEF e
    <2> QED
        BY <1>1, <1>7, ObserveTwice
<1> QED
    BY <1>2, <1>4, <1>5, <1>6, <1>8

\* What the chain has sent, one segment more, and at the end.
LEMMA SentIs ==
    ASSUME NEW s \in Shapes, NEW M, M = AllMessages(s, ListsOf(s))
    PROVE  /\ Total(s.counts) \in Nat /\ Sized(M) /\ P(s) \in Seq(M)
           /\ Sent(s, 0) = P(s)
           /\ \A p \in 0..Total(s.counts) :
                /\ Sent(s, p) \in Seq(M)
                /\ SegmentsTo(s.counts, ListsOf(s), p) \in Seq(LaterMessages(s, ListsOf(s)))
           /\ \A p \in 0..Total(s.counts) - 1 :
                /\ SegmentMessages(s.counts, p, ListsOf(s)[p + 1]) \in Seq(M)
                /\ SegmentMessages(s.counts, p, ListsOf(s)[p + 1]) # <<>>
                /\ Sent(s, p + 1) = Cat(Sent(s, p), SegmentMessages(s.counts, p, ListsOf(s)[p + 1]))
<1> DEFINE T == Total(s.counts)
           N == Messages(s.counts, ListsOf(s))
           L == LaterMessages(s, ListsOf(s))
           A(p) == SegmentsTo(s.counts, ListsOf(s), p)
           G(p) == SegmentMessages(s.counts, p, ListsOf(s)[p + 1])
<1>1. Counted(s.counts) /\ Sized(M) /\ P(s) \in Seq(M) /\ N \subseteq M /\ N \subseteq L
    BY MessagesAreSized DEF AllMessages, LaterMessages
<1>2. T \in Nat
    BY <1>1, TotalIsNat
<1>3. A(0) = <<>>
    BY <1>1, SegmentsStep
<1>4. ASSUME NEW p \in 0..T
      PROVE  A(p) \in Seq(M) /\ A(p) \in Seq(L)
    <2>1. A(p) \in Seq(N)
        BY <1>1, SegmentsStep
    <2> HIDE DEF A, N, L
    <2> QED
        BY <2>1, <1>1
<1>5. ASSUME NEW p \in 0..T - 1
      PROVE  G(p) \in Seq(M) /\ G(p) # <<>> /\ A(p + 1) = Cat(A(p), G(p))
    <2>1. G(p) \in Seq(N) /\ A(p + 1) = Cat(A(p), G(p))
        BY <1>1, SegmentsStep DEF Cat
    <2>2. G(p) # <<>>
        <3> DEFINE a == StartsTo(s.counts, p, K)
                   c == <<CommitmentMessage(ListsOf(s)[p + 1])>>
                   C == {CommitmentMessage(ListsOf(s)[p + 1])}
                   U == N \cup C
        <3>1. G(p) = a \o c
            BY <1>1, SegmentsStep
        <3>2. a \in Seq(N) /\ c \in Seq(C)
            <4>1. K \in 0..K
                BY GroupsAreTheFamilies
            <4>2. a \in Seq(N)
                BY <4>1, StartsStep
            <4>3. c \in Seq(C)
                OBVIOUS
            <4> QED
                BY <4>2, <4>3
        <3>3. Len(c) = 1
            OBVIOUS
        <3> HIDE DEF a, c, C, N, G
        <3>4. a \in Seq(U) /\ c \in Seq(U)
            BY <3>2
        <3> HIDE DEF U
        <3>5. Len(G(p)) = Len(a) + Len(c) /\ Len(a) \in Nat
            BY <3>1, <3>4, EndToEnd DEF Joins
        <3> QED
            BY <3>3, <3>5
    <2> HIDE DEF A, G, N
    <2> QED
        BY <2>1, <2>2, <1>1
<1> HIDE DEF A, G, N, L, T
<1>6. Sent(s, 0) = P(s)
    <2>1. Sent(s, 0) = Cat(P(s), <<>>)
        BY <1>3 DEF Sent, A
    <2> QED
        BY <2>1, <1>1, CatMeans
<1>7. ASSUME NEW p \in 0..T
      PROVE  Sent(s, p) = Cat(P(s), A(p)) /\ Sent(s, p) \in Seq(M)
    <2>1. Sent(s, p) = Cat(P(s), A(p))
        BY DEF Sent, A
    <2> QED
        BY <2>1, <1>1, <1>4, CatMeans
<1>8. ASSUME NEW p \in 0..T - 1
      PROVE  Sent(s, p + 1) = Cat(Sent(s, p), G(p))
    <2>1. p \in 0..T /\ p + 1 \in 0..T
        BY <1>2
    <2> DEFINE a == A(p)
               g == G(p)
               q == P(s)
    <2>2. a \in Seq(M) /\ g \in Seq(M) /\ q \in Seq(M)
        BY <1>1, <1>4, <1>5, <2>1
    <2>3. Sent(s, p + 1) = Cat(q, Cat(a, g)) /\ Sent(s, p) = Cat(q, a)
        BY <1>5, <1>7, <2>1
    <2> HIDE DEF a, g, q
    <2>4. Cat(q, Cat(a, g)) = Cat(Cat(q, a), g)
        BY <2>2, CatMeans
    <2> QED
        BY <2>3, <2>4 DEF g
<1> QED
    BY <1>1, <1>2, <1>4, <1>5, <1>6, <1>7, <1>8 DEF A, G, L, T

\* The inputs left pending.
LEMMA PendingIs ==
    ASSUME NEW s \in Shapes, NEW p \in 0..Total(s.counts), NEW t, Matches(t, Sent(s, p))
    PROVE  IF Pending(s) THEN t.input = <<CarriedInput(t)>> ELSE t.input = <<>>
<1> DEFINE M == AllMessages(s, ListsOf(s))
           L == LaterMessages(s, ListsOf(s))
           A == SegmentsTo(s.counts, ListsOf(s), p)
           w == Len(s.windows)
           x == Stream(P(s))
           y == Stream(A)
           all == Stream(Sent(s, p))
<1>1. /\ Sized(M) /\ P(s) \in Seq(M) /\ A \in Seq(L) /\ Sent(s, p) \in Seq(M)
      /\ Sent(s, p) = P(s) \o A
    BY SentIs DEF Sent, Cat
<1>2. Sized(L) /\ L \subseteq M /\ \A m \in L : (m[2] % 2) = 0
    BY MessagesAreSized
<1>3. w \in Nat /\ K \in Nat /\ Len(x) = 3 * K + w + 20
    BY MessagesAreSized, PrefixScalars, GroupsAreTheFamilies
<1>4. t.input = Rest(all)
    BY <1>1, AfterIs DEF Matches
<1>41. Pending(s) <=> ((K + w) % 2) = 1
    BY DEF Pending
<1> HIDE DEF A, L, M
<1>5. (Len(y) % 2) = 0
    BY <1>1, <1>2, StreamIsEven
<1>6. A \in Seq(M)
    BY <1>1, <1>2
<1>7. x \in Seq(ScalarsIn(M)) /\ y \in Seq(ScalarsIn(M)) /\ all \in Seq(ScalarsIn(M)) /\ all = x \o y
    BY <1>1, <1>6, StreamTyped, StreamOfMore
<1> HIDE DEF x, y, all, w
<1>8. Len(all) = Len(x) + Len(y) /\ Len(y) \in Nat
    BY <1>7, EndToEnd DEF Joins
<1>9. (Len(all) % 2) = ((K + w) % 2) /\ ((K + w) % 2) \in {0, 1}
    <2> DEFINE n == Len(y)
               h == n \div 2
    <2>1. n \in Nat /\ (n % 2) = 0
        BY <1>5, <1>8
    <2> HIDE DEF n
    <2>2. h \in Nat /\ n = 2 * h
        BY <2>1, Halves
    <2> DEFINE k == K + w
               j == k \div 2
               b == k % 2
    <2>3. k \in Nat
        BY <1>3
    <2> HIDE DEF k
    <2>4. j \in Nat /\ b \in {0, 1} /\ k = 2 * j + b
        BY <2>3, Halves
    <2> HIDE DEF h, j, b
    <2> DEFINE l == j + K + 10 + h
    <2>5. Len(all) = 2 * l + b /\ l \in Nat /\ Len(all) \in Nat
        BY <2>1, <2>2, <2>3, <2>4, <1>3, <1>8 DEF k, n
    <2> HIDE DEF l
    <2>6. (Len(all) % 2) = b
        BY <2>4, <2>5, HalfIs
    <2> QED
        BY <2>4, <2>6 DEF b, k
<1>10. CASE ((K + w) % 2) = 1
    <2>1. Rest(all) = <<all[Len(all)]>>
        BY <1>7, <1>9, <1>10, RestIs
    <2>2. t.input = <<all[Len(all)]>> /\ t.input # <<>> /\ t.input[1] = all[Len(all)]
        BY <1>4, <2>1
    <2> QED
        BY <1>10, <1>41, <2>2 DEF CarriedInput
<1>11. CASE ((K + w) % 2) = 0
    <2>1. Rest(all) = <<>>
        BY <1>7, <1>9, <1>11, RestIs
    <2> QED
        BY <1>4, <1>11, <1>41, <2>1
<1> QED
    BY <1>9, <1>10, <1>11

\* The invariant of the chain: what it has absorbed is the prefix and the
\* segments as far, whatever was cut between.
ChainInv ==
    /\ shape \in Shapes
    /\ at \in -1..Total(shape.counts)
    /\ at >= 0 => CheckMemoryWindows(shape.heights, shape.counts, shape.windows)
    /\ at >= 0 /\ drawn = <<>> =>
            Matches(chain, Sent(shape, at)) /\ Matches(uncut, P(shape))
    /\ drawn # <<>> => at = Total(shape.counts) /\ drawn[1] = drawn[2]

LEMMA ChainInitHolds == ChainInit => ChainInv
<1> SUFFICES ASSUME ChainInit PROVE ChainInv
    OBVIOUS
<1>1. Total(shape.counts) \in Nat
    BY SentIs DEF ChainInit
<1> QED
    BY <1>1 DEF ChainInit, ChainInv

LEMMA PrefixKeepsInv == ChainInv /\ Prefix => ChainInv'
<1> SUFFICES ASSUME ChainInv, Prefix PROVE ChainInv'
    OBVIOUS
<1> DEFINE s == shape
           M == AllMessages(s, ListsOf(s))
<1>1. /\ s \in Shapes /\ Total(s.counts) \in Nat /\ Sized(M) /\ P(s) \in Seq(M) /\ Sent(s, 0) = P(s)
    BY SentIs DEF ChainInv
<1>2. P(s) # <<>> /\ <<>> \in Seq(M)
    <2>1. Len(P(s)) = 7
        BY <1>1, MessagesAreSized
    <2> QED
        BY <2>1
<1>3. Matches(NewTranscript, <<>>)
    <2>1. Stream(<<>>) = <<>>
        BY <1>1, <1>2, StreamTyped
    <2>2. Observe(NewTranscript, <<>>).state = <<>> /\ Observe(NewTranscript, <<>>).input = <<>>
        <3>1. Observe(NewTranscript, <<>>) = Holding(Cat(<<>>, Blocks(Cat(<<>>, <<>>))), Rest(Cat(<<>>, <<>>)))
            BY ObserveMeans DEF NewTranscript, Cat
        <3>2. <<>> \in Seq({0}) /\ <<>> \in Seq(Seq({0})) /\ Len(<<>>) = 0
            OBVIOUS
        <3>3. Cat(<<>>, <<>>) = <<>>
            BY <3>2, CatMeans
        <3>4. Blocks(<<>>) = <<>>
            <4>1. Blocks(<<>>) \in Seq(Seq({0})) /\ Len(Blocks(<<>>)) = 0 \div 2
                BY <3>2, BlocksTyped
            <4> QED
                BY <4>1
        <3>5. Rest(<<>>) = <<>>
            <4>1. (Len(<<>>) % 2) = 0
                BY <3>2
            <4> QED
                BY <3>2, <4>1, RestIs
        <3> QED
            BY <3>1, <3>3, <3>4, <3>5 DEF Holding
    <2> QED
        BY <2>1, <2>2 DEF Matches, After, NewTranscript
<1>4. Cat(<<>>, P(s)) = P(s)
    BY <1>1, CatMeans
<1>5. AppendMessages(NewTranscript, P(s)) = After(P(s))
    BY <1>1, <1>2, <1>3, <1>4, MessagesAfter
<1>6. chain' = After(P(s)) /\ uncut' = After(P(s))
    BY <1>5 DEF Prefix, P
<1>7. Matches(After(P(s)), P(s))
    BY DEF Matches
<1>8. Matches(chain', Sent(s, 0)) /\ Matches(uncut', P(s))
    BY <1>1, <1>6, <1>7
<1>9. /\ shape' = shape /\ drawn' = drawn /\ at' = 0 /\ at = -1
      /\ CheckMemoryWindows(shape.heights, shape.counts, shape.windows)
    BY DEF Prefix
<1>10. drawn = <<>>
    BY <1>1, <1>9 DEF ChainInv
<1> QED
    BY <1>1, <1>8, <1>9, <1>10 DEF ChainInv

LEMMA SegmentKeepsInv == ChainInv /\ Segment => ChainInv'
<1> SUFFICES ASSUME ChainInv, Segment PROVE ChainInv'
    OBVIOUS
<1> DEFINE s == shape
           M == AllMessages(s, ListsOf(s))
           ms == Sent(s, at)
           ns == SegmentMessages(s.counts, at, ListsOf(s)[at + 1])
<1>0. /\ at \in 0..Total(s.counts) - 1 /\ at' = at + 1 /\ shape' = shape /\ uncut' = uncut /\ drawn' = drawn
      /\ chain' = AppendMessages(chain, ns)
    BY DEF Segment, Lists, ListsOf
<1>1. /\ s \in Shapes /\ Total(s.counts) \in Nat /\ drawn = <<>> /\ at >= 0
      /\ Matches(chain, ms) /\ Matches(uncut, P(s))
      /\ CheckMemoryWindows(shape.heights, shape.counts, shape.windows)
    <2>1. s \in Shapes
        BY DEF ChainInv
    <2>2. Total(s.counts) \in Nat
        BY <2>1, SentIs
    <2> QED
        BY <1>0, <2>1, <2>2 DEF ChainInv
<1>2. /\ Sized(M) /\ ms \in Seq(M) /\ ns \in Seq(M) /\ ns # <<>>
      /\ Sent(s, at + 1) = Cat(ms, ns)
    <2>1. at \in 0..Total(s.counts)
        BY <1>0, <1>1
    <2> QED
        BY <1>0, <1>1, <2>1, SentIs
<1> HIDE DEF ms, ns, M
<1>3. AppendMessages(chain, ns) = After(Cat(ms, ns))
    BY <1>1, <1>2, MessagesAfter
<1>4. Matches(chain', Sent(s, at + 1))
    BY <1>0, <1>2, <1>3 DEF Matches
<1>5. at + 1 \in -1..Total(s.counts)
    BY <1>0, <1>1
<1> QED
    BY <1>0, <1>1, <1>4, <1>5 DEF ChainInv

LEMMA CutKeepsInv == ChainInv /\ Cut => ChainInv'
<1> SUFFICES ASSUME ChainInv, Cut PROVE ChainInv'
    OBVIOUS
<1>0. /\ at \in 1..Total(shape.counts) - 1 /\ UNCHANGED <<shape, at, uncut, drawn>>
      /\ chain' = Resume(Checkpoint(chain).state, IF Pending(shape) THEN <<CarriedInput(chain)>> ELSE <<>>)
    BY DEF Cut
<1>1. shape \in Shapes
    BY DEF ChainInv
<1>2. Total(shape.counts) \in Nat
    BY <1>1, SentIs
<1>3. drawn = <<>> /\ at >= 0 /\ at \in 0..Total(shape.counts) /\ Matches(chain, Sent(shape, at))
    BY <1>0, <1>2 DEF ChainInv
<1>4. IF Pending(shape) THEN chain.input = <<CarriedInput(chain)>> ELSE chain.input = <<>>
    BY <1>1, <1>3, PendingIs
<1>5. chain'.state = chain.state /\ chain'.input = chain.input
    BY <1>0, <1>4 DEF Resume, Checkpoint
<1>6. Matches(chain', Sent(shape, at))
    BY <1>3, <1>5 DEF Matches
<1> QED
    BY <1>0, <1>3, <1>6 DEF ChainInv

LEMMA SuffixKeepsInv == ChainInv /\ Suffix => ChainInv'
<1> SUFFICES ASSUME ChainInv, Suffix PROVE ChainInv'
    OBVIOUS
<1> DEFINE s == shape
           M == AllMessages(s, ListsOf(s))
           T == Total(s.counts)
           a == SegmentsTo(s.counts, ListsOf(s), T)
           gm == GroupMessages(s.counts, T)
           tail == <<End>>
           groups == GroupsTo(s.counts, ListsOf(s), K)
           whole == GlobalMessages(s.counts, s.windows, "identity", "io", ListsOf(s), "boundary")
           after == SubSeq(whole, 7 + 1, Len(whole))
           ns == SuffixMessages(s.counts, "boundary")
<1>0. /\ at = T /\ drawn = <<>> /\ shape' = shape /\ at' = at
      /\ chain' = AppendMessages(chain, ns)
      /\ uncut' = AppendMessages(uncut, after)
      /\ drawn' = <<Challenges(chain', Tags).values, Challenges(uncut', Tags).values>>
    <2>1. Lists = ListsOf(s) /\ 7 + 1 = 8
        BY DEF Lists, ListsOf
    <2> QED
        BY <2>1 DEF Suffix
<1>1. s \in Shapes
    BY DEF ChainInv
<1>2. T \in Nat /\ Sized(M) /\ P(s) \in Seq(M) /\ Sent(s, T) \in Seq(M) /\ T \in 0..T
    <2>1. T \in Nat
        BY <1>1, SentIs
    <2>2. T \in 0..T
        BY <2>1
    <2> QED
        BY <1>1, <2>1, <2>2, SentIs
<1>3. /\ Matches(chain, Sent(s, T)) /\ Matches(uncut, P(s))
      /\ CheckMemoryWindows(shape.heights, shape.counts, shape.windows)
    BY <1>0, <1>2 DEF ChainInv
<1>4. Counted(s.counts) /\ Messages(s.counts, ListsOf(s)) \subseteq M /\ End \in M
    BY <1>1, MessagesAreSized DEF AllMessages
<1>5. a \in Seq(M) /\ gm \in Seq(M) /\ groups \in Seq(M) /\ tail \in Seq(M)
    <2> DEFINE N == Messages(s.counts, ListsOf(s))
    <2>1. K \in 0..K
        BY GroupsAreTheFamilies
    <2>2. groups \in Seq(N)
        BY <2>1, <1>4, GroupsStep
    <2>3. a \in Seq(N)
        BY <1>2, <1>4, SegmentsStep
    <2>4. StartsTo(s.counts, T, K) \in Seq(N) /\ gm = StartsTo(s.counts, T, K)
        BY <2>1, StartsStep
    <2>5. tail \in Seq(M)
        BY <1>4
    <2>6. N \subseteq M
        BY <1>4
    <2> HIDE DEF N, M, a, gm, groups, tail
    <2> QED
        BY <2>2, <2>3, <2>4, <2>5, <2>6
<1>6. groups = Cat(a, gm)
    BY <1>4, SegmentsAreTheGroups DEF Cat
<1>7. ns = Cat(gm, tail)
    <2>1. ns = Append(gm, End)
        BY DEF SuffixMessages, End
    <2> HIDE DEF gm
    <2> QED
        BY <1>4, <1>5, <2>1, AppendIsConcat DEF Cat
<1>8. whole = Cat(Cat(P(s), groups), tail)
    <2>1. Len(GroupOrder) = K
        BY GroupsAreTheFamilies
    <2> QED
        BY <2>1 DEF GlobalMessages, GroupsTo, Group, Size, Cat, P, End
<1>9. Len(P(s)) = 7
    BY <1>1, MessagesAreSized
<1>10. Sent(s, T) = Cat(P(s), a)
    BY DEF Sent
<1> DEFINE p == P(s)
<1>11. p \in Seq(M) /\ Len(p) = 7 /\ whole = Cat(Cat(p, groups), tail) /\ Matches(uncut, p)
       /\ Sent(s, T) = Cat(p, a)
    BY <1>2, <1>3, <1>8, <1>9, <1>10
<1>12. Len(tail) = 1
    OBVIOUS
<1> HIDE DEF M, a, gm, tail, groups, whole, ns, p, T
<1>13. /\ Cat(gm, tail) \in Seq(M) /\ Cat(groups, tail) \in Seq(M) /\ Cat(p, a) \in Seq(M)
       /\ Cat(Cat(p, groups), tail) = Cat(p, Cat(groups, tail))
    BY <1>5, <1>11, CatMeans
<1>14. after = Cat(groups, tail)
    <2> DEFINE r == Cat(groups, tail)
    <2>1. r \in Seq(M) /\ whole = p \o r
        BY <1>11, <1>13 DEF Cat
    <2> HIDE DEF r
    <2>2. Joins(whole, p, r) /\ whole \in Seq(M)
        BY <1>11, <2>1, EndToEnd
    <2>3. Len(r) \in Nat /\ Len(whole) = 7 + Len(r) /\ Len(whole) \in Nat
        BY <1>11, <2>1, <2>2 DEF Joins
    <2>4. after \in Seq(M) /\ Len(after) = Len(whole) - 7 /\ \A i \in 1..Len(whole) - 7 : after[i] = whole[7 + i]
        <3>1. 7 \in Nat /\ 7 <= Len(whole) /\ Len(whole) <= Len(whole)
            BY <2>3
        <3> QED
            BY <2>2, <2>3, <3>1, PartOf
    <2> HIDE DEF after
    <2>5. Len(after) = Len(r)
        BY <2>3, <2>4
    <2>6. \A i \in 1..Len(r) : whole[7 + i] = r[i]
        BY <1>11, <2>2 DEF Joins
    <2>7. \A i \in 1..Len(r) : after[i] = r[i]
        BY <2>3, <2>4, <2>6
    <2>8. after = r
        BY <2>1, <2>4, <2>5, <2>7, SameSequence
    <2> QED
        BY <2>8 DEF r
<1> HIDE DEF after
<1>15. ns # <<>> /\ after # <<>>
    <2>1. ns = gm \o tail /\ after = groups \o tail
        BY <1>7, <1>14 DEF Cat
    <2>2. Len(gm) \in Nat /\ Len(groups) \in Nat
        BY <1>5
    <2>3. Len(ns) = Len(gm) + 1 /\ Len(after) = Len(groups) + 1
        <3>1. Joins(ns, gm, tail) /\ Joins(after, groups, tail)
            BY <2>1, <1>5, EndToEnd
        <3> QED
            BY <3>1, <1>12 DEF Joins
    <2> QED
        BY <2>2, <2>3
<1>16. chain' = After(Cat(Cat(p, a), Cat(gm, tail)))
    BY <1>0, <1>2, <1>3, <1>7, <1>11, <1>13, <1>15, MessagesAfter
<1>17. uncut' = After(Cat(p, Cat(groups, tail)))
    BY <1>0, <1>2, <1>11, <1>13, <1>14, <1>15, MessagesAfter
<1>18. Cat(Cat(p, a), Cat(gm, tail)) = Cat(p, Cat(a, Cat(gm, tail)))
    BY <1>5, <1>11, <1>13, CatMeans
<1>19. Cat(Cat(a, gm), tail) = Cat(a, Cat(gm, tail))
    BY <1>5, CatMeans
<1>20. chain' = uncut'
    BY <1>6, <1>16, <1>17, <1>18, <1>19
<1>21. drawn'[1] = drawn'[2]
    BY <1>0, <1>20
<1>22. drawn' # <<>>
    BY <1>0
<1>23. at \in -1..Total(shape.counts) /\ at = Total(shape.counts)
    BY <1>0, <1>2 DEF T
<1> QED
    BY <1>0, <1>1, <1>3, <1>21, <1>22, <1>23 DEF ChainInv

LEMMA ChainStutters == ChainInv /\ UNCHANGED chainVars => ChainInv'
BY DEF ChainInv, chainVars

LEMMA ChainNextKeepsInv == ChainInv /\ [ChainNext]_chainVars => ChainInv'
<1>1. ChainInv /\ (ChainDone \/ ChainRefused) => ChainInv'
    BY ChainStutters DEF ChainDone, ChainRefused
<1> QED
    BY <1>1, PrefixKeepsInv, SegmentKeepsInv, CutKeepsInv, SuffixKeepsInv, ChainStutters DEF ChainNext

\* At every position the chain has absorbed the prefix and each segment before
\* it, once and in order, through every cut: the inductive invariant of
\* chain.rs' `prefix`, `segment` and `suffix` with node.rs' `statement` between.
THEOREM ChainInvariance == ChainSpec => []ChainInv
<1>1. ChainInit => ChainInv
    BY ChainInitHolds
<1>2. ChainInv /\ [ChainNext]_chainVars => ChainInv'
    BY ChainNextKeepsInv
<1> QED
    BY <1>1, <1>2, PTL DEF ChainSpec

\* However a tree cuts the statement into nodes, the suffix draws the challenges
\* and the digest that `global_transcript` draws without a cut.
THEOREM CutChallengesAreGlobal == ChainSpec => []CutChainsDrawTheGlobalChallenges
<1>1. ChainInv => CutChainsDrawTheGlobalChallenges
    BY DEF ChainInv, CutChainsDrawTheGlobalChallenges
<1> QED
    BY <1>1, ChainInvariance, PTL

\* A node's journal holds a pending input just where `pending` says the next
\* node's tape was built for one, by the parity of the families and the windows.
THEOREM PendingIsPredicted == ChainSpec => []ThePendingInputIsPredicted
<1>1. ChainInv => ThePendingInputIsPredicted
    <2> SUFFICES ASSUME ChainInv, at >= 0, drawn = <<>>
                 PROVE  (chain.input # <<>>) = Pending(shape)
        BY DEF ThePendingInputIsPredicted
    <2>1. shape \in Shapes
        BY DEF ChainInv
    <2>2. Total(shape.counts) \in Nat
        BY <2>1, SentIs
    <2>3. at \in 0..Total(shape.counts) /\ Matches(chain, Sent(shape, at))
        BY <2>2 DEF ChainInv
    <2>4. IF Pending(shape) THEN chain.input = <<CarriedInput(chain)>> ELSE chain.input = <<>>
        BY <2>1, <2>3, PendingIs
    <2>5. Pending(shape) \in BOOLEAN
        BY DEF Pending
    <2> QED
        BY <2>4, <2>5
<1> QED
    BY <1>1, ChainInvariance, PTL

-----------------------------------------------------------------------------
(* The initial rows *)

LEMMA QuotientIs ==
    ASSUME NEW h \in Nat \ {0}, NEW a \in Nat, NEW b \in Nat, NEW x \in Nat,
           x \in a * h..(a + 1) * h - 1, x \in b * h..(b + 1) * h - 1
    PROVE  a = b
<1>1. ASSUME NEW c \in Nat, NEW d \in Nat, c < d
      PROVE  (c + 1) * h <= d * h
    <2>1. PICK e \in Nat : d = c + 1 + e
        <3>1. d - (c + 1) \in Nat /\ d = c + 1 + (d - (c + 1))
            BY <1>1
        <3> QED
            BY <3>1
    <2>2. d * h = (c + 1) * h + e * h
        BY <2>1
    <2>3. e * h \in Nat /\ (c + 1) * h \in Nat
        OBVIOUS
    <2> QED
        BY <2>2, <2>3
<1> DEFINE ah == a * h
           bh == b * h
           ah1 == (a + 1) * h
           bh1 == (b + 1) * h
<1>2. ah \in Nat /\ bh \in Nat /\ ah1 \in Nat /\ bh1 \in Nat /\ x \in ah..ah1 - 1 /\ x \in bh..bh1 - 1
    OBVIOUS
<1>3. (a < b => ah1 <= bh) /\ (b < a => bh1 <= ah)
    BY <1>1
<1> HIDE DEF ah, bh, ah1, bh1
<1>4. ~(a < b) /\ ~(b < a)
    BY <1>2, <1>3
<1> QED
    BY <1>4

LEMMA QuotientHolds ==
    ASSUME NEW h \in Nat \ {0}, NEW x \in Nat
    PROVE  x \div h \in Nat /\ x \in (x \div h) * h..((x \div h) + 1) * h - 1
<1> DEFINE q == x \div h
           r == x % h
<1>1. q \in Nat /\ r \in 0..h - 1 /\ x = h * q + r
    OBVIOUS
<1> HIDE DEF q, r
<1>2. q * h = h * q /\ (q + 1) * h = h * q + h /\ h * q \in Nat
    BY <1>1
<1>3. x \in q * h..(q + 1) * h - 1
    BY <1>1, <1>2
<1> QED
    BY <1>1, <1>3 DEF q

LEMMA OneWord ==
    ASSUME NEW w \in Nat, NEW x \in Nat
    PROVE  x \in w * 1..(w + 1) * 1 - 1 <=> x = w
<1> DEFINE a == w * 1
           b == (w + 1) * 1
<1>1. a = w /\ b = w + 1
    OBVIOUS
<1> HIDE DEF a, b
<1>2. x \in a..b - 1 <=> x = w
    BY <1>1
<1> QED
    BY <1>2 DEF a, b

\* Ids that ascend are all different.
LEMMA IdsDiffer ==
    ASSUME NEW ids \in Seq(Nat), WindowIdsAscend(ids)
    PROVE  Distinct(ids)
<1>0. Len(ids) \in Nat /\ \A i \in 1..Len(ids) : ids[i] \in Nat
    OBVIOUS
<1>1. ASSUME NEW i \in 1..Len(ids), NEW j \in 1..Len(ids), i < j
      PROVE  ids[i] < ids[j]
    <2> DEFINE bad == {d \in 0..j - i - 1 : ~(ids[i] < ids[i + 1 + d])}
    <2>0. j - i - 1 \in Nat /\ i \in 1..Len(ids) - 1
        BY <1>0, <1>1
    <2>1. 0 \notin bad
        <3>1. ids[i] < ids[i + 1]
            BY <2>0 DEF WindowIdsAscend
        <3>2. i + 1 + 0 = i + 1
            BY <1>0
        <3> QED
            BY <3>1, <3>2
    <2>2. \A d \in 1..j - i - 1 : d - 1 \notin bad => d \notin bad
        <3> SUFFICES ASSUME NEW d \in 1..j - i - 1, d - 1 \notin bad
                     PROVE  ids[i] < ids[i + 1 + d]
            OBVIOUS
        <3> DEFINE k == i + 1 + (d - 1)
        <3>1. d - 1 \in 0..j - i - 1 /\ k \in 1..Len(ids) - 1 /\ k + 1 = i + 1 + d
            BY <1>0
        <3>2. ids[i] < ids[k]
            BY <3>1
        <3> HIDE DEF k, bad
        <3>3. ids[k] < ids[k + 1]
            BY <3>1 DEF WindowIdsAscend
        <3>4. ids[i] \in Nat /\ ids[k] \in Nat /\ ids[k + 1] \in Nat
            BY <1>0, <3>1
        <3>5. ids[i] < ids[k + 1]
            BY <3>2, <3>3, <3>4
        <3> QED
            BY <3>1, <3>5
    <2>3. bad \in SUBSET (0..j - i - 1)
        OBVIOUS
    <2> HIDE DEF bad
    <2>4. bad = {}
        BY <2>0, <2>1, <2>2, <2>3, SameSteps
    <2>5. j - i - 1 \in 0..j - i - 1 /\ i + 1 + (j - i - 1) = j
        BY <2>0, <1>0
    <2> QED
        BY <2>4, <2>5 DEF bad
<1>2. ASSUME NEW i \in 1..Len(ids), NEW j \in 1..Len(ids), ids[i] = ids[j]
      PROVE  i = j
    <2>1. ~(i < j) /\ ~(j < i)
        BY <1>0, <1>1, <1>2
    <2> QED
        BY <2>1
<1> QED
    BY <1>2 DEF Distinct

\* What the window rules say of a shape a host may name.
LEMMA RulesSay ==
    ASSUME ChainInv, at = 0, NEW h, h = shape.heights["INIT_TEARDOWN"],
           NEW advice, advice = AdviceFirstWindow(h)
    PROVE  /\ h \in Nat \ {0} /\ advice \in Nat \ {0}
           /\ \A f \in WindowFamilies : shape.heights[f] = h
           /\ \A f \in PublicFamilies : /\ shape.heights[f] = 1 /\ PublicAt[f] \in Nat
                                        /\ PublicAt[f] < h /\ PublicAt[f] < RamOrigin
                                        /\ shape.counts[f] = 1
           /\ shape.counts["INIT_TEARDOWN"] = 1
           /\ shape.counts["ZERO_WINDOWS"] = Len(shape.windows)
           /\ shape.counts["ADVICE_WINDOWS"] \in Nat
           /\ shape.windows \in Seq(Nat) /\ Distinct(shape.windows)
           /\ \A i \in 1..Len(shape.windows) : shape.windows[i] \in 1..advice - 1
<1>1. shape \in Shapes /\ CheckMemoryWindows(shape.heights, shape.counts, shape.windows)
    BY DEF ChainInv
<1>2. h \in 1..AdviceOrigin /\ shape.windows \in Seq(Nat) /\ shape.counts \in [ToSet(Families) -> Nat]
    BY <1>1, ShapesAssumption DEF WindowFamilies
<1>3. {RamOrigin, AdviceOrigin, RamEnd} \subseteq Nat /\ WindowFamilies \cup PublicFamilies \subseteq ToSet(Families)
      /\ \A f \in PublicFamilies : PublicAt[f] \in 0..RamOrigin - 1
    BY StatementAssumption
<1>4. advice \in Nat \ {0}
    <2>1. advice = AdviceOrigin \div h /\ AdviceOrigin \in Nat /\ h \in Nat \ {0} /\ h <= AdviceOrigin
        BY <1>2, <1>3 DEF AdviceFirstWindow
    <2>2. advice \in Nat /\ AdviceOrigin \in advice * h..(advice + 1) * h - 1
        BY <2>1, QuotientHolds
    <2>3. advice # 0
        <3> SUFFICES ASSUME advice = 0 PROVE FALSE
            OBVIOUS
        <3>1. AdviceOrigin \in 0 * h..(0 + 1) * h - 1
            BY <2>2
        <3>2. (0 + 1) * h = h
            BY <2>1
        <3> QED
            BY <2>1, <3>1, <3>2
    <2> QED
        BY <2>2, <2>3
<1>5. \A f \in WindowFamilies : shape.heights[f] = h
    BY <1>1 DEF CheckMemoryWindows, WindowHeightHolds, WindowFamilies
<1>6. WindowIdsAscend(shape.windows)
    BY <1>1 DEF CheckMemoryWindows
<1>7. Distinct(shape.windows)
    BY <1>2, <1>6, IdsDiffer
<1>8. \A f \in PublicFamilies : shape.heights[f] = 1 /\ PublicAt[f] < h /\ shape.counts[f] = 1
    BY <1>1 DEF CheckMemoryWindows, WindowHeightHolds
<1>9. \A f \in PublicFamilies : PublicAt[f] \in Nat /\ PublicAt[f] < RamOrigin
    BY <1>3
<1>10. /\ shape.counts["INIT_TEARDOWN"] = 1
       /\ shape.counts["ZERO_WINDOWS"] = Len(shape.windows)
       /\ \A i \in 1..Len(shape.windows) : shape.windows[i] \in 1..advice - 1
    BY <1>1 DEF CheckMemoryWindows
<1>11. shape.counts["ADVICE_WINDOWS"] \in Nat
    BY <1>2, <1>3 DEF WindowFamilies
<1> QED
    BY <1>2, <1>4, <1>5, <1>7, <1>8, <1>9, <1>10, <1>11

\* A shard that covers a word, by its kind.
LEMMA CoverIs ==
    ASSUME ChainInv, at = 0, NEW h, h = shape.heights["INIT_TEARDOWN"],
           NEW advice, advice = AdviceFirstWindow(h), NEW word \in Nat, NEW f, NEW i,
           NEW s, s = [family |-> f, index |-> i]
    PROVE  /\ s \in ShardsOf(shape.counts, ToSet(Families))
                <=> f \in ToSet(Families) /\ i \in 0..shape.counts[f] - 1
           /\ f = "INIT_TEARDOWN" => (Covers(s, word) <=> word \in 0 * h..(0 + 1) * h - 1 /\ word >= RamOrigin)
           /\ f = "ZERO_WINDOWS" =>
                (Covers(s, word) <=> word \in shape.windows[i + 1] * h..(shape.windows[i + 1] + 1) * h - 1)
           /\ f = "ADVICE_WINDOWS" =>
                (Covers(s, word) <=> word \in (advice + i) * h..(advice + i + 1) * h - 1)
           /\ f \in PublicFamilies => (Covers(s, word) <=> word = PublicAt[f])
           /\ Covers(s, word) => f \in {"INIT_TEARDOWN", "ZERO_WINDOWS", "ADVICE_WINDOWS"} \cup PublicFamilies
<1>1. s.family = f /\ s.index = i
    OBVIOUS
<1>2. s \in ShardsOf(shape.counts, ToSet(Families)) <=> f \in ToSet(Families) /\ i \in 0..shape.counts[f] - 1
    <2>1. s \in ShardsOf(shape.counts, ToSet(Families)) <=>
             \E e \in ToSet(Families) : s \in {[family |-> e, index |-> j] : j \in 0..shape.counts[e] - 1}
        BY DEF ShardsOf
    <2>2. \A e : s \in {[family |-> e, index |-> j] : j \in 0..shape.counts[e] - 1}
                    <=> e = f /\ i \in 0..shape.counts[e] - 1
        OBVIOUS
    <2> QED
        BY <2>1, <2>2
<1>3. ASSUME f = "INIT_TEARDOWN"
      PROVE  Covers(s, word) <=> word \in 0 * h..(0 + 1) * h - 1 /\ word >= RamOrigin
    <2>1. ShardWindow(f, i, shape.heights, shape.windows) = 0
        BY <1>3 DEF ShardWindow, PublicFamilies
    <2> QED
        BY <1>1, <1>3, <2>1 DEF Covers, WindowFamilies
<1>4. ASSUME f = "ZERO_WINDOWS"
      PROVE  Covers(s, word) <=> word \in shape.windows[i + 1] * h..(shape.windows[i + 1] + 1) * h - 1
    <2>1. ShardWindow(f, i, shape.heights, shape.windows) = shape.windows[i + 1]
        BY <1>4 DEF ShardWindow, PublicFamilies
    <2>2. shape.heights[f] = h
        BY <1>4, RulesSay DEF WindowFamilies
    <2> QED
        BY <1>1, <1>4, <2>1, <2>2 DEF Covers, WindowFamilies
<1>5. ASSUME f = "ADVICE_WINDOWS"
      PROVE  Covers(s, word) <=> word \in (advice + i) * h..(advice + i + 1) * h - 1
    <2>2. shape.heights[f] = h
        BY <1>5, RulesSay DEF WindowFamilies
    <2>1. ShardWindow(f, i, shape.heights, shape.windows) = advice + i
        BY <1>5, <2>2 DEF ShardWindow, PublicFamilies
    <2> QED
        BY <1>1, <1>5, <2>1, <2>2 DEF Covers, WindowFamilies
<1>6. ASSUME f \in PublicFamilies
      PROVE  Covers(s, word) <=> word = PublicAt[f]
    <2>1. shape.heights[f] = 1 /\ PublicAt[f] \in Nat
        BY <1>6, RulesSay
    <2>2. ShardWindow(f, i, shape.heights, shape.windows) = PublicAt[f] /\ f # "INIT_TEARDOWN"
        BY <1>6 DEF ShardWindow, PublicFamilies
    <2> DEFINE w == PublicAt[f]
    <2>3. Covers(s, word) <=> word \in w * 1..(w + 1) * 1 - 1
        BY <1>1, <1>6, <2>1, <2>2 DEF Covers
    <2>4. w \in Nat
        BY <2>1
    <2> HIDE DEF w
    <2>8. Covers(s, word) <=> word = w
        BY <2>3, <2>4, OneWord
    <2> QED
        BY <2>8 DEF w
<1>7. Covers(s, word) => f \in {"INIT_TEARDOWN", "ZERO_WINDOWS", "ADVICE_WINDOWS"} \cup PublicFamilies
    BY <1>1 DEF Covers, WindowFamilies
<1> QED
    BY <1>2, <1>3, <1>4, <1>5, <1>6, <1>7

\* No two shards cover a word.
LEMMA OneCovers ==
    ASSUME ChainInv, at = 0, NEW word \in Nat,
           NEW s \in ShardsOf(shape.counts, ToSet(Families)), Covers(s, word),
           NEW t \in ShardsOf(shape.counts, ToSet(Families)), Covers(t, word)
    PROVE  s = t
<1> DEFINE h == shape.heights["INIT_TEARDOWN"]
           advice == AdviceFirstWindow(h)
           kinds == {"INIT_TEARDOWN", "ZERO_WINDOWS", "ADVICE_WINDOWS"}
           Window(r) == IF r.family = "INIT_TEARDOWN" THEN 0
                        ELSE IF r.family = "ZERO_WINDOWS" THEN shape.windows[r.index + 1]
                        ELSE advice + r.index
<1>1. /\ h \in Nat \ {0} /\ advice \in Nat \ {0}
      /\ \A f \in PublicFamilies : PublicAt[f] \in Nat /\ PublicAt[f] < h /\ PublicAt[f] < RamOrigin
                                    /\ shape.counts[f] = 1
      /\ shape.counts["INIT_TEARDOWN"] = 1
      /\ shape.counts["ZERO_WINDOWS"] = Len(shape.windows)
      /\ shape.counts["ADVICE_WINDOWS"] \in Nat
      /\ Distinct(shape.windows)
      /\ \A i \in 1..Len(shape.windows) : shape.windows[i] \in 1..advice - 1
    BY RulesSay
<1>2. ASSUME NEW r \in ShardsOf(shape.counts, ToSet(Families)), Covers(r, word)
      PROVE  /\ r = [family |-> r.family, index |-> r.index] /\ r.index \in 0..shape.counts[r.family] - 1
             /\ \/ r.family \in kinds /\ Window(r) \in Nat
                   /\ word \in Window(r) * h..(Window(r) + 1) * h - 1
                   /\ (r.family = "INIT_TEARDOWN" => word >= RamOrigin)
                \/ r.family \in PublicFamilies /\ word = PublicAt[r.family]
    <2>1. r = [family |-> r.family, index |-> r.index]
        BY <1>2 DEF ShardsOf
    <2> DEFINE f == r.family
               i == r.index
    <2>2. r = [family |-> f, index |-> i]
        BY <2>1
    <2> HIDE DEF f, i, h, advice
    <2>3. /\ r \in ShardsOf(shape.counts, ToSet(Families))
                <=> f \in ToSet(Families) /\ i \in 0..shape.counts[f] - 1
          /\ f = "INIT_TEARDOWN" => (Covers(r, word) <=> word \in 0 * h..(0 + 1) * h - 1 /\ word >= RamOrigin)
          /\ f = "ZERO_WINDOWS" =>
               (Covers(r, word) <=> word \in shape.windows[i + 1] * h..(shape.windows[i + 1] + 1) * h - 1)
          /\ f = "ADVICE_WINDOWS" =>
               (Covers(r, word) <=> word \in (advice + i) * h..(advice + i + 1) * h - 1)
          /\ f \in PublicFamilies => (Covers(r, word) <=> word = PublicAt[f])
          /\ Covers(r, word) => f \in {"INIT_TEARDOWN", "ZERO_WINDOWS", "ADVICE_WINDOWS"} \cup PublicFamilies
        BY <2>2, CoverIs DEF h, advice
    <2>4. i \in 0..shape.counts[f] - 1 /\ f \in kinds \cup PublicFamilies
        BY <1>2, <2>3
    <2>5. CASE f = "INIT_TEARDOWN"
        <3>1. Window(r) = 0 /\ f \in kinds
            BY <2>5 DEF f
        <3> HIDE DEF Window, kinds
        <3> QED
            BY <1>2, <2>1, <2>3, <2>4, <2>5, <3>1 DEF f, i
    <2>6. CASE f = "ZERO_WINDOWS"
        <3>1. Window(r) = shape.windows[i + 1] /\ f \in kinds
            BY <2>6 DEF f, i
        <3>2. i + 1 \in 1..Len(shape.windows)
            BY <1>1, <2>4, <2>6
        <3>3. Window(r) \in Nat
            BY <1>1, <3>1, <3>2
        <3> HIDE DEF Window, kinds
        <3> QED
            BY <1>2, <2>1, <2>3, <2>4, <2>6, <3>1, <3>3 DEF f, i
    <2>7. CASE f = "ADVICE_WINDOWS"
        <3>1. Window(r) = advice + i /\ f \in kinds
            BY <2>7 DEF f, i
        <3>3. Window(r) \in Nat
            BY <1>1, <2>4, <3>1 DEF advice, h
        <3> HIDE DEF Window, kinds
        <3> QED
            BY <1>2, <2>1, <2>3, <2>4, <2>7, <3>1, <3>3 DEF f, i
    <2>8. CASE f \in PublicFamilies
        BY <1>2, <2>1, <2>3, <2>4, <2>8 DEF f, i
    <2> QED
        BY <2>4, <2>5, <2>6, <2>7, <2>8
<1> HIDE DEF Window, h, advice
\* A window of the grid and a public window do not meet.
<1>3. ASSUME NEW r \in ShardsOf(shape.counts, ToSet(Families)), Covers(r, word), r.family \in kinds,
             NEW f \in PublicFamilies, word = PublicAt[f]
      PROVE  FALSE
    <2>1. word < h /\ word < RamOrigin
        BY <1>1, <1>3
    <2>0. /\ Window(r) \in Nat /\ word \in Window(r) * h..(Window(r) + 1) * h - 1
          /\ (r.family = "INIT_TEARDOWN" => word >= RamOrigin)
          /\ r.index \in 0..shape.counts[r.family] - 1
        <3>1. r.family \notin PublicFamilies
            BY <1>3 DEF PublicFamilies
        <3> HIDE DEF kinds
        <3> QED
            BY <1>2, <1>3, <3>1
    <2>2. Window(r) = 0
        <3> SUFFICES ASSUME Window(r) > 0 PROVE FALSE
            BY <2>0
        <3> DEFINE w == Window(r)
        <3>1. PICK d \in Nat : w = d + 1
            <4>1. w - 1 \in Nat /\ w = w - 1 + 1
                BY <2>0
            <4> QED
                BY <4>1
        <3>2. w * h = d * h + h /\ d * h \in Nat
            BY <1>1, <3>1
        <3>3. word >= w * h /\ word \in Nat
            BY <2>0
        <3> HIDE DEF w
        <3> DEFINE up == w * h
                   low == d * h
        <3>4. up = low + h /\ low \in Nat /\ word >= up /\ word \in Nat
            BY <3>2, <3>3
        <3> HIDE DEF up, low
        <3>5. h \in Nat /\ word < h
            BY <1>1, <2>1
        <3> QED
            BY <3>4, <3>5
    <2>3. r.family = "INIT_TEARDOWN"
        <3>1. r.family = "ZERO_WINDOWS" => FALSE
            <4> SUFFICES ASSUME r.family = "ZERO_WINDOWS" PROVE FALSE
                OBVIOUS
            <4>1. Window(r) = shape.windows[r.index + 1]
                BY DEF Window
            <4>2. r.index + 1 \in 1..Len(shape.windows)
                BY <1>1, <2>0
            <4> QED
                BY <1>1, <2>2, <4>1, <4>2
        <3>2. r.family = "ADVICE_WINDOWS" => FALSE
            <4> SUFFICES ASSUME r.family = "ADVICE_WINDOWS" PROVE FALSE
                OBVIOUS
            <4>1. Window(r) = advice + r.index /\ r.index \in Nat
                BY <1>1, <2>0 DEF Window
            <4> QED
                BY <1>1, <2>2, <4>1
        <3> QED
            BY <1>3, <3>1, <3>2
    <2>4. RamOrigin \in Nat
        BY StatementAssumption
    <2> QED
        BY <2>0, <2>1, <2>3, <2>4
<1>4. CASE s.family \in PublicFamilies /\ t.family \in PublicFamilies
    <2>1. word = PublicAt[s.family] /\ word = PublicAt[t.family]
        <3>1. s.family \notin kinds /\ t.family \notin kinds
            BY <1>4 DEF PublicFamilies
        <3> HIDE DEF kinds
        <3> QED
            BY <1>2, <3>1
    <2>2. s.family = t.family
        BY <1>4, <2>1, StatementAssumption DEF PublicFamilies
    <2>3. s.index = 0 /\ t.index = 0
        <3>1. s.index \in 0..shape.counts[s.family] - 1 /\ t.index \in 0..shape.counts[t.family] - 1
            BY <1>2
        <3> QED
            BY <1>1, <1>4, <3>1
    <2> QED
        BY <1>2, <2>2, <2>3
<1>5. CASE s.family \in kinds /\ t.family \in kinds
    <2>1. /\ Window(s) \in Nat /\ word \in Window(s) * h..(Window(s) + 1) * h - 1
          /\ Window(t) \in Nat /\ word \in Window(t) * h..(Window(t) + 1) * h - 1
        <3>1. s.family \notin PublicFamilies /\ t.family \notin PublicFamilies
            BY <1>5 DEF PublicFamilies
        <3> HIDE DEF kinds
        <3> QED
            BY <1>2, <3>1
    <2>2. Window(s) = Window(t)
        BY <1>1, <2>1, QuotientIs
    <2>3. ASSUME NEW r \in {s, t}
          PROVE  /\ r.index \in 0..shape.counts[r.family] - 1
                 /\ \/ r.family = "INIT_TEARDOWN" /\ Window(r) = 0 /\ r.index = 0
                    \/ /\ r.family = "ZERO_WINDOWS" /\ r.index + 1 \in 1..Len(shape.windows)
                       /\ Window(r) = shape.windows[r.index + 1] /\ Window(r) \in 1..advice - 1
                    \/ r.family = "ADVICE_WINDOWS" /\ Window(r) = advice + r.index /\ r.index \in Nat
        <3>0. r.family \in kinds
            BY <1>5
        <3>1. r.index \in 0..shape.counts[r.family] - 1
            BY <1>2
        <3>2. CASE r.family = "INIT_TEARDOWN"
            BY <1>1, <3>1, <3>2 DEF Window
        <3>3. CASE r.family = "ZERO_WINDOWS"
            <4>1. r.index + 1 \in 1..Len(shape.windows)
                BY <1>1, <3>1, <3>3
            <4>2. Window(r) = shape.windows[r.index + 1]
                BY <3>3 DEF Window
            <4> QED
                BY <1>1, <3>1, <3>3, <4>1, <4>2
        <3>4. CASE r.family = "ADVICE_WINDOWS"
            BY <1>1, <3>1, <3>4 DEF Window
        <3> QED
            BY <3>0, <3>2, <3>3, <3>4
    <2>4. s.family = t.family
        BY <1>1, <2>2, <2>3
    <2>41. /\ s.family = "INIT_TEARDOWN" => s.index = 0 /\ t.index = 0
           /\ s.family = "ZERO_WINDOWS" =>
                 /\ s.index + 1 \in 1..Len(shape.windows) /\ t.index + 1 \in 1..Len(shape.windows)
                 /\ Window(s) = shape.windows[s.index + 1] /\ Window(t) = shape.windows[t.index + 1]
                 /\ s.index \in Int /\ t.index \in Int
           /\ s.family = "ADVICE_WINDOWS" =>
                 /\ Window(s) = advice + s.index /\ s.index \in Nat
                 /\ Window(t) = advice + t.index /\ t.index \in Nat
        <3>1. s \in {s, t} /\ t \in {s, t}
            OBVIOUS
        <3>2. ASSUME NEW r \in {s, t}
              PROVE  /\ r.family = "INIT_TEARDOWN" => r.index = 0
                     /\ r.family = "ZERO_WINDOWS" =>
                           /\ r.index + 1 \in 1..Len(shape.windows)
                           /\ Window(r) = shape.windows[r.index + 1] /\ r.index \in Int
                     /\ r.family = "ADVICE_WINDOWS" => Window(r) = advice + r.index /\ r.index \in Nat
            BY <2>3
        <3> QED
            BY <2>4, <3>1, <3>2
    <2>5. s.index = t.index
        <3>1. CASE s.family = "INIT_TEARDOWN"
            BY <2>41, <3>1
        <3>2. CASE s.family = "ZERO_WINDOWS"
            <4>1. /\ s.index + 1 \in 1..Len(shape.windows) /\ t.index + 1 \in 1..Len(shape.windows)
                  /\ shape.windows[s.index + 1] = shape.windows[t.index + 1]
                BY <2>2, <2>41, <3>2
            <4>2. s.index + 1 = t.index + 1
                BY <1>1, <4>1 DEF Distinct
            <4>3. s.index \in Int /\ t.index \in Int
                BY <2>41, <3>2
            <4> QED
                BY <4>2, <4>3
        <3>3. CASE s.family = "ADVICE_WINDOWS"
            <4>1. advice + s.index = advice + t.index /\ s.index \in Nat /\ t.index \in Nat
                BY <2>2, <2>41, <3>3
            <4> QED
                BY <1>1, <4>1
        <3> QED
            BY <1>5, <3>1, <3>2, <3>3
    <2> QED
        BY <1>2, <2>4, <2>5
<1>6. /\ s.family \in kinds \/ (s.family \in PublicFamilies /\ word = PublicAt[s.family])
      /\ t.family \in kinds \/ (t.family \in PublicFamilies /\ word = PublicAt[t.family])
    <2> HIDE DEF kinds
    <2>1. s.family \in kinds \/ (s.family \in PublicFamilies /\ word = PublicAt[s.family])
        BY <1>2
    <2>2. t.family \in kinds \/ (t.family \in PublicFamilies /\ word = PublicAt[t.family])
        BY <1>2
    <2> QED
        BY <2>1, <2>2
<1> HIDE DEF kinds
<1> QED
    BY <1>3, <1>4, <1>5, <1>6

\* A word that is listed is covered.
LEMMA ListedIsCovered ==
    ASSUME ChainInv, at = 0, NEW word \in Nat, Listed(word)
    PROVE  \E s \in ShardsOf(shape.counts, ToSet(Families)) : Covers(s, word)
<1> DEFINE h == shape.heights["INIT_TEARDOWN"]
           advice == AdviceFirstWindow(h)
<1>1. /\ h \in Nat \ {0} /\ advice \in Nat \ {0}
      /\ \A f \in PublicFamilies : shape.counts[f] = 1
      /\ shape.counts["INIT_TEARDOWN"] = 1
      /\ shape.counts["ZERO_WINDOWS"] = Len(shape.windows) /\ Len(shape.windows) \in Nat
      /\ shape.counts["ADVICE_WINDOWS"] \in Nat
    BY RulesSay
<1>2. \A f \in WindowFamilies \cup PublicFamilies : f \in ToSet(Families)
    BY StatementAssumption
<1>3. \/ word \in RamOrigin..h - 1
      \/ \E f \in PublicFamilies : word = PublicAt[f]
      \/ \E i \in 1..Len(shape.windows) : word \div h = shape.windows[i]
      \/ word \div h \in advice..advice + shape.counts["ADVICE_WINDOWS"] - 1
    BY DEF Listed
<1>4. word \div h \in Nat /\ word \in (word \div h) * h..((word \div h) + 1) * h - 1
    BY <1>1, QuotientHolds
<1>5. CASE word \in RamOrigin..h - 1
    <2> DEFINE s == [family |-> "INIT_TEARDOWN", index |-> 0]
    <2>1. "INIT_TEARDOWN" \in ToSet(Families) /\ 0 \in 0..shape.counts["INIT_TEARDOWN"] - 1
        BY <1>1, <1>2 DEF WindowFamilies
    <2>2. word \in 0 * h..(0 + 1) * h - 1 /\ word >= RamOrigin
        <3>1. 0 * h = 0 /\ (0 + 1) * h = h
            BY <1>1
        <3>2. 0 * h..(0 + 1) * h - 1 = 0..h - 1
            BY <3>1
        <3>3. RamOrigin \in Nat
            BY StatementAssumption
        <3>4. word \in 0..h - 1 /\ word >= RamOrigin
            BY <1>1, <1>5, <3>3
        <3> QED
            BY <3>2, <3>4
    <2>3. s \in ShardsOf(shape.counts, ToSet(Families))
        BY <2>1, CoverIs
    <2>4. Covers(s, word)
        BY <2>2, CoverIs
    <2> QED
        BY <2>3, <2>4
<1>6. CASE \E f \in PublicFamilies : word = PublicAt[f]
    <2>1. PICK f \in PublicFamilies : word = PublicAt[f]
        BY <1>6
    <2>2. f \in ToSet(Families) /\ 0 \in 0..shape.counts[f] - 1
        BY <1>1, <1>2
    <2> DEFINE s == [family |-> f, index |-> 0]
    <2>3. s \in ShardsOf(shape.counts, ToSet(Families)) /\ Covers(s, word)
        BY <2>1, <2>2, CoverIs
    <2> QED
        BY <2>3
<1>7. CASE \E i \in 1..Len(shape.windows) : word \div h = shape.windows[i]
    <2>1. PICK i \in 1..Len(shape.windows) : word \div h = shape.windows[i]
        BY <1>7
    <2> DEFINE s == [family |-> "ZERO_WINDOWS", index |-> i - 1]
    <2>2. "ZERO_WINDOWS" \in ToSet(Families) /\ i - 1 \in 0..shape.counts["ZERO_WINDOWS"] - 1 /\ i - 1 + 1 = i
        BY <1>1, <1>2 DEF WindowFamilies
    <2>3. word \in shape.windows[i] * h..(shape.windows[i] + 1) * h - 1
        BY <1>4, <2>1
    <2>4. word \in shape.windows[i - 1 + 1] * h..(shape.windows[i - 1 + 1] + 1) * h - 1
        BY <2>2, <2>3
    <2>5. s \in ShardsOf(shape.counts, ToSet(Families)) /\ Covers(s, word)
        BY <2>2, <2>4, CoverIs
    <2> QED
        BY <2>5
<1>8. CASE word \div h \in advice..advice + shape.counts["ADVICE_WINDOWS"] - 1
    <2> DEFINE i == (word \div h) - advice
               s == [family |-> "ADVICE_WINDOWS", index |-> i]
    <2>1. i \in 0..shape.counts["ADVICE_WINDOWS"] - 1 /\ advice + i = word \div h
        <3> DEFINE q == word \div h
                   c == shape.counts["ADVICE_WINDOWS"]
        <3>1. q \in Nat /\ q \in advice..advice + c - 1 /\ advice \in Nat /\ c \in Nat
            BY <1>1, <1>4, <1>8
        <3> HIDE DEF q, c, advice
        <3>2. q - advice \in 0..c - 1 /\ advice + (q - advice) = q
            BY <3>1
        <3> QED
            BY <3>2 DEF q, c
    <2>2. "ADVICE_WINDOWS" \in ToSet(Families)
        BY <1>2 DEF WindowFamilies
    <2>3. word \in (advice + i) * h..(advice + i + 1) * h - 1
        BY <1>4, <2>1
    <2> HIDE DEF i
    <2>4. s \in ShardsOf(shape.counts, ToSet(Families)) /\ Covers(s, word)
        BY <2>1, <2>2, <2>3, CoverIs
    <2> QED
        BY <2>4
<1> QED
    BY <1>3, <1>5, <1>6, <1>7, <1>8

\* A shape `check_memory_windows` accepts gives no word two initial rows, and one
\* to every word of a window it lists.
THEOREM OneInitRow == ChainSpec => []WordsHaveOneInitRow
<1>1. ChainInv => WordsHaveOneInitRow
    <2> SUFFICES ASSUME ChainInv, at = 0, NEW word \in 0..RamEnd - 1
                 PROVE  InitRows(word) <= 1 /\ (Listed(word) => InitRows(word) = 1)
        BY DEF WordsHaveOneInitRow
    <2>0. word \in Nat
        BY StatementAssumption
    <2> DEFINE rows == {s \in ShardsOf(shape.counts, ToSet(Families)) : Covers(s, word)}
    <2>1. \A s, t \in rows : s = t
        BY <2>0, OneCovers
    <2>2. InitRows(word) = Cardinality(rows)
        BY DEF InitRows
    <2>3. Listed(word) => rows # {}
        BY <2>0, ListedIsCovered
    <2> HIDE DEF rows
    <2>4. CASE rows = {}
        <3>1. Cardinality(rows) = 0
            BY <2>4, FS_EmptySet
        <3> QED
            BY <2>2, <2>3, <2>4, <3>1
    <2>5. CASE rows # {}
        <3>1. PICK s \in rows : TRUE
            BY <2>5
        <3>2. rows = {s}
            BY <2>1, <3>1
        <3>3. Cardinality(rows) = 1
            BY <3>2, FS_Singleton
        <3> QED
            BY <2>2, <3>3
    <2> QED
        BY <2>4, <2>5
<1> QED
    BY <1>1, ChainInvariance, PTL

-----------------------------------------------------------------------------
\* The shards that fail in this pass, and the place of the k-th chunk.
Bad == IF pass = 1 THEN execution.unfillable ELSE execution.unfillable \cup execution.uncountable
At(k) == Position(Chunk(k))
NoChunkFails == \A k \in 1..ChunkCount : At(k) \notin Bad

\* A result is of what a single worker would have met.
ResultOK ==
    /\ result = Done => ~execution.traps /\ NoChunkFails
    /\ result \notin {Running, Done} =>
         \/ \E k \in 1..ChunkCount :
              /\ result = [at |-> k - 1, by |-> "work"]
              /\ At(k) \in Bad /\ \A j \in 1..k - 1 : At(j) \notin Bad
         \/ result = [at |-> ChunkCount, by |-> "executor"] /\ execution.traps /\ NoChunkFails

PassInv ==
    /\ filled \in 0..ChunkCount
    /\ outcome \in Seq({"working", "ok", "err"}) /\ Len(outcome) <= filled
    /\ \A k \in 1..Len(outcome) :
          outcome[k] # "working" => outcome[k] = IF At(k) \in Bad THEN "err" ELSE "ok"
    /\ source \in {"running", "exited", "failed"}
    /\ source = "exited" => ~execution.traps /\ filled = ChunkCount
    /\ source = "failed" => execution.traps /\ filled = ChunkCount /\ Len(outcome) = ChunkCount
    /\ ResultOK

StreamInv ==
    /\ execution \in Executions /\ pass \in 0..2
    /\ pass # 0 => PassInv
    /\ pass = 2 => /\ FirstFailure(execution.unfillable)[1] = "none"
                   /\ committed = execution.lists /\ global = GlobalOf(execution.lists)
    /\ StreamedAnswersAreTheExecutions

-----------------------------------------------------------------------------
(* An execution, its statement and its chunks *)

LEMMA StatementOf ==
    ASSUME execution \in Executions
    PROVE  /\ Order = StatementShards(execution.counts)
           /\ Total(execution.counts) \in Nat
           /\ DOMAIN Order = 1..Total(execution.counts)
           /\ \A p, q \in DOMAIN Order : Order[p] = Order[q] => p = q
           /\ execution.fills \in Seq(ToSet(Families))
           /\ ChunkCount \in Nat
           /\ \A k \in 1..ChunkCount : Chunk(k) \in ToSet(Order)
           /\ \A p \in DOMAIN Order : Order[p].family \in ToSet(execution.fills) =>
                  \E k \in 1..ChunkCount : Chunk(k) = Order[p]
           /\ execution.traps \in BOOLEAN
           /\ execution.unfillable \cup execution.uncountable \subseteq DOMAIN Order
<1>1. Order = StatementShards(execution.counts)
    BY DEF Order, Orders
<1>2. LET order == StatementShards(execution.counts)
          n == Total(execution.counts)
      IN  /\ n \in Nat /\ DOMAIN order = 1..n /\ IsInjective(order)
          /\ FillsThePlan(execution, order)
          /\ execution.traps \in BOOLEAN
          /\ execution.unfillable \cup execution.uncountable \subseteq 1..n
    BY ExecutionsAssumption
<1>3. /\ execution.fills \in Seq(ToSet(Families))
      /\ \A k \in 1..ChunkCount : Chunk(k) \in ToSet(Order)
      /\ \A p \in DOMAIN Order : Order[p].family \in ToSet(execution.fills) =>
             \E k \in 1..ChunkCount : Chunk(k) = Order[p]
    BY <1>1, <1>2 DEF FillsThePlan, Chunk, ChunkCount
<1>4. ChunkCount \in Nat
    BY <1>3 DEF ChunkCount
<1>5. \A p, q \in DOMAIN Order : Order[p] = Order[q] => p = q
    BY <1>1, <1>2 DEF IsInjective
<1> QED
    BY <1>1, <1>2, <1>3, <1>4, <1>5

\* A shard of the statement has one place.
LEMMA PlaceOf ==
    ASSUME execution \in Executions, NEW p \in DOMAIN Order
    PROVE  Position(Order[p]) = p
BY StatementOf DEF Position

LEMMA PlaceOfChunk ==
    ASSUME execution \in Executions, NEW k \in 1..ChunkCount
    PROVE  At(k) \in DOMAIN Order /\ Order[At(k)] = Chunk(k)
<1>1. PICK p \in DOMAIN Order : Chunk(k) = Order[p]
    BY StatementOf DEF ToSet
<1> QED
    BY <1>1, PlaceOf DEF At

\* No two chunks are one shard: a family's are numbered in the order they fill.
LEMMA ChunksDiffer ==
    ASSUME execution \in Executions, NEW j \in 1..ChunkCount, NEW k \in 1..ChunkCount,
           Chunk(j) = Chunk(k)
    PROVE  j = k
<1> DEFINE f == execution.fills
           before(i) == {x \in 1..i - 1 : f[x] = f[i]}
<1>0. ChunkCount \in Nat
    BY StatementOf
<1>1. \A i \in 1..ChunkCount :
          Chunk(i).family = f[i] /\ Chunk(i).index = Cardinality(before(i))
    BY DEF Chunk, ChunkOf
<1>2. f[j] = f[k] /\ Cardinality(before(j)) = Cardinality(before(k))
    BY <1>1
<1>3. ASSUME NEW x \in 1..ChunkCount, NEW y \in 1..ChunkCount, x < y, f[x] = f[y],
             Cardinality(before(x)) = Cardinality(before(y))
      PROVE  FALSE
    <2>1. x \in Nat /\ y \in Nat /\ 1 \in Int /\ y - 1 \in Int
        BY <1>0
    <2>2. IsFiniteSet(1..y - 1)
        BY <2>1, FS_Interval
    <2>3. before(y) \subseteq 1..y - 1
        OBVIOUS
    <2>4. IsFiniteSet(before(y))
        BY <2>2, <2>3, FS_Subset
    <2>5. before(x) \subseteq before(y)
        BY <1>3, <2>1
    <2>6. x \in before(y) /\ x \notin before(x)
        BY <1>3, <2>1
    <2> HIDE DEF before
    <2>7. before(x) = before(y)
        BY <1>3, <2>4, <2>5, FS_Subset
    <2> QED
        BY <2>6, <2>7
<1>4. ~(j < k) /\ ~(k < j)
    BY <1>2, <1>3
<1> QED
    BY <1>0, <1>4

LEMMA WorksMeans ==
    ASSUME pass \in {1, 2}, NEW p
    PROVE  Works(p) <=> p \notin Bad
BY DEF Works, Bad

-----------------------------------------------------------------------------
(* A pass *)

\* The places and the failures are the execution's and the pass's.
LEMMA SamePass ==
    ASSUME UNCHANGED <<execution, pass>>
    PROVE  /\ Bad' = Bad /\ ChunkCount' = ChunkCount /\ \A k : At(k)' = At(k)
           /\ NoChunkFails' <=> NoChunkFails
BY DEF Bad, ChunkCount, At, Position, Order, Chunk, ChunkOf, NoChunkFails

LEMMA PassBegins ==
    ASSUME execution \in Executions, filled = 0, outcome = <<>>, source = "running",
           result = Running
    PROVE  PassInv
<1>1. ChunkCount \in Nat
    BY StatementOf
<1>2. outcome \in Seq({"working", "ok", "err"}) /\ Len(outcome) = 0
    OBVIOUS
<1> QED
    BY <1>1, <1>2, ResultAssumption DEF PassInv, ResultOK

LEMMA PassBeginsNext ==
    (execution \in Executions /\ filled = 0 /\ outcome = <<>> /\ source = "running"
     /\ result = Running)' => PassInv'
<1>1. (execution \in Executions /\ filled = 0 /\ outcome = <<>> /\ source = "running"
       /\ result = Running) => PassInv
    BY PassBegins
<1> QED
    BY <1>1, PTL

LEMMA FillChunksKeeps ==
    ASSUME execution \in Executions, PassInv, FillChunks, UNCHANGED <<execution, pass>>
    PROVE  PassInv'
<1>0. /\ filled' \in filled + 1..ChunkCount /\ source = "running"
      /\ UNCHANGED <<outcome, source, stopped, result>>
    BY DEF FillChunks, Queue!Fill, Queue!Demanded
<1>1. /\ filled \in 0..ChunkCount /\ ChunkCount \in Nat /\ Len(outcome) <= filled
      /\ outcome \in Seq({"working", "ok", "err"})
    BY StatementOf DEF PassInv
<1>2. filled' \in 0..ChunkCount /\ Len(outcome) <= filled'
    <2>1. Len(outcome) \in Nat
        BY <1>1
    <2> QED
        BY <2>1, <1>0, <1>1
<1>3. ResultOK'
    BY <1>0, SamePass DEF PassInv, ResultOK
<1> QED
    BY <1>0, <1>2, <1>3, SamePass DEF PassInv

LEMMA EndExecutionKeeps ==
    ASSUME execution \in Executions, PassInv, EndExecution, UNCHANGED <<execution, pass>>
    PROVE  PassInv'
<1>0. /\ UNCHANGED <<outcome, result>> /\ Len(outcome) = filled
      /\ IF execution.traps THEN filled = ChunkCount /\ filled' = filled /\ source' = "failed"
         ELSE filled' = ChunkCount /\ filled' >= filled /\ source' = "exited"
    BY DEF EndExecution, Queue!Break, Queue!Exit, Queue!Demanded
<1>1. /\ filled \in 0..ChunkCount /\ ChunkCount \in Nat
      /\ execution.traps \in BOOLEAN
    BY StatementOf DEF PassInv
<1>2. ResultOK'
    BY <1>0, SamePass DEF PassInv, ResultOK
<1>3. filled' \in 0..ChunkCount /\ Len(outcome) <= filled'
    BY <1>0, <1>1
<1> QED
    BY <1>0, <1>1, <1>2, <1>3, SamePass DEF PassInv

LEMMA WorkChunkKeeps ==
    ASSUME execution \in Executions, pass \in {1, 2}, PassInv, WorkChunk,
           UNCHANGED <<execution, pass>>
    PROVE  PassInv'
<1>0. PICK k \in Queue!Unfinished :
          outcome' = [outcome EXCEPT ![k] = IF Works(Position(Chunk(k))) THEN "ok" ELSE "err"]
    BY DEF WorkChunk
<1>1. UNCHANGED <<filled, source, stopped, result>>
    BY DEF WorkChunk, Queue!Conclude
<1>2. k \in 1..Len(outcome) /\ outcome[k] = "working"
    BY DEF Queue!Unfinished
<1>3. outcome \in Seq({"working", "ok", "err"})
    BY DEF PassInv
<1>4. /\ outcome' \in Seq({"working", "ok", "err"}) /\ Len(outcome') = Len(outcome)
      /\ \A i \in 1..Len(outcome) :
            outcome'[i] = IF i = k THEN IF Works(At(k)) THEN "ok" ELSE "err" ELSE outcome[i]
    BY <1>0, <1>2, <1>3 DEF At
<1>5. \A i \in 1..Len(outcome') :
          outcome'[i] # "working" => outcome'[i] = IF At(i) \in Bad THEN "err" ELSE "ok"
    BY <1>4, WorksMeans DEF PassInv
<1>6. ResultOK'
    BY <1>1, SamePass DEF PassInv, ResultOK
<1> QED
    BY <1>1, <1>4, <1>5, <1>6, SamePass DEF PassInv

LEMMA BeginKeeps ==
    ASSUME execution \in Executions, PassInv, Queue!Begin, UNCHANGED <<execution, pass>>
    PROVE  PassInv'
<1>0. /\ Len(outcome) < filled /\ outcome' = Append(outcome, "working")
      /\ UNCHANGED <<filled, source, stopped, result>>
    BY DEF Queue!Begin
<1>1. outcome \in Seq({"working", "ok", "err"}) /\ filled \in 0..ChunkCount /\ ChunkCount \in Nat
    BY StatementOf DEF PassInv
<1>2. /\ outcome' \in Seq({"working", "ok", "err"}) /\ Len(outcome') = Len(outcome) + 1
      /\ Len(outcome) \in Nat /\ outcome'[Len(outcome) + 1] = "working"
      /\ \A i \in 1..Len(outcome) : outcome'[i] = outcome[i]
    BY <1>0, <1>1
<1>3. \A i \in 1..Len(outcome') :
          outcome'[i] # "working" => outcome'[i] = IF At(i) \in Bad THEN "err" ELSE "ok"
    <2> TAKE i \in 1..Len(outcome')
    <2>1. i \in 1..Len(outcome) \/ i = Len(outcome) + 1
        BY <1>2
    <2> QED
        BY <2>1, <1>2 DEF PassInv
<1>4. Len(outcome') <= filled'
    BY <1>0, <1>1, <1>2
<1>5. ResultOK'
    BY <1>0, SamePass DEF PassInv, ResultOK
<1>6. source # "failed"
    BY <1>0, <1>1, <1>2 DEF PassInv
<1> QED
    BY <1>0, <1>2, <1>3, <1>4, <1>5, <1>6, SamePass DEF PassInv

LEMMA StopBeginningKeeps ==
    ASSUME execution \in Executions, PassInv, Queue!StopBeginning, UNCHANGED <<execution, pass>>
    PROVE  PassInv'
<1>0. UNCHANGED <<filled, outcome, source, result>>
    BY DEF Queue!StopBeginning
<1>1. ResultOK'
    BY <1>0, SamePass DEF PassInv, ResultOK
<1> QED
    BY <1>0, <1>1, SamePass DEF PassInv

\* The result is told when nothing is unfinished: every chunk begun has passed or
\* failed, and they were begun in order.
LEMMA TellKeeps ==
    ASSUME execution \in Executions, PassInv, Queue!Tell, UNCHANGED <<execution, pass>>
    PROVE  PassInv'
<1> DEFINE m == Len(outcome)
<1>0. /\ Queue!Unfinished = {} /\ result = Running
      /\ UNCHANGED <<filled, outcome, source, stopped>>
    BY DEF Queue!Tell
<1>1. /\ outcome \in Seq({"working", "ok", "err"}) /\ m \in Nat
      /\ filled \in 0..ChunkCount /\ ChunkCount \in Nat /\ m <= filled
      /\ source \in {"running", "exited", "failed"}
      /\ source = "exited" => ~execution.traps /\ filled = ChunkCount
      /\ source = "failed" => execution.traps /\ filled = ChunkCount /\ m = ChunkCount
    BY StatementOf DEF PassInv
<1>2. \A i \in 1..m : outcome[i] \in {"ok", "err"}
    <2> TAKE i \in 1..m
    <2>1. outcome[i] \in {"working", "ok", "err"}
        BY <1>1, ElementOfSeq
    <2>2. outcome[i] # "working"
        BY <1>0 DEF Queue!Unfinished
    <2> QED
        BY <2>1, <2>2
<1>3. \A i \in 1..m : outcome[i] = "err" <=> At(i) \in Bad
    BY <1>2 DEF PassInv
<1>4. ~Queue!Wrong("panicked") /\ source # "panicked"
    BY <1>1, <1>2 DEF Queue!Wrong
<1> HIDE DEF m
<1>5. ResultOK'
    <2>1. CASE Queue!Wrong("err")
        <3>1. PICK k \in 1..m : /\ outcome[k] = "err" /\ \A j \in 1..k - 1 : outcome[j] = "ok"
                                /\ result' = [at |-> k - 1, by |-> "work"]
            BY <2>1, <1>4 DEF Queue!Tell, m
        <3>2. k \in 1..ChunkCount /\ \A j \in 1..k - 1 : j \in 1..m
            BY <1>1
        <3>3. At(k) \in Bad /\ \A j \in 1..k - 1 : At(j) \notin Bad
            BY <1>2, <1>3, <3>1, <3>2
        <3>4. k - 1 \in 0..ChunkCount
            BY <3>2, <1>1
        <3>5. result' # Done /\ result' # Running
            BY <3>1, <3>4, ResultAssumption DEF ChunkCount
        <3> QED
            BY <3>1, <3>2, <3>3, <3>5, SamePass DEF ResultOK
    <2>2. CASE ~Queue!Wrong("err")
        <3>1. \A i \in 1..m : At(i) \notin Bad
            BY <2>2, <1>2, <1>3 DEF Queue!Wrong, m
        <3>2. CASE source = "failed"
            <4>1. result' = [at |-> ChunkCount, by |-> "executor"]
                BY <3>2, <2>2, <1>1, <1>4 DEF Queue!Tell
            <4>2. NoChunkFails
                BY <3>1, <3>2, <1>1 DEF NoChunkFails
            <4>3. ChunkCount \in 0..ChunkCount
                BY <1>1
            <4>4. result' # Done /\ result' # Running
                BY <4>1, <4>3, ResultAssumption DEF ChunkCount
            <4> QED
                BY <4>1, <4>2, <4>4, <3>2, <1>1, SamePass DEF ResultOK
        <3>3. CASE source # "failed"
            <4>1. source = "exited" /\ m = filled /\ result' = Done
                BY <3>3, <2>2, <1>4 DEF Queue!Tell, m
            <4>2. NoChunkFails
                BY <4>1, <3>1, <1>1 DEF NoChunkFails
            <4> QED
                BY <4>1, <4>2, <1>1, SamePass DEF ResultOK
        <3> QED
            BY <3>2, <3>3
    <2> QED
        BY <2>1, <2>2
<1> QED
    BY <1>0, <1>5, SamePass DEF PassInv

LEMMA RunPipelineKeeps ==
    ASSUME execution \in Executions, pass \in {1, 2}, PassInv, RunPipeline
    PROVE  PassInv'
BY FillChunksKeeps, EndExecutionKeeps, WorkChunkKeeps, BeginKeeps, StopBeginningKeeps, TellKeeps
   DEF RunPipeline

-----------------------------------------------------------------------------
(* The results of a pass *)

\* The shards no chunk carried.
Windows == {p \in DOMAIN Order : \A k \in 1..ChunkCount : Chunk(k) # Order[p]}

\* The chunks' results are each chunk's, once, in some order.
LEMMA ResultsMeans ==
    ASSUME execution \in Executions, NEW results \in Results
    PROVE  /\ DOMAIN results = 1..ChunkCount /\ Len(results) = ChunkCount
           /\ \A i \in 1..ChunkCount : \E k \in 1..ChunkCount : results[i] = Chunk(k)
           /\ \A k \in 1..ChunkCount : \E i \in 1..ChunkCount : results[i] = Chunk(k)
           /\ \A i, j \in 1..ChunkCount : results[i] = results[j] => i = j
<1> DEFINE N == 1..ChunkCount
<1>0. ChunkCount \in Nat
    BY StatementOf
<1>1. PICK s \in Bijection(N, N) : results = [i \in N |-> Chunk(s[i])]
    BY DEF Results
<1>2. s \in [N -> N] /\ \A w \in N : \E v \in N : s[v] = w
    BY <1>1 DEF Bijection, Surjection
<1>6. \A v, w \in N : s[v] = s[w] => v = w
    BY <1>1 DEF Bijection, Injection, IsInjective
<1>7. \A i \in N : results[i] = Chunk(s[i]) /\ s[i] \in N
    BY <1>1, <1>2
<1>8. DOMAIN results = N /\ Len(results) = ChunkCount
    BY <1>0, <1>1
<1> HIDE DEF N
<1>9. \A i, j \in N : results[i] = results[j] => i = j
    BY <1>6, <1>7, ChunksDiffer DEF N
<1>10. \A k \in N : \E i \in N : results[i] = Chunk(k)
    BY <1>2, <1>7
<1>11. \A i \in N : \E k \in N : results[i] = Chunk(k)
    BY <1>7
<1> QED
    BY <1>8, <1>9, <1>10, <1>11 DEF N

\* A family that fills carries all its shards.
LEMMA UnplacedAreWindows ==
    ASSUME execution \in Executions, NEW results \in Results
    PROVE  Unplaced(results) = Windows
<1>1. /\ DOMAIN results = 1..ChunkCount
      /\ \A i \in 1..ChunkCount : \E k \in 1..ChunkCount : results[i] = Chunk(k)
      /\ \A k \in 1..ChunkCount : \E i \in 1..ChunkCount : results[i] = Chunk(k)
    BY ResultsMeans
<1>2. CASE pass = 1
    <2>1. \A k \in 1..ChunkCount : /\ Chunk(k).family = execution.fills[k]
                                   /\ execution.fills[k] \in ToSet(execution.fills)
        <3>1. execution.fills \in Seq(ToSet(Families)) /\ ChunkCount = Len(execution.fills)
            BY StatementOf DEF ChunkCount
        <3>2. DOMAIN execution.fills = 1..ChunkCount
            BY <3>1
        <3> QED
            BY <3>2 DEF Chunk, ChunkOf, ToSet
    <2>2. ASSUME NEW p \in DOMAIN Order, \A i \in DOMAIN results : results[i].family # Order[p].family
          PROVE  \A k \in 1..ChunkCount : Chunk(k) # Order[p]
        BY <2>2, <1>1
    <2>3. ASSUME NEW p \in DOMAIN Order, \A k \in 1..ChunkCount : Chunk(k) # Order[p],
                 NEW i \in DOMAIN results, results[i].family = Order[p].family
          PROVE  FALSE
        <3>1. PICK k \in 1..ChunkCount : results[i] = Chunk(k)
            BY <1>1
        <3>2. Order[p].family \in ToSet(execution.fills)
            BY <3>1, <2>1, <2>3
        <3> QED
            BY <3>2, <2>3, StatementOf
    <2> QED
        BY <1>2, <2>2, <2>3 DEF Unplaced, Windows
<1>3. CASE pass # 1
    BY <1>1, <1>3 DEF Unplaced, Windows
<1> QED
    BY <1>2, <1>3

\* Each result has its place, alone; with the window shards they are all there are.
LEMMA ResultsDoFit ==
    ASSUME execution \in Executions, NEW results \in Results
    PROVE  ResultsFit(results)
<1> DEFINE N == 1..ChunkCount
           places == {At(k) : k \in N}
           place == [k \in N |-> At(k)]
<1>0. /\ ChunkCount \in Nat /\ DOMAIN Order = 1..Total(execution.counts)
      /\ Total(execution.counts) \in Nat
      /\ \A k \in 1..ChunkCount : Chunk(k) \in ToSet(Order)
    BY StatementOf
<1>1. /\ DOMAIN results = N /\ Len(results) = ChunkCount
      /\ \A i \in N : \E k \in N : results[i] = Chunk(k)
      /\ \A i, j \in N : results[i] = results[j] => i = j
    BY ResultsMeans
<1>2. \A k \in N : At(k) \in DOMAIN Order /\ Order[At(k)] = Chunk(k)
    BY PlaceOfChunk
<1>3. /\ IsFiniteSet(N) /\ Cardinality(N) = ChunkCount
      /\ IsFiniteSet(DOMAIN Order) /\ Cardinality(DOMAIN Order) = Total(execution.counts)
    BY <1>0, 1 \in Int, ChunkCount \in Int, Total(execution.counts) \in Int, FS_Interval
<1>4. Cardinality(places) = ChunkCount /\ IsFiniteSet(places)
    <2>1. place \in [N -> places] /\ \A x \in places : \E k \in N : place[k] = x
        OBVIOUS
    <2>2. \A j, k \in N : place[j] = place[k] => j = k
        BY <1>2, ChunksDiffer
    <2> HIDE DEF places, place, N
    <2>3. place \in Bijection(N, places)
        BY <2>1, <2>2 DEF Bijection, Injection, Surjection, IsInjective
    <2>4. ExistsBijection(N, places)
        BY <2>3 DEF ExistsBijection
    <2> QED
        BY <2>4, <1>3, FS_Bijection
<1>5. Windows = DOMAIN Order \ places
    <2>1. ASSUME NEW p \in DOMAIN Order, NEW k \in N, Chunk(k) = Order[p] PROVE p = At(k)
        BY <2>1, PlaceOf DEF At
    <2> QED
        BY <2>1, <1>2 DEF Windows
<1>6. places \subseteq DOMAIN Order
    BY <1>2
<1> HIDE DEF places
<1>7. Cardinality(Windows) = Total(execution.counts) - ChunkCount
    <2>1. Cardinality(DOMAIN Order \ places)
            = Cardinality(DOMAIN Order) - Cardinality(DOMAIN Order \cap places)
        BY <1>3, FS_Difference
    <2>2. DOMAIN Order \cap places = places
        BY <1>6
    <2> QED
        BY <2>1, <2>2, <1>3, <1>4, <1>5
<1>8. Len(Order) = Total(execution.counts)
    BY <1>0
<1>9. Len(results) + Cardinality(Unplaced(results)) = Len(Order)
    BY <1>0, <1>1, <1>7, <1>8, UnplacedAreWindows
<1> QED
    BY <1>0, <1>1, <1>9 DEF ResultsFit

\* Whatever the order the chunks ended in, each place has its own shard's.
LEMMA PlacedAreMade ==
    ASSUME execution \in Executions, NEW results \in Results
    PROVE  Placed(results) = [p \in DOMAIN Order |-> Made(p)]
<1>1. ASSUME NEW p \in DOMAIN Order, p \notin Unplaced(results)
      PROVE  Position(CHOOSE shard \in ToSet(results) : shard = Order[p]) = p
    <2>1. PICK k \in 1..ChunkCount : Chunk(k) = Order[p]
        BY <1>1, UnplacedAreWindows DEF Windows
    <2>2. PICK i \in 1..ChunkCount : results[i] = Chunk(k)
        BY ResultsMeans
    <2>3. Order[p] \in ToSet(results)
        BY <2>1, <2>2, ResultsMeans DEF ToSet
    <2>4. (CHOOSE shard \in ToSet(results) : shard = Order[p]) = Order[p]
        BY <2>3
    <2> QED
        BY <2>4, PlaceOf
<1> QED
    BY <1>1 DEF Placed

-----------------------------------------------------------------------------
(* The failure a single worker would have met first *)

LEMMA FirstFailureMeans ==
    ASSUME execution \in Executions, NEW bad, bad \subseteq DOMAIN Order
    PROVE  /\ \A k \in 1..ChunkCount :
                 At(k) \in bad /\ (\A j \in 1..k - 1 : At(j) \notin bad) =>
                     FirstFailure(bad) = <<"work", At(k)>>
           /\ (\A k \in 1..ChunkCount : At(k) \notin bad) =>
                 FirstFailure(bad) =
                     IF execution.traps THEN <<"executor", 0>>
                     ELSE IF Windows \cap bad # {}
                     THEN <<"work", CHOOSE p \in Windows \cap bad : \A q \in Windows \cap bad : p <= q>>
                     ELSE <<"none", 0>>
<1> DEFINE chunks == {k \in 1..ChunkCount : At(k) \in bad}
           windows == {p \in bad : \A k \in 1..ChunkCount : Chunk(k) # Order[p]}
           first(S) == CHOOSE x \in S : \A y \in S : x <= y
<1>1. FirstFailure(bad) = IF chunks # {} THEN <<"work", At(first(chunks))>>
                          ELSE IF execution.traps THEN <<"executor", 0>>
                          ELSE IF windows # {} THEN <<"work", first(windows)>>
                          ELSE <<"none", 0>>
    BY DEF FirstFailure, At
<1>2. windows = Windows \cap bad
    BY DEF Windows
<1>3. ChunkCount \in Nat
    BY StatementOf
<1>4. ASSUME NEW k \in 1..ChunkCount, At(k) \in bad, \A j \in 1..k - 1 : At(j) \notin bad
      PROVE  FirstFailure(bad) = <<"work", At(k)>>
    <2>1. k \in chunks
        BY <1>4
    <2>2. \A y \in chunks : k <= y
        BY <1>3, <1>4
    <2>3. \A x \in chunks : (\A y \in chunks : x <= y) => x = k
        BY <1>3, <2>1, <2>2
    <2> HIDE DEF chunks
    <2>4. first(chunks) = k
        BY <2>1, <2>2, <2>3
    <2> QED
        BY <1>1, <2>1, <2>4
<1>5. ASSUME \A k \in 1..ChunkCount : At(k) \notin bad
      PROVE  chunks = {}
    BY <1>5
<1> HIDE DEF chunks, windows
<1> QED
    BY <1>1, <1>2, <1>4, <1>5

LEMMA SameFailures ==
    ASSUME UNCHANGED execution
    PROVE  /\ FirstFailure(execution.unfillable)' = FirstFailure(execution.unfillable)
           /\ FirstFailure(execution.unfillable \cup execution.uncountable)'
                = FirstFailure(execution.unfillable \cup execution.uncountable)
BY DEF FirstFailure, ChunkCount, Position, Order, Chunk, ChunkOf

LEMMA BadAreShards ==
    ASSUME execution \in Executions
    PROVE  Bad \subseteq DOMAIN Order
BY StatementOf DEF Bad

\* The failure met first, returned of its pass.
LEMMA FailedAnswer ==
    ASSUME StreamInv, pass \in {1, 2}, UNCHANGED execution,
           FirstFailure(Bad)[1] # "none",
           answer'.kind = FirstFailure(Bad)[1], answer'.pass = pass, answer'.at = FirstFailure(Bad)[2]
    PROVE  StreamedAnswersAreTheExecutions'
<1> DEFINE one == FirstFailure(execution.unfillable)
           two == FirstFailure(execution.unfillable \cup execution.uncountable)
<1>1. /\ FirstFailure(execution.unfillable)' = one
      /\ FirstFailure(execution.unfillable \cup execution.uncountable)' = two
    BY SameFailures
<1>2. CASE pass = 1
    BY <1>1, <1>2 DEF Bad, StreamedAnswersAreTheExecutions
<1>3. CASE pass = 2
    <2>1. one[1] = "none"
        BY <1>3 DEF StreamInv
    <2>2. Bad = execution.unfillable \cup execution.uncountable
        BY <1>3 DEF Bad
    <2> QED
        BY <1>1, <1>3, <2>1, <2>2 DEF StreamedAnswersAreTheExecutions
<1> QED
    BY <1>2, <1>3

LEMMA PassFailsKeeps ==
    ASSUME StreamInv, PassFails
    PROVE  StreamInv'
<1>0. /\ execution \in Executions /\ pass \in {1, 2} /\ PassInv
    BY DEF StreamInv, PassFails
<1>1. /\ result \notin {Running, Done} /\ pass' = 0 /\ UNCHANGED <<execution, committed, global>>
      /\ answer' = Answered(result.by, IF result.by = "work" THEN At(result.at + 1) ELSE 0)
    BY DEF PassFails, Return, At
<1>2. /\ answer'.kind = result.by /\ answer'.pass = pass
      /\ answer'.at = IF result.by = "work" THEN At(result.at + 1) ELSE 0
    BY <1>1 DEF Answered
<1>3. FirstFailure(Bad) = <<result.by, IF result.by = "work" THEN At(result.at + 1) ELSE 0>>
      /\ result.by # "none"
    <2>1. CASE \E k \in 1..ChunkCount :
                  /\ result = [at |-> k - 1, by |-> "work"]
                  /\ At(k) \in Bad /\ \A j \in 1..k - 1 : At(j) \notin Bad
        <3>1. PICK k \in 1..ChunkCount :
                  /\ result = [at |-> k - 1, by |-> "work"]
                  /\ At(k) \in Bad /\ \A j \in 1..k - 1 : At(j) \notin Bad
            BY <2>1
        <3>2. k \in Nat
            BY <1>0, StatementOf
        <3>3. result.by = "work" /\ result.at + 1 = k
            BY <3>1, <3>2
        <3> QED
            BY <3>1, <3>3, <1>0, BadAreShards, FirstFailureMeans
    <2>2. CASE result = [at |-> ChunkCount, by |-> "executor"] /\ execution.traps /\ NoChunkFails
        <3>1. result.by = "executor"
            BY <2>2
        <3>2. FirstFailure(Bad) = <<"executor", 0>>
            BY <2>2, <1>0, BadAreShards, FirstFailureMeans DEF NoChunkFails
        <3> QED
            BY <3>1, <3>2
    <2> QED
        BY <1>0, <1>1, <2>1, <2>2 DEF PassInv, ResultOK
<1>4. StreamedAnswersAreTheExecutions'
    BY <1>0, <1>1, <1>2, <1>3, FailedAnswer
<1> QED
    BY <1>0, <1>1, <1>4 DEF StreamInv

-----------------------------------------------------------------------------
(* The end of a pass *)

\* Proofs each at its place, under the statement's commitments, are of a block
\* the verifier takes.
LEMMA BlockVerifies ==
    ASSUME execution \in Executions, committed = execution.lists,
           global = GlobalOf(execution.lists), NEW b, b = BlockOf([p \in DOMAIN Order |-> ProofAt(p)])
    PROVE  b.lists = execution.lists /\ VerifyBlock(b, BlockMessages(b))
<1> DEFINE e == execution
           n == Total(execution.counts)
           proofs == [p \in DOMAIN Order |-> ProofAt(p)]
           of(p) == [family |-> Order[p].family, ts |-> e.ts[p], commitment |-> e.lists[p]]
<1>1. /\ Order = StatementShards(e.counts) /\ n \in Nat /\ DOMAIN Order = 1..n
    BY StatementOf
<1>2. /\ CheckMemoryWindows(KeyHeights, e.counts, e.windows)
      /\ e.lists \in [1..n -> DOMAIN TraceOf]
      /\ \A p \in 1..n :
            /\ TraceOf[e.lists[p]].family = Order[p].family
            /\ e.ts[p][1] <= e.ts[p][2] /\ e.ts[p][2] <= Clock
            /\ PublicValueHolds(of(p), e.io)
      /\ CheckTsWindows([p \in 1..n |-> of(p)])
      /\ FinalsOf[e.boundary].exit = e.exit
      /\ Reconciles(Product([p \in 1..n |-> RootsOf(e.lists[p]).reads]),
                    Product([p \in 1..n |-> RootsOf(e.lists[p]).writes]), e.boundary)
    BY <1>1, ExecutionsAssumption
<1>3. /\ b.counts = e.counts /\ b.windows = e.windows /\ b.lists = e.lists /\ b.io = e.io
      /\ b.exit = e.exit /\ b.boundary = e.boundary /\ b.proofs = proofs
      /\ b.roots = [p \in 1..n |-> proofs[p].roots]
    BY <1>1 DEF BlockOf
<1>4. \A p \in 1..n :
          /\ proofs[p].family = Order[p].family /\ proofs[p].index = Order[p].index
          /\ proofs[p].ts = e.ts[p] /\ proofs[p].under = global
          /\ proofs[p].commitment = e.lists[p] /\ proofs[p].roots = RootsOf(e.lists[p])
    BY <1>1 DEF ProofAt
<1>5. /\ DOMAIN proofs = 1..n /\ Len(proofs) = n /\ Len(b.roots) = n /\ Len(e.lists) = n
      /\ b.proofs = proofs
    BY <1>1, <1>2, <1>3
<1>6. BlockMessages(b) = global
    BY <1>3 DEF BlockMessages, GlobalOf
<1>7. \A p \in 1..n : b.roots[p] = RootsOf(e.lists[p])
    BY <1>3, <1>4
<1> HIDE DEF proofs
<1>8. Reconciles(Product([i \in 1..Len(b.roots) |-> b.roots[i].reads]),
                 Product([i \in 1..Len(b.roots) |-> b.roots[i].writes]), b.boundary)
    <2>1. /\ [i \in 1..Len(b.roots) |-> b.roots[i].reads]
               = [p \in 1..n |-> RootsOf(e.lists[p]).reads]
          /\ [i \in 1..Len(b.roots) |-> b.roots[i].writes]
               = [p \in 1..n |-> RootsOf(e.lists[p]).writes]
        BY <1>5, <1>7
    <2> QED
        BY <1>2, <1>3, <2>1
<1>9. CheckTsWindows(b.proofs)
    <2>1. \A p \in 1..n : proofs[p].family = of(p).family /\ proofs[p].ts = of(p).ts
        BY <1>4
    <2> DEFINE seq == [p \in 1..n |-> of(p)]
    <2>2. Len(seq) = n /\ \A p \in 1..n : seq[p] = of(p)
        BY <1>1
    <2>3. /\ \A p \in 1..n : TsWindowHolds(seq[p])
          /\ \A p \in 1..n - 1 : TsWindowsMeet(seq[p], seq[p + 1])
        BY <1>2, <2>2 DEF CheckTsWindows
    <2> HIDE DEF of, seq
    <2>4. \A p \in 1..n : TsWindowHolds(proofs[p])
        BY <2>1, <2>2, <2>3 DEF TsWindowHolds
    <2>5. \A p \in 1..n - 1 : TsWindowsMeet(proofs[p], proofs[p + 1])
        <3> TAKE p \in 1..n - 1
        <3>1. p \in 1..n /\ p + 1 \in 1..n
            BY <1>1
        <3> QED
            BY <3>1, <2>1, <2>2, <2>3 DEF TsWindowsMeet
    <2> QED
        BY <1>5, <2>4, <2>5 DEF CheckTsWindows
<1>10. ASSUME NEW p \in 1..n
       PROVE  /\ VerifyShardLocal(proofs[p], Order[p], global, e.io)
              /\ proofs[p].commitment = e.lists[p]
              /\ proofs[p].roots = b.roots[p]
              /\ Opens(proofs[p])
    <2>1. PublicValueHolds(proofs[p], e.io)
        <3>1. proofs[p].family = of(p).family /\ proofs[p].commitment = of(p).commitment
            BY <1>4
        <3>2. PublicValueHolds(of(p), e.io)
            BY <1>2
        <3> HIDE DEF of
        <3> QED
            BY <3>1, <3>2 DEF PublicValueHolds
    <2>2. VerifyShardLocal(proofs[p], Order[p], global, e.io)
        BY <1>2, <1>4, <2>1 DEF VerifyShardLocal
    <2> QED
        BY <2>2, <1>2, <1>4, <1>7 DEF Opens
<1>11. \A i \in 1..Len(b.proofs) :
           /\ VerifyShardLocal(b.proofs[i], StatementShards(b.counts)[i], BlockMessages(b), b.io)
           /\ b.proofs[i].commitment = b.lists[i]
           /\ b.proofs[i].roots = b.roots[i]
           /\ Opens(b.proofs[i])
    BY <1>1, <1>3, <1>5, <1>6, <1>10
<1> QED
    BY <1>2, <1>3, <1>5, <1>8, <1>9, <1>11 DEF VerifyBlock

LEMMA EndPassKeeps ==
    ASSUME StreamInv, EndPass
    PROVE  StreamInv'
<1> DEFINE failing == {p \in Windows : ~Works(p)}
           first == CHOOSE p \in failing : \A q \in failing : p <= q
           placed == [p \in DOMAIN Order |-> Made(p)]
<1>0. /\ execution \in Executions /\ pass \in {1, 2} /\ PassInv /\ result = Done
      /\ pass = 2 => /\ FirstFailure(execution.unfillable)[1] = "none"
                     /\ committed = execution.lists /\ global = GlobalOf(execution.lists)
    BY DEF StreamInv, EndPass
<1>1. ~execution.traps /\ NoChunkFails
    BY <1>0 DEF PassInv, ResultOK
<1>2. failing = Windows \cap Bad
    BY <1>0, WorksMeans
<1>3. FirstFailure(Bad) = IF failing # {} THEN <<"work", first>> ELSE <<"none", 0>>
    <2> HIDE DEF failing
    <2> QED
        BY <1>0, <1>1, <1>2, BadAreShards, FirstFailureMeans DEF NoChunkFails
<1>4. IF failing # {} THEN Return(Answered("work", first))
      ELSE IF pass = 1
      THEN /\ committed' = placed
           /\ global' = GlobalOf(committed')
           /\ StartPass(2)
           /\ UNCHANGED <<execution, answer>>
      ELSE Return([Answered("block", 0) EXCEPT !.block = BlockOf(placed)])
    <2>1. PICK results \in Results :
              IF ~ResultsFit(results) THEN Return(Answered("panic", 0))
              ELSE IF {p \in Unplaced(results) : ~Works(p)} # {}
              THEN Return(Answered("work", CHOOSE p \in {q \in Unplaced(results) : ~Works(q)} :
                              \A q \in {r \in Unplaced(results) : ~Works(r)} : p <= q))
              ELSE IF pass = 1
              THEN /\ committed' = Placed(results)
                   /\ global' = GlobalOf(committed')
                   /\ StartPass(2)
                   /\ UNCHANGED <<execution, answer>>
              ELSE Return([Answered("block", 0) EXCEPT !.block = BlockOf(Placed(results))])
        BY DEF EndPass
    <2>2. /\ ResultsFit(results) /\ Unplaced(results) = Windows /\ Placed(results) = placed
        BY <1>0, ResultsDoFit, UnplacedAreWindows, PlacedAreMade
    <2> HIDE DEF placed
    <2> QED
        BY <2>1, <2>2
<1> HIDE DEF failing, first
<1>5. CASE failing # {}
    <2>1. /\ pass' = 0 /\ UNCHANGED <<execution, committed, global>>
          /\ answer' = Answered("work", first)
        BY <1>4, <1>5 DEF Return
    <2>2. answer'.kind = "work" /\ answer'.pass = pass /\ answer'.at = first
        BY <2>1 DEF Answered
    <2>3. StreamedAnswersAreTheExecutions'
        BY <1>0, <1>3, <1>5, <2>1, <2>2, FailedAnswer
    <2> QED
        BY <1>0, <2>1, <2>3 DEF StreamInv
<1>6. CASE failing = {} /\ pass = 1
    <2>1. /\ committed' = placed /\ global' = GlobalOf(committed')
          /\ pass' = 2 /\ filled' = 0 /\ outcome' = <<>> /\ source' = "running"
          /\ result' = Running /\ UNCHANGED execution
        BY <1>4, <1>6 DEF StartPass
    <2>2. FirstFailure(execution.unfillable)' = <<"none", 0>>
        BY <1>3, <1>6, <2>1, SameFailures DEF Bad
    <2>3. committed' = execution'.lists
        <3>1. execution.lists \in [DOMAIN Order -> DOMAIN TraceOf]
            BY <1>0, StatementOf, ExecutionsAssumption
        <3>2. \A p \in DOMAIN Order : Made(p) = execution.lists[p]
            BY <1>6 DEF Made
        <3> QED
            BY <2>1, <3>1, <3>2
    <2>4. global' = GlobalOf(execution.lists)'
        BY <2>1, <2>3 DEF GlobalOf
    <2>5. PassInv'
        BY <1>0, <2>1, PassBeginsNext
    <2>6. StreamedAnswersAreTheExecutions'
        BY <2>1 DEF StreamedAnswersAreTheExecutions
    <2> QED
        BY <1>0, <2>1, <2>2, <2>3, <2>4, <2>5, <2>6 DEF StreamInv
<1>7. CASE failing = {} /\ pass = 2
    <2>1. /\ pass' = 0 /\ UNCHANGED <<execution, committed, global>>
          /\ answer' = [Answered("block", 0) EXCEPT !.block = BlockOf(placed)]
        BY <1>4, <1>7 DEF Return
    <2>2. answer'.kind = "block" /\ answer'.block = BlockOf(placed)
        BY <2>1 DEF Answered
    <2>3. placed = [p \in DOMAIN Order |-> ProofAt(p)]
        BY <1>7 DEF Made
    <2> HIDE DEF placed
    <2>4. /\ BlockOf(placed).lists = execution.lists
          /\ VerifyBlock(BlockOf(placed), BlockMessages(BlockOf(placed)))
        BY <1>0, <1>7, <2>3, BlockVerifies
    <2>5. FirstFailure(execution.unfillable)[1] = "none"
        BY <1>0, <1>7
    <2>6. FirstFailure(execution.unfillable \cup execution.uncountable)[1] = "none"
        BY <1>3, <1>7 DEF Bad
    <2>7. /\ FirstFailure(execution.unfillable)'[1] = "none"
          /\ FirstFailure(execution.unfillable \cup execution.uncountable)'[1] = "none"
        BY <2>1, <2>5, <2>6, SameFailures
    <2>8. /\ answer'.block.lists = execution'.lists
          /\ VerifyBlock(answer'.block, BlockMessages(answer'.block))
        BY <2>1, <2>2, <2>4
    <2>9. StreamedAnswersAreTheExecutions'
        BY <2>2, <2>7, <2>8 DEF StreamedAnswersAreTheExecutions
    <2> QED
        BY <1>0, <2>1, <2>9 DEF StreamInv
<1> QED
    BY <1>0, <1>5, <1>6, <1>7

-----------------------------------------------------------------------------
(* The theorems *)

LEMMA StreamBegins == StreamInit => StreamInv
<1> SUFFICES ASSUME StreamInit PROVE StreamInv
    OBVIOUS
<1>1. PassInv
    BY PassBegins DEF StreamInit, Queue!QueueInit
<1>2. StreamedAnswersAreTheExecutions
    BY DEF StreamInit, StreamedAnswersAreTheExecutions
<1> QED
    BY <1>1, <1>2 DEF StreamInit, StreamInv

LEMMA RunPipelineKeepsInv ==
    ASSUME StreamInv, RunPipeline
    PROVE  StreamInv'
<1>1. /\ execution \in Executions /\ pass \in {1, 2} /\ PassInv
      /\ UNCHANGED <<execution, pass, committed, global, answer>>
    BY DEF StreamInv, RunPipeline
<1>2. PassInv'
    BY <1>1, RunPipelineKeeps
<1>3. pass = 2 => /\ FirstFailure(execution.unfillable)'[1] = "none"
                  /\ committed' = execution'.lists /\ global' = GlobalOf(execution.lists)'
    BY <1>1, SameFailures DEF StreamInv, GlobalOf
<1>4. StreamedAnswersAreTheExecutions'
    BY <1>1 DEF StreamedAnswersAreTheExecutions
<1> QED
    BY <1>1, <1>2, <1>3, <1>4 DEF StreamInv

\* A call that does nothing changes nothing the invariant reads.
LEMMA StreamStutters ==
    ASSUME StreamInv, UNCHANGED streamVars
    PROVE  StreamInv'
<1>1. UNCHANGED <<execution, pass, filled, outcome, source, result, committed, global, answer>>
    BY DEF streamVars, queueVars
<1>2. ResultOK' <=> ResultOK
    BY <1>1, SamePass DEF ResultOK
<1>3. PassInv' <=> PassInv
    BY <1>1, <1>2, SamePass DEF PassInv
<1>4. /\ FirstFailure(execution.unfillable)' = FirstFailure(execution.unfillable)
      /\ FirstFailure(execution.unfillable \cup execution.uncountable)'
           = FirstFailure(execution.unfillable \cup execution.uncountable)
    BY <1>1, SameFailures
<1>5. StreamedAnswersAreTheExecutions'
    BY <1>1, <1>4 DEF StreamInv, StreamedAnswersAreTheExecutions
<1> QED
    BY <1>1, <1>3, <1>4, <1>5 DEF StreamInv, GlobalOf

LEMMA StreamNextKeeps ==
    ASSUME StreamInv, [StreamNext]_streamVars
    PROVE  StreamInv'
BY RunPipelineKeepsInv, EndPassKeeps, PassFailsKeeps, StreamStutters DEF StreamNext

\* Each pass finds what a single worker would, and places every shard of the
\* statement once: the inductive invariant of `prove_block_streaming`.
THEOREM StreamInvariance == StreamSpec => []StreamInv
BY StreamBegins, StreamNextKeeps, PTL DEF StreamSpec

\* The streaming prover returns the execution's block, which the verifier takes,
\* or the first failure in order, however many workers raced and in whatever
\* order their shards ended; and it never panics.
THEOREM StreamedAnswers == StreamSpec => []StreamedAnswersAreTheExecutions
<1>1. StreamInv => StreamedAnswersAreTheExecutions
    BY DEF StreamInv
<1> QED
    BY <1>1, StreamInvariance, PTL
=============================================================================
