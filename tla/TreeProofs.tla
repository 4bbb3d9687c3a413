----------------------------- MODULE TreeProofs -----------------------------
(***************************************************************************)
(* Theorems about RecursionTree, for every plan, every set of statements   *)
(* and any number of departures and forgeries: a root the contract accepts *)
(* is a block `verify_block` accepts; a plan is a tree over the shards; and*)
(* the proofs of an honest statement that follow a plan are all taken.     *)
(*                                                                         *)
(* A journal is sound when it says the truth of the shard proofs the leaves*)
(* under its node were given: whose they are and where they stand, that    *)
(* each verified, their products, and that the chain it hands on is the one*)
(* it took and their segments.  A leaf that holds has a sound journal, two *)
(* sound journals that are neighbours make one (JoinedIsSound), and so a   *)
(* node over sound children has one.  A child a node of the contract's     *)
(* programs takes is a leaf's proof, or a node's that asked the same of its*)
(* own: every proof with such a program is sound, forged and departed ones *)
(* beside it notwithstanding.                                              *)
(*                                                                         *)
(* What a leaf says of the chain before it is a claim, and the digest it   *)
(* checks its shards under is one: at the root, which covers the statement,*)
(* the chain is the whole transcript and the digest its hash, and a digest *)
(* is one transcript's.                                                    *)
(*                                                                         *)
(* A level's nodes are the roots of a forest over all the shards, whose    *)
(* spans meet from the first shard to the last (Tier); a level leaves fewer*)
(* of them, until the last node is the one root (PlanGrows).  A prover that*)
(* keeps to the plan with one statement's proofs has then, at every node,  *)
(* the journal of the shards the node is over (KeptWith).                  *)
(***************************************************************************)
EXTENDS RecursionTree, StatementProofs

-----------------------------------------------------------------------------
(* Functions that go on from the value before, and products *)

\* What a recursive function over 0..n goes through.
Follows(f, n, base, G) == f[0] = base /\ \A i \in 1..n : f[i] = G[<<f[i - 1], i>>]

LEMMA StepsExist ==
    ASSUME NEW n \in Nat, NEW S, NEW base \in S, NEW G \in [S \X (1..n) -> S]
    PROVE  \E f \in [0..n -> S] : Follows(f, n, base, G)
<1> DEFINE bad == {m \in 0..n : ~\E f \in [0..m -> S] : Follows(f, m, base, G)}
<1>1. 0 \notin bad
    <2> DEFINE g == [i \in 0..0 |-> base]
    <2>1. g \in [0..0 -> S] /\ g[0] = base
        OBVIOUS
    <2>2. Follows(g, 0, base, G)
        BY <2>1 DEF Follows
    <2> QED
        BY <2>1, <2>2
<1>2. \A i \in 1..n : i - 1 \notin bad => i \notin bad
    <2> SUFFICES ASSUME NEW i \in 1..n, i - 1 \notin bad
                 PROVE  \E h \in [0..i -> S] : Follows(h, i, base, G)
        OBVIOUS
    <2>1. PICK g \in [0..i - 1 -> S] : Follows(g, i - 1, base, G)
        OBVIOUS
    <2> DEFINE v == G[<<g[i - 1], i>>]
               h == [j \in 0..i |-> IF j = i THEN v ELSE g[j]]
    <2>2. v \in S
        <3>1. i - 1 \in 0..i - 1
            OBVIOUS
        <3>2. <<g[i - 1], i>> \in S \X (1..n)
            BY <3>1
        <3> QED
            BY <3>2
    <2> HIDE DEF v
    <2>3. h \in [0..i -> S]
        BY <2>2
    <2>4. h[0] = base
        BY <2>1 DEF Follows
    <2>5. ASSUME NEW j \in 1..i
          PROVE  h[j] = G[<<h[j - 1], j>>]
        <3>1. j \in 0..i /\ j - 1 \in 0..i /\ j - 1 # i
            OBVIOUS
        <3>2. h[j - 1] = g[j - 1]
            BY <3>1
        <3>3. CASE j = i
            BY <3>1, <3>2, <3>3 DEF v
        <3>4. CASE j # i
            <4>1. j \in 1..i - 1
                BY <3>4
            <4>2. h[j] = g[j]
                BY <3>1, <3>4
            <4> HIDE DEF h
            <4> QED
                BY <2>1, <3>2, <4>1, <4>2 DEF Follows
        <3> QED
            BY <3>3, <3>4
    <2> HIDE DEF h
    <2>7. Follows(h, i, base, G)
        BY <2>4, <2>5 DEF Follows
    <2> QED
        BY <2>3, <2>7
<1>3. bad \in SUBSET (0..n)
    OBVIOUS
<1> HIDE DEF bad
<1>4. n \notin bad
    BY <1>1, <1>2, <1>3, SameSteps
<1> QED
    BY <1>4 DEF bad

Bags == [Tuples -> Nat]

\* A product of n bags is what multiplying by one at a time comes to.
LEMMA ProductSteps ==
    ASSUME NEW n \in Nat, NEW bags \in [1..n -> Bags]
    PROVE  \E f \in [0..n -> Bags] :
              /\ f[0] = One /\ \A i \in 1..n : f[i] = Times(f[i - 1], bags[i])
              /\ Product(bags) = f[n]
<1> DEFINE G == [q \in Bags \X (1..n) |-> Times(q[1], bags[q[2]])]
           F(f) == [i \in 0..n |-> IF i = 0 THEN One ELSE Times(f[i - 1], bags[i])]
           upto == CHOOSE f : f = F(f)
<1>1. One \in Bags
    BY DEF One, Bags
<1>2. \A a, b \in Bags : Times(a, b) \in Bags
    BY DEF Times, Bags
<1>3. G \in [Bags \X (1..n) -> Bags]
    BY <1>2
<1>4. \A a \in Bags, i \in 1..n : G[<<a, i>>] = Times(a, bags[i])
    OBVIOUS
<1> HIDE DEF G
<1>5. PICK f \in [0..n -> Bags] : Follows(f, n, One, G)
    BY <1>1, <1>3, StepsExist
<1>6. f = F(f)
    <2>1. \A i \in 0..n : i # 0 => i \in 1..n /\ i - 1 \in 0..n
        OBVIOUS
    <2>2. \A i \in 0..n : f[i] = IF i = 0 THEN One ELSE Times(f[i - 1], bags[i])
        BY <1>4, <1>5, <2>1 DEF Follows
    <2> QED
        BY <2>2
<1>7. upto = F(upto)
    BY <1>6
<1>8. Len(bags) = n
    OBVIOUS
<1>9. Product(bags) = upto[n]
    BY <1>8 DEF Product
<1> HIDE DEF upto
<1>10. upto[0] = One /\ \A i \in 1..n : upto[i] = Times(upto[i - 1], bags[i])
    BY <1>7
<1>11. upto \in [0..n -> Bags]
    <2> DEFINE bad == {i \in 0..n : upto[i] \notin Bags}
    <2>1. 0 \notin bad
        BY <1>1, <1>10
    <2>2. \A i \in 1..n : i - 1 \notin bad => i \notin bad
        <3> SUFFICES ASSUME NEW i \in 1..n, i - 1 \notin bad PROVE upto[i] \in Bags
            OBVIOUS
        <3>1. upto[i - 1] \in Bags /\ bags[i] \in Bags
            OBVIOUS
        <3> QED
            BY <1>2, <1>10, <3>1
    <2>3. bad \in SUBSET (0..n)
        OBVIOUS
    <2> HIDE DEF bad
    <2>4. bad = {}
        BY <2>1, <2>2, <2>3, SameSteps
    <2>5. \A i \in 0..n : upto[i] \in Bags
        BY <2>4 DEF bad
    <2> QED
        BY <1>7, <2>5
<1> QED
    BY <1>9, <1>10, <1>11

LEMMA ProductIs ==
    ASSUME NEW n \in Nat, NEW bags \in [1..n -> Bags], NEW g,
           g[0] = One, \A i \in 1..n : g[i] = Times(g[i - 1], bags[i])
    PROVE  Product(bags) = g[n]
<1>1. PICK f \in [0..n -> Bags] :
          /\ f[0] = One /\ \A i \in 1..n : f[i] = Times(f[i - 1], bags[i])
          /\ Product(bags) = f[n]
    BY ProductSteps
<1> DEFINE bad == {i \in 0..n : f[i] # g[i]}
<1>2. bad \in SUBSET (0..n) /\ 0 \notin bad
    BY <1>1
<1>3. \A i \in 1..n : i - 1 \notin bad => i \notin bad
    <2> SUFFICES ASSUME NEW i \in 1..n, i - 1 \notin bad PROVE f[i] = g[i]
        OBVIOUS
    <2>1. f[i - 1] = g[i - 1]
        OBVIOUS
    <2> QED
        BY <1>1, <2>1
<1> HIDE DEF bad
<1>4. n \notin bad
    BY <1>2, <1>3, SameSteps
<1> QED
    BY <1>1, <1>4 DEF bad

LEMMA TimesIs ==
    /\ One \in Bags
    /\ \A a, b \in Bags : Times(a, b) \in Bags
    /\ \A a \in Bags : Times(One, a) = a /\ Times(a, One) = a
    /\ \A a, b, c \in Bags : Times(a, Times(b, c)) = Times(Times(a, b), c)
<1>1. One \in Bags
    BY DEF One, Bags
<1>2. \A a, b \in Bags : Times(a, b) \in Bags
    BY DEF Times, Bags
<1>3. ASSUME NEW a \in Bags
      PROVE  Times(One, a) = a /\ Times(a, One) = a
    BY DEF Times, One, Bags
<1>4. ASSUME NEW a \in Bags, NEW b \in Bags, NEW c \in Bags
      PROVE  Times(a, Times(b, c)) = Times(Times(a, b), c)
    <2>1. \A x \in Tuples : a[x] \in Nat /\ b[x] \in Nat /\ c[x] \in Nat
        BY DEF Bags
    <2>2. \A x \in Tuples : a[x] + (b[x] + c[x]) = (a[x] + b[x]) + c[x]
        BY <2>1
    <2> QED
        BY <2>2 DEF Times
<1> QED
    BY <1>1, <1>2, <1>3, <1>4

\* The product of bags that follow others.
LEMMA ProductOfTwo ==
    ASSUME NEW n \in Nat, NEW m \in Nat, NEW a \in [1..n -> Bags], NEW b \in [1..m -> Bags]
    PROVE  /\ Product(a) \in Bags /\ Product(b) \in Bags
           /\ Product(Followed(a, n, b, m)) = Times(Product(a), Product(b))
<1> DEFINE c == Followed(a, n, b, m)
<1>1. /\ n + m \in Nat /\ c \in [1..n + m -> Bags]
      /\ \A i \in 1..n : c[i] = a[i]
      /\ \A i \in 1..m : n + i \in 1..n + m /\ c[n + i] = b[i]
    <2>1. \A i \in 1..n + m : IF i <= n THEN i \in 1..n ELSE i - n \in 1..m
        OBVIOUS
    <2>2. \A i \in 1..n : i \in 1..n + m /\ i <= n
        OBVIOUS
    <2>3. \A i \in 1..m : n + i \in 1..n + m /\ ~(n + i <= n) /\ n + i - n = i
        OBVIOUS
    <2> QED
        BY <2>1, <2>2, <2>3 DEF Followed
<1> HIDE DEF c
<1>2. PICK f \in [0..n + m -> Bags] :
          /\ f[0] = One /\ \A i \in 1..n + m : f[i] = Times(f[i - 1], c[i])
          /\ Product(c) = f[n + m]
    BY <1>1, ProductSteps
<1>3. Product(a) = f[n]
    <2>1. \A i \in 1..n : f[i] = Times(f[i - 1], a[i])
        BY <1>1, <1>2
    <2> QED
        BY <1>2, <2>1, ProductIs
<1>4. PICK g \in [0..m -> Bags] :
          /\ g[0] = One /\ \A i \in 1..m : g[i] = Times(g[i - 1], b[i])
          /\ Product(b) = g[m]
    BY ProductSteps
<1>5. Product(a) \in Bags /\ Product(b) \in Bags
    BY <1>2, <1>3, <1>4
<1> DEFINE p == Product(a)
           bad == {i \in 0..m : f[n + i] # Times(p, g[i])}
<1>6. p \in Bags /\ p = f[n]
    BY <1>3, <1>5
<1> HIDE DEF p
<1>7. 0 \notin bad
    <2>1. n + 0 = n
        OBVIOUS
    <2> QED
        BY <2>1, <1>4, <1>6, TimesIs
<1>8. \A i \in 1..m : i - 1 \notin bad => i \notin bad
    <2> SUFFICES ASSUME NEW i \in 1..m, i - 1 \notin bad
                 PROVE  f[n + i] = Times(p, g[i])
        OBVIOUS
    <2>1. i - 1 \in 0..m /\ f[n + (i - 1)] = Times(p, g[i - 1])
        OBVIOUS
    <2>2. n + i \in 1..n + m /\ n + i - 1 = n + (i - 1)
        OBVIOUS
    <2>3. f[n + i] = Times(f[n + (i - 1)], b[i])
        BY <1>1, <1>2, <2>2
    <2>4. g[i] = Times(g[i - 1], b[i]) /\ g[i - 1] \in Bags /\ b[i] \in Bags
        BY <1>4, <2>1
    <2> QED
        BY <1>6, <2>1, <2>3, <2>4, TimesIs
<1>9. bad \in SUBSET (0..m)
    OBVIOUS
<1> HIDE DEF bad
<1>10. m \notin bad
    BY <1>7, <1>8, <1>9, SameSteps
<1>11. f[n + m] = Times(p, g[m])
    BY <1>10 DEF bad
<1> QED
    BY <1>2, <1>4, <1>5, <1>11 DEF p, c
-----------------------------------------------------------------------------
(* The shard proofs a prover has, and what is under a node *)

Digests == {s.digest : s \in Statements} \cup {"mixed"}
HeldOf(s) == {ShardProof(s, p, d) : p \in 1..Total(s.counts), d \in Digests}
Held == UNION {HeldOf(s) : s \in Statements}
Proofs == Held \cup {[q EXCEPT !.ts = <<0, Clock>>] : q \in Held}
               \cup {[q EXCEPT !.roots.reads = One] : q \in Held}

LEMMA HeldAre ==
    ASSUME NEW q \in Held
    PROVE  /\ q.commitment \in DOMAIN TraceOf /\ q.roots = RootsOf(q.commitment)
           /\ q = [family |-> q.family, index |-> q.index, ts |-> q.ts, under |-> q.under,
                   commitment |-> q.commitment, roots |-> q.roots]
<1>1. PICK s \in Statements : q \in HeldOf(s)
    BY DEF Held
<1>2. PICK p \in 1..Total(s.counts), d \in Digests : q = ShardProof(s, p, d)
    BY <1>1 DEF HeldOf
<1>3. s.lists[p] \in DOMAIN TraceOf
    BY StatementsAssumption
<1> QED
    BY <1>2, <1>3 DEF ShardProof

LEMMA ProofsAre ==
    ASSUME NEW q \in Proofs
    PROVE  /\ q.roots.reads \in Bags /\ q.roots.writes \in Bags
           /\ q.commitment \in DOMAIN TraceOf
<1>1. \A c \in DOMAIN TraceOf : RootsOf(c).reads \in Bags /\ RootsOf(c).writes \in Bags
    BY TracesAssumption DEF RootsOf, Bags
<1>2. CASE q \in Held
    BY <1>1, <1>2, HeldAre
<1>3. CASE \E o \in Held : q = [o EXCEPT !.ts = <<0, Clock>>]
    <2>1. PICK o \in Held : q = [o EXCEPT !.ts = <<0, Clock>>]
        BY <1>3
    <2>2. q.roots = o.roots /\ q.commitment = o.commitment
        BY <2>1, HeldAre
    <2> QED
        BY <1>1, <2>2, HeldAre
<1>4. CASE \E o \in Held : q = [o EXCEPT !.roots.reads = One]
    <2>1. PICK o \in Held : q = [o EXCEPT !.roots.reads = One]
        BY <1>4
    <2>2. o.roots = [reads |-> RootsOf(o.commitment).reads, writes |-> RootsOf(o.commitment).writes]
        BY HeldAre DEF RootsOf
    <2>3. q.commitment = o.commitment /\ q.roots = [o.roots EXCEPT !.reads = One]
        BY <2>1, HeldAre
    <2>4. q.roots.reads = One /\ q.roots.writes = o.roots.writes
        BY <2>2, <2>3
    <2> QED
        BY <1>1, <2>3, <2>4, HeldAre, TimesIs
<1> QED
    BY <1>2, <1>3, <1>4 DEF Proofs

ReadsOf(u) == Product([i \in 1..Len(u) |-> u[i].roots.reads])
WritesOf(u) == Product([i \in 1..Len(u) |-> u[i].roots.writes])

LEMMA ProductsJoin ==
    ASSUME NEW u \in Seq(Proofs), NEW v \in Seq(Proofs)
    PROVE  /\ ReadsOf(u) \in Bags /\ WritesOf(u) \in Bags
           /\ ReadsOf(u \o v) = Times(ReadsOf(u), ReadsOf(v))
           /\ WritesOf(u \o v) = Times(WritesOf(u), WritesOf(v))
<1> DEFINE n == Len(u)
           m == Len(v)
           w == u \o v
<1>1. n \in Nat /\ m \in Nat /\ u \in [1..n -> Proofs] /\ v \in [1..m -> Proofs]
    OBVIOUS
<1>2. w \in Seq(Proofs) /\ Len(w) = n + m /\ \A i \in 1..n + m : w[i] = IF i <= n THEN u[i] ELSE v[i - n]
    OBVIOUS
<1> HIDE DEF n, m, w
<1> DEFINE a == [i \in 1..n |-> u[i].roots.reads]
           b == [i \in 1..m |-> v[i].roots.reads]
           d == [i \in 1..n |-> u[i].roots.writes]
           e == [i \in 1..m |-> v[i].roots.writes]
<1>3. a \in [1..n -> Bags] /\ b \in [1..m -> Bags] /\ d \in [1..n -> Bags] /\ e \in [1..m -> Bags]
    BY <1>1, ProofsAre
<1>4. \A i \in 1..n + m : IF i <= n THEN i \in 1..n ELSE i - n \in 1..m
    BY <1>1
<1>5. [i \in 1..n + m |-> w[i].roots.reads] = Followed(a, n, b, m)
    BY <1>2, <1>4 DEF Followed
<1>6. [i \in 1..n + m |-> w[i].roots.writes] = Followed(d, n, e, m)
    BY <1>2, <1>4 DEF Followed
<1> HIDE DEF a, b, d, e
<1>7. /\ Product(a) \in Bags /\ Product(d) \in Bags
      /\ Product(Followed(a, n, b, m)) = Times(Product(a), Product(b))
      /\ Product(Followed(d, n, e, m)) = Times(Product(d), Product(e))
    BY <1>1, <1>3, ProductOfTwo
<1>8. /\ ReadsOf(u) = Product(a) /\ ReadsOf(v) = Product(b)
      /\ WritesOf(u) = Product(d) /\ WritesOf(v) = Product(e)
    BY DEF ReadsOf, WritesOf, a, b, d, e, n, m
<1>9. ReadsOf(w) = Product(Followed(a, n, b, m)) /\ WritesOf(w) = Product(Followed(d, n, e, m))
    BY <1>2, <1>5, <1>6 DEF ReadsOf, WritesOf
<1> QED
    BY <1>7, <1>8, <1>9 DEF w
-----------------------------------------------------------------------------
(* The segments of shards that follow others *)

LaterOf(counts) ==
    {GroupMessage(counts, g) : g \in 1..K} \cup {CommitmentMessage(c) : c \in DOMAIN TraceOf}
SegmentsFrom(counts, from, u) ==
    FlattenSeq([i \in 1..Len(u) |-> SegmentMessages(counts, from + i - 1, u[i].commitment)])

LEMMA GroupMessagesTyped ==
    ASSUME NEW counts, NEW p
    PROVE  GroupMessages(counts, p) \in Seq(LaterOf(counts))
<1> DEFINE M == LaterOf(counts)
           ss == [g \in 1..K |-> IF GroupStart(counts, g) = p THEN <<GroupMessage(counts, g)>> ELSE <<>>]
<1>0. K \in Nat /\ Len(GroupOrder) = K
    BY GroupsAreTheFamilies
<1>1. \A g \in 1..K : GroupMessage(counts, g) \in M
    BY DEF LaterOf
<1> HIDE DEF M
<1>2. ss \in [1..K -> Seq(M)]
    BY <1>1
<1>3. GroupMessages(counts, p) = FlattenSeq(ss)
    BY <1>0 DEF GroupMessages
<1> HIDE DEF ss
<1> QED
    BY <1>0, <1>2, <1>3, FlattenTyped DEF M

LEMMA SegmentTyped ==
    ASSUME NEW counts, NEW p, NEW c \in DOMAIN TraceOf
    PROVE  SegmentMessages(counts, p, c) \in Seq(LaterOf(counts))
<1> DEFINE M == LaterOf(counts)
           m == CommitmentMessage(c)
           gs == GroupMessages(counts, p)
<1>1. gs \in Seq(M) /\ m \in M
    BY GroupMessagesTyped DEF LaterOf
<1>2. SegmentMessages(counts, p, c) = Append(gs, m)
    BY DEF SegmentMessages
<1> HIDE DEF M, m, gs
<1> QED
    BY <1>1, <1>2 DEF M

LEMMA SegmentsJoin ==
    ASSUME NEW counts, NEW from \in Nat, NEW u \in Seq(Proofs), NEW v \in Seq(Proofs),
           NEW w, w = u \o v
    PROVE  /\ SegmentsFrom(counts, from, u) \in Seq(LaterOf(counts))
           /\ SegmentsFrom(counts, from, w)
                = Cat(SegmentsFrom(counts, from, u), SegmentsFrom(counts, from + Len(u), v))
<1> DEFINE M == LaterOf(counts)
           n == Len(u)
           m == Len(v)
           Of(p, q) == SegmentMessages(counts, p, q.commitment)
<1>1. n \in Nat /\ m \in Nat /\ u \in [1..n -> Proofs] /\ v \in [1..m -> Proofs]
    OBVIOUS
<1>2. w \in Seq(Proofs) /\ Len(w) = n + m /\ \A i \in 1..n + m : w[i] = IF i <= n THEN u[i] ELSE v[i - n]
    OBVIOUS
<1>3. \A p : \A q \in Proofs : Of(p, q) \in Seq(M)
    BY ProofsAre, SegmentTyped
<1>d. /\ SegmentsFrom(counts, from, u) = FlattenSeq([i \in 1..n |-> Of(from + i - 1, u[i])])
      /\ SegmentsFrom(counts, from + n, v) = FlattenSeq([i \in 1..m |-> Of(from + n + i - 1, v[i])])
      /\ SegmentsFrom(counts, from, w) = FlattenSeq([i \in 1..n + m |-> Of(from + i - 1, w[i])])
    BY <1>2 DEF SegmentsFrom
<1> HIDE DEF n, m, Of, M
<1> DEFINE a == [i \in 1..n |-> Of(from + i - 1, u[i])]
           b == [i \in 1..m |-> Of(from + n + i - 1, v[i])]
<1>4. a \in [1..n -> Seq(M)] /\ b \in [1..m -> Seq(M)]
    BY <1>1, <1>3
<1>5. \A i \in 1..n + m : IF i <= n THEN i \in 1..n
                          ELSE i - n \in 1..m /\ from + n + (i - n) - 1 = from + i - 1
    BY <1>1
<1>6. [i \in 1..n + m |-> Of(from + i - 1, w[i])] = Followed(a, n, b, m)
    <2>1. \A i \in 1..n + m : Of(from + i - 1, w[i]) = IF i <= n THEN a[i] ELSE b[i - n]
        BY <1>2, <1>5
    <2> HIDE DEF a, b
    <2> QED
        BY <2>1 DEF Followed
<1> HIDE DEF a, b
<1>7. FlattenSeq(Followed(a, n, b, m)) = Cat(FlattenSeq(a), FlattenSeq(b))
    <2>1. Parts(a, n, M) /\ Parts(b, m, M)
        BY <1>4 DEF Parts
    <2> QED
        BY <1>1, <2>1, FlattenConcat
<1>8. FlattenSeq(a) \in Seq(M)
    BY <1>1, <1>4, FlattenTyped
<1>9. SegmentsFrom(counts, from, u) = FlattenSeq(a) /\ SegmentsFrom(counts, from + n, v) = FlattenSeq(b)
    BY <1>d DEF a, b
<1>10. SegmentsFrom(counts, from, w) = FlattenSeq(Followed(a, n, b, m))
    BY <1>d, <1>6
<1> QED
    BY <1>7, <1>8, <1>9, <1>10 DEF n, M
-----------------------------------------------------------------------------
(* What a journal says of the shards under its node *)

Sequence(x) == x \in Seq({x[i] : i \in 1..Len(x)})

\* The shards are the statement's, in range, each verified against its place.
Fits(j) ==
    /\ j.shape[1] \in [ToSet(Families) -> Nat]
    /\ CheckMemoryWindows(KeyHeights, j.shape[1], j.shape[2])
    /\ j.total = Total(j.shape[1])
    /\ j.from \in Nat /\ j.to \in Nat /\ j.from < j.to /\ j.to <= j.total
    /\ j.digest \in Digests
    /\ j.shards \in Seq(Proofs) /\ Len(j.shards) = j.to - j.from
Verifies(j) ==
    \A i \in 1..Len(j.shards) :
        VerifyShardLocal(j.shards[i], StatementShards(j.shape[1])[j.from + i], j.digest, j.io)
InTime(j) ==
    /\ CheckTsWindows(j.shards)
    /\ j.first = j.shards[1] /\ j.last = j.shards[Len(j.shards)]
Adds(j) ==
    /\ j.reads = ReadsOf(j.shards) /\ j.writes = WritesOf(j.shards)
    /\ j.opens => \A i \in 1..Len(j.shards) : Opens(j.shards[i])

\* From a chain that is one, it goes on by the shards' segments; and where the
\* shards end the statement, the digest is of what it comes to.
SegmentsUnder(j) == SegmentsFrom(j.shape[1], j.from, j.shards)
Chains(j) ==
    /\ Sequence(j.chain_in) => j.chain_out = j.chain_in \o SegmentsUnder(j)
    /\ j.from = 0 => j.chain_in = PrefixMessages(j.shape[1], j.shape[2], "identity", j.io)
Settles(j, dg) ==
    j.to = j.total =>
        /\ FinalsOf[j.factors].exit = j.exit
        /\ Sequence(j.chain_in) =>
              dg[j.digest] = j.chain_out \o SuffixMessages(j.shape[1], j.factors)

Sound(j, dg) == Fits(j) /\ Verifies(j) /\ InTime(j) /\ Adds(j) /\ Chains(j) /\ Settles(j, dg)

\* The journal of two nodes side by side.
Joined(m, j, k) ==
    /\ Facts(m) = Facts(j) /\ m.from = j.from /\ m.to = k.to
    /\ m.chain_in = j.chain_in /\ m.chain_out = k.chain_out
    /\ m.reads = Times(j.reads, k.reads) /\ m.writes = Times(j.writes, k.writes)
    /\ m.factors = k.factors /\ m.first = j.first /\ m.last = k.last
    /\ m.opens => j.opens /\ k.opens
    /\ m.shards = j.shards \o k.shards

\* The facts nodes hold their children to are facts of both.
LEMMA FactsAre ==
    ASSUME NEW j, NEW k, Facts(k) = Facts(j)
    PROVE  /\ k.shape = j.shape /\ k.digest = j.digest /\ k.io = j.io
           /\ k.exit = j.exit /\ k.total = j.total
BY DEF Facts

\* Two sequences of shards, one after the other, in the terms of the second.
LEMMA ShardsJoin ==
    ASSUME NEW u \in Seq(Proofs), NEW v \in Seq(Proofs), Len(u) > 0, Len(v) > 0,
           NEW w, w = u \o v
    PROVE  /\ w \in Seq(Proofs) /\ Len(w) = Len(u) + Len(v)
           /\ \A i \in 1..Len(u) : w[i] = u[i]
           /\ \A i \in 1..Len(v) : w[Len(u) + i] = v[i]
           /\ w[1] = u[1] /\ w[Len(w)] = v[Len(v)]
<1>1. w \in Seq(Proofs) /\ Joins(w, u, v)
    BY EndToEnd
<1>2. 1 \in 1..Len(u) /\ Len(v) \in 1..Len(v)
    OBVIOUS
<1>3. w[1] = u[1] /\ w[Len(w)] = v[Len(v)]
    BY <1>1, <1>2 DEF Joins
<1> QED
    BY <1>1, <1>3 DEF Joins

LEMMA WindowsJoin ==
    ASSUME NEW u \in Seq(Proofs), NEW v \in Seq(Proofs), Len(u) > 0, Len(v) > 0,
           CheckTsWindows(u), CheckTsWindows(v), TsWindowsMeet(u[Len(u)], v[1])
    PROVE  CheckTsWindows(u \o v)
<1> DEFINE w == u \o v
           n == Len(u)
           m == Len(v)
<1>1. /\ Len(w) = n + m /\ n \in Nat \ {0} /\ m \in Nat \ {0}
      /\ \A i \in 1..n : w[i] = u[i]
      /\ \A i \in 1..m : w[n + i] = v[i]
    BY ShardsJoin
<1>2. /\ \A i \in 1..n : TsWindowHolds(u[i])
      /\ \A i \in 1..m : TsWindowHolds(v[i])
      /\ \A i \in 1..n - 1 : TsWindowsMeet(u[i], u[i + 1])
      /\ \A i \in 1..m - 1 : TsWindowsMeet(v[i], v[i + 1])
      /\ TsWindowsMeet(u[n], v[1])
    BY DEF CheckTsWindows
<1> HIDE DEF w, n, m
<1>3. ASSUME NEW i \in 1..n + m
      PROVE  TsWindowHolds(w[i])
    <2>1. CASE i \in 1..n
        BY <2>1, <1>1, <1>2
    <2>2. CASE i \notin 1..n
        <3>1. i - n \in 1..m /\ i = n + (i - n)
            BY <2>2, <1>1
        <3>2. w[i] = v[i - n]
            BY <3>1, <1>1
        <3> QED
            BY <3>1, <3>2, <1>2
    <2> QED
        BY <2>1, <2>2
<1>4. ASSUME NEW i \in 1..n + m - 1
      PROVE  TsWindowsMeet(w[i], w[i + 1])
    <2>1. CASE i \in 1..n - 1
        <3>1. i \in 1..n /\ i + 1 \in 1..n
            BY <2>1, <1>1
        <3>2. w[i] = u[i] /\ w[i + 1] = u[i + 1]
            BY <3>1, <1>1
        <3> QED
            BY <2>1, <3>2, <1>2
    <2>2. CASE i = n
        <3>1. n \in 1..n /\ 1 \in 1..m /\ i + 1 = n + 1
            BY <2>2, <1>1
        <3>2. w[i] = u[n] /\ w[i + 1] = v[1]
            BY <2>2, <3>1, <1>1
        <3> QED
            BY <3>2, <1>2
    <2>3. CASE i > n
        <3> DEFINE o == i - n
        <3>1. o \in 1..m - 1 /\ o \in 1..m /\ o + 1 \in 1..m /\ i = n + o /\ i + 1 = n + (o + 1)
            BY <2>3, <1>1
        <3> HIDE DEF o
        <3>2. w[i] = v[o] /\ w[i + 1] = v[o + 1]
            BY <3>1, <1>1
        <3> QED
            BY <3>1, <3>2, <1>2
    <2> QED
        BY <2>1, <2>2, <2>3, <1>1
<1> QED
    BY <1>1, <1>3, <1>4 DEF CheckTsWindows, w

LEMMA SequencesJoin ==
    \A x, y, z : Sequence(x) /\ Sequence(y) /\ Sequence(z) =>
        /\ Sequence(x \o y) /\ (x \o y) \o z = x \o (y \o z)
<1> SUFFICES ASSUME NEW x, NEW y, NEW z, Sequence(x), Sequence(y), Sequence(z)
             PROVE  Sequence(x \o y) /\ (x \o y) \o z = x \o (y \o z)
    OBVIOUS
<1> DEFINE A == {x[i] : i \in 1..Len(x)}
           B == {y[i] : i \in 1..Len(y)}
           C == {z[i] : i \in 1..Len(z)}
           S == A \cup B \cup C
<1>1. x \in Seq(A) /\ y \in Seq(B) /\ z \in Seq(C)
    BY DEF Sequence
<1> HIDE DEF A, B, C
<1>2. x \in Seq(S) /\ y \in Seq(S) /\ z \in Seq(S)
    BY <1>1
<1> HIDE DEF S
<1>3. (x \o y) \o z = x \o (y \o z)
    BY <1>2, ConcatIsAssociative
<1>4. x \o y \in Seq(S)
    BY <1>2, ConcatProperties
<1> DEFINE w == x \o y
<1> HIDE DEF w
<1>5. \A v \in Seq(S) : v \in Seq({v[i] : i \in 1..Len(v)})
    OBVIOUS
<1>6. Sequence(x \o y)
    BY <1>4, <1>5 DEF Sequence
<1> QED
    BY <1>3, <1>6

LEMMA SequencesAre ==
    \A S : \A x \in Seq(S) : Sequence(x)
<1> TAKE S
<1>1. \A v \in Seq(S) : v \in Seq({v[i] : i \in 1..Len(v)})
    OBVIOUS
<1> QED
    BY <1>1 DEF Sequence

\* Two sound journals side by side make a sound one.
LEMMA JoinedIsSound ==
    ASSUME NEW j, NEW k, NEW m, NEW dg, Sound(j, dg), Sound(k, dg), Facts(k) = Facts(j), k.from = j.to,
           k.chain_in = j.chain_out, TsWindowsMeet(j.last, k.first), Joined(m, j, k)
    PROVE  Sound(m, dg)
<1>1. /\ k.shape = j.shape /\ k.digest = j.digest /\ k.io = j.io /\ k.exit = j.exit /\ k.total = j.total
      /\ m.shape = j.shape /\ m.digest = j.digest /\ m.io = j.io /\ m.exit = j.exit /\ m.total = j.total
    BY FactsAre DEF Joined
<1>2. Fits(j) /\ Fits(k)
    BY DEF Sound
<1> DEFINE u == j.shards
           v == k.shards
           w == m.shards
<1>3. /\ u \in Seq(Proofs) /\ v \in Seq(Proofs) /\ w = u \o v
      /\ Len(u) = j.to - j.from /\ Len(v) = k.to - k.from
      /\ j.from \in Nat /\ j.to \in Nat /\ k.to \in Nat /\ j.from < j.to /\ j.to < k.to
      /\ Len(u) > 0 /\ Len(v) > 0 /\ Len(u) \in Nat /\ Len(v) \in Nat
    BY <1>2 DEF Fits, Joined
<1>4. /\ w \in Seq(Proofs) /\ Len(w) = Len(u) + Len(v)
      /\ \A i \in 1..Len(u) : w[i] = u[i]
      /\ \A i \in 1..Len(v) : w[Len(u) + i] = v[i]
      /\ w[1] = u[1] /\ w[Len(w)] = v[Len(v)]
    <2>1. u \in Seq(Proofs) /\ v \in Seq(Proofs) /\ Len(u) > 0 /\ Len(v) > 0 /\ w = u \o v
        BY <1>3
    <2> HIDE DEF u, v, w
    <2> QED
        BY <2>1, ShardsJoin
<1>u. u = j.shards /\ v = k.shards /\ w = m.shards
    OBVIOUS
<1>n. DEFINE n == Len(u)
             l == Len(v)
<1>5. m.from = j.from /\ m.to = k.to /\ k.from = j.to /\ j.to = j.from + n /\ n \in Nat /\ l \in Nat
    BY <1>3 DEF Joined
<1> HIDE DEF u, v, w
<1>6. \A i \in 1..Len(w) : i \in 1..n \/ \E o \in 1..l : i = n + o
    <2> SUFFICES ASSUME NEW i \in 1..n + l, i \notin 1..n
                 PROVE  i - n \in 1..l /\ i = n + (i - n)
        BY <1>4
    <2> HIDE DEF n, l
    <2> QED
        BY <1>5
<1> HIDE DEF n, l
<1>7. Fits(m)
    <2>1. Len(w) = m.to - m.from /\ m.from < m.to /\ m.from \in Nat /\ m.to \in Nat
        <3>1. /\ Len(u) = j.to - j.from /\ Len(v) = k.to - k.from
              /\ j.from \in Nat /\ j.to \in Nat /\ k.to \in Nat /\ j.from < j.to /\ j.to < k.to
            BY <1>3
        <3>2. Len(w) = Len(u) + Len(v)
            BY <1>4
        <3>3. m.from = j.from /\ m.to = k.to /\ k.from = j.to
            BY <1>5
        <3> QED
            BY <3>1, <3>2, <3>3
    <2> QED
        BY <2>1, <1>1, <1>2, <1>4, <1>5, <1>u DEF Fits
<1>8. Verifies(m)
    <2> DEFINE Place(i) == StatementShards(j.shape[1])[i]
               Holds(q, i) == VerifyShardLocal(q, Place(i), j.digest, j.io)
    <2>1. \A i \in 1..n : Holds(u[i], j.from + i)
        BY <1>u DEF Sound, Verifies, n
    <2>2. \A i \in 1..l : Holds(v[i], j.to + i)
        BY <1>1, <1>5, <1>u DEF Sound, Verifies, l
    <2> SUFFICES ASSUME NEW i \in 1..Len(w) PROVE Holds(w[i], j.from + i)
        BY <1>1, <1>5, <1>u DEF Verifies
    <2> HIDE DEF Holds
    <2>3. CASE i \in 1..n
        BY <2>1, <2>3, <1>4 DEF n
    <2>4. CASE \E o \in 1..l : i = n + o
        <3>1. PICK o \in 1..l : i = n + o
            BY <2>4
        <3>2. w[i] = v[o]
            BY <3>1, <1>4 DEF n, l
        <3>3. j.from + i = j.to + o
            BY <3>1, <1>3, <1>5
        <3> QED
            BY <2>2, <3>1, <3>2, <3>3
    <2> QED
        BY <2>3, <2>4, <1>6
<1>9. InTime(m)
    <2>1. /\ CheckTsWindows(u) /\ CheckTsWindows(v)
          /\ j.first = u[1] /\ j.last = u[Len(u)] /\ k.first = v[1] /\ k.last = v[Len(v)]
        BY <1>u DEF Sound, InTime
    <2>2. CheckTsWindows(w)
        BY <2>1, <1>3, WindowsJoin
    <2>3. m.first = w[1] /\ m.last = w[Len(w)]
        BY <2>1, <1>4 DEF Joined
    <2> QED
        BY <2>2, <2>3, <1>u DEF InTime
<1>10. Adds(m)
    <2>1. m.reads = ReadsOf(w) /\ m.writes = WritesOf(w)
        <3>1. ReadsOf(w) = Times(ReadsOf(u), ReadsOf(v)) /\ WritesOf(w) = Times(WritesOf(u), WritesOf(v))
            BY <1>3, ProductsJoin
        <3>2. /\ j.reads = ReadsOf(u) /\ j.writes = WritesOf(u)
              /\ k.reads = ReadsOf(v) /\ k.writes = WritesOf(v)
            BY <1>u DEF Sound, Adds
        <3> QED
            BY <3>1, <3>2 DEF Joined
    <2>2. ASSUME m.opens, NEW i \in 1..Len(w)
          PROVE  Opens(w[i])
        <3>1. /\ \A o \in 1..n : Opens(u[o])
              /\ \A o \in 1..l : Opens(v[o])
            BY <2>2, <1>u DEF Sound, Adds, Joined, n, l
        <3>2. CASE i \in 1..n
            BY <3>1, <3>2, <1>4 DEF n
        <3>3. CASE \E o \in 1..l : i = n + o
            <4>1. PICK o \in 1..l : i = n + o
                BY <3>3
            <4>2. w[i] = v[o]
                BY <4>1, <1>4 DEF n, l
            <4> QED
                BY <3>1, <4>1, <4>2
        <3> QED
            BY <3>2, <3>3, <1>6
    <2> QED
        BY <2>1, <2>2, <1>u DEF Adds
<1> DEFINE c == j.shape[1]
           x == SegmentsFrom(c, j.from, u)
           y == SegmentsFrom(c, j.to, v)
           z == SegmentsFrom(c, j.from, w)
<1>11. z = x \o y /\ Sequence(x) /\ Sequence(y)
    <2>1. x \in Seq(LaterOf(c)) /\ y \in Seq(LaterOf(c))
        BY <1>3, SegmentsJoin
    <2>2. z = Cat(x, SegmentsFrom(c, j.from + Len(u), v))
        <3> DEFINE f == j.from
        <3>1. u \in Seq(Proofs) /\ v \in Seq(Proofs) /\ w = u \o v /\ f \in Nat
            BY <1>3
        <3> HIDE DEF f, c
        <3>2. SegmentsFrom(c, f, w) = Cat(SegmentsFrom(c, f, u), SegmentsFrom(c, f + Len(u), v))
            BY <3>1, SegmentsJoin
        <3> QED
            BY <3>2 DEF f, c
    <2>3. j.from + Len(u) = j.to
        BY <1>3
    <2> QED
        BY <2>1, <2>2, <2>3, SequencesAre DEF Cat
<1>12. SegmentsUnder(j) = x /\ SegmentsUnder(k) = y /\ SegmentsUnder(m) = z
    BY <1>1, <1>5, <1>u DEF SegmentsUnder
<1> HIDE DEF c, x, y, z
<1>13. ASSUME Sequence(j.chain_in)
       PROVE  Sequence(k.chain_in) /\ m.chain_out = m.chain_in \o z
    <2>1. j.chain_out = j.chain_in \o x
        BY <1>12, <1>13 DEF Sound, Chains
    <2>2. Sequence(k.chain_in)
        BY <2>1, <1>11, <1>13, SequencesJoin
    <2>3. k.chain_out = k.chain_in \o y
        BY <2>2, <1>12 DEF Sound, Chains
    <2>4. k.chain_out = (j.chain_in \o x) \o y
        BY <2>1, <2>3
    <2> DEFINE e == j.chain_in
    <2>5. Sequence(e)
        BY <1>13
    <2> HIDE DEF e
    <2>6. (e \o x) \o y = e \o (x \o y)
        BY <2>5, <1>11, SequencesJoin
    <2>7. m.chain_in = e /\ m.chain_out = k.chain_out /\ k.chain_out = (e \o x) \o y
        BY <2>4 DEF Joined, e
    <2>8. m.chain_out = m.chain_in \o z
        BY <2>6, <2>7, <1>11
    <2> QED
        BY <2>2, <2>8
<1>14. Chains(m)
    <2>1. m.chain_in = j.chain_in
        BY DEF Joined
    <2>2. m.from = 0 => m.chain_in = PrefixMessages(m.shape[1], m.shape[2], "identity", m.io)
        BY <2>1, <1>1, <1>5 DEF Sound, Chains
    <2> QED
        BY <2>1, <2>2, <1>12, <1>13 DEF Chains
<1>15. Settles(m, dg)
    <2>1. m.chain_in = j.chain_in /\ m.chain_out = k.chain_out /\ m.factors = k.factors
        BY DEF Joined
    <2>2. ASSUME m.to = m.total
          PROVE  /\ FinalsOf[k.factors].exit = k.exit
                 /\ Sequence(k.chain_in) =>
                        dg[k.digest] = k.chain_out \o SuffixMessages(k.shape[1], k.factors)
        BY <2>2, <1>1, <1>5 DEF Sound, Settles
    <2> QED
        BY <2>1, <2>2, <1>1, <1>13 DEF Settles
<1> QED
    BY <1>7, <1>8, <1>9, <1>10, <1>14, <1>15 DEF Sound
-----------------------------------------------------------------------------
(* A leaf *)

LEMMA SuffixTyped ==
    ASSUME NEW counts, NEW b
    PROVE  /\ Sequence(SuffixMessages(counts, b)) /\ Len(SuffixMessages(counts, b)) > 0
           /\ SuffixMessages(counts, b) = GroupMessages(counts, Total(counts))
                                             \o <<Message("MEMORY_BOUNDARY", BoundaryLen, b)>>
<1> DEFINE gs == GroupMessages(counts, Total(counts))
           M == LaterOf(counts)
           m == Message("MEMORY_BOUNDARY", BoundaryLen, b)
           S == M \cup {m}
<1>1. gs \in Seq(M)
    BY GroupMessagesTyped
<1>2. SuffixMessages(counts, b) = Append(gs, m)
    BY DEF SuffixMessages
<1> HIDE DEF gs, M, m
<1>3. gs \in Seq(S) /\ m \in S
    BY <1>1
<1>4. Append(gs, m) \in Seq(S) /\ Len(Append(gs, m)) > 0 /\ Append(gs, m) = gs \o <<m>>
    BY <1>3, AppendIsConcat
<1> QED
    BY <1>2, <1>4, SequencesAre DEF gs, m

\* A statement settled stays so, as a token bound to a transcript does.
LEMMA SoundIsKept ==
    ASSUME NEW j, NEW dg, NEW eg, Sound(j, dg),
           \A d \in Digests : dg[d] # <<>> => eg[d] = dg[d]
    PROVE  Sound(j, eg)
<1> SUFFICES ASSUME j.to = j.total, Sequence(j.chain_in)
             PROVE  dg[j.digest] # <<>>
    BY DEF Sound, Settles, Fits
<1> DEFINE x == SegmentsUnder(j)
           y == SuffixMessages(j.shape[1], j.factors)
           e == j.chain_in
<1>1. dg[j.digest] = (e \o x) \o y
    BY DEF Sound, Settles, Chains
<1>2. Sequence(x)
    BY SegmentsJoin, SequencesAre DEF Sound, Fits, SegmentsUnder
<1>3. Sequence(y) /\ Len(y) > 0
    BY SuffixTyped
<1>4. Sequence(e)
    OBVIOUS
<1> HIDE DEF x, y, e
<1>5. Sequence(e \o x)
    BY <1>2, <1>4, SequencesJoin
<1> DEFINE z == e \o x
           S == {z[i] : i \in 1..Len(z)} \cup {y[i] : i \in 1..Len(y)}
<1>6. z \in Seq(S) /\ y \in Seq(S)
    <2> HIDE DEF z
    <2>1. z \in Seq({z[i] : i \in 1..Len(z)}) /\ y \in Seq({y[i] : i \in 1..Len(y)})
        BY <1>3, <1>5 DEF Sequence, z
    <2> QED
        BY <2>1
<1> HIDE DEF z, S
<1>7. Len(z \o y) = Len(z) + Len(y) /\ Len(z) \in Nat /\ Len(y) \in Nat
    BY <1>6, ConcatProperties
<1>8. Len(<<>>) = 0
    OBVIOUS
<1>9. dg[j.digest] = z \o y
    BY <1>1 DEF z
<1> QED
    BY <1>3, <1>7, <1>8, <1>9

\* The parts of a leaf's advice, whichever statement each is from.
Given(a) ==
    /\ a.counts \in [ToSet(Families) -> Nat]
    /\ a.from \in Nat /\ a.to \in Nat
    /\ a.digest \in Digests
    /\ a.shards \in Seq(Proofs) /\ Len(a.shards) = a.to - a.from

\* What a leaf publishes when it holds is sound (node.rs `statement`).
LEMMA LeafIsSound ==
    ASSUME NEW a, NEW dg, Given(a), LeafHolds(a), Ends(a) => dg[a.digest] = Transcript(a)
    PROVE  Sound(LeafJournal(a), dg)
<1> DEFINE j == LeafJournal(a)
           u == a.shards
<1>1. /\ j.shape = <<a.counts, a.windows>> /\ j.digest = a.digest /\ j.io = a.io /\ j.exit = a.exit
      /\ j.total = Total(a.counts) /\ j.from = a.from /\ j.to = a.to
      /\ j.chain_in = ChainIn(a) /\ j.chain_out = ChainOut(a)
      /\ j.reads = ReadsOf(u) /\ j.writes = WritesOf(u)
      /\ j.factors = (IF Ends(a) THEN a.boundary ELSE "one")
      /\ j.first = u[1] /\ j.last = Last(u)
      /\ j.opens = (\A i \in 1..Len(u) : Opens(u[i]))
      /\ j.shards = u
    BY DEF LeafJournal, ReadsOf, WritesOf
<1>2. j.shape[1] = a.counts /\ j.shape[2] = a.windows
    BY <1>1
<1> HIDE DEF j
<1>3. /\ a.counts \in [ToSet(Families) -> Nat] /\ a.from \in Nat /\ a.to \in Nat
      /\ a.digest \in Digests /\ u \in Seq(Proofs) /\ Len(u) = a.to - a.from
    BY DEF Given
<1>4. /\ CheckMemoryWindows(KeyHeights, a.counts, a.windows)
      /\ a.from < a.to /\ a.to <= Total(a.counts) /\ a.identity = "identity"
      /\ CheckTsWindows(u)
      /\ Ends(a) => FinalsOf[a.boundary].exit = a.exit
    BY DEF LeafHolds
<1>5. Fits(j)
    BY <1>1, <1>2, <1>3, <1>4 DEF Fits
<1>6. Verifies(j)
    <2> SUFFICES ASSUME NEW i \in 1..Len(u)
                 PROVE  VerifyShardLocal(u[i], StatementShards(a.counts)[a.from + i], a.digest, a.io)
        BY <1>1, <1>2 DEF Verifies
    <2>1. /\ VerifyShardLocal(u[i], StatementShards(a.counts)[a.from + i], a.digest, a.public)
          /\ IsPublic(u[i]) => a.public = a.io
        BY DEF LeafHolds
    <2>2. PublicValueHolds(u[i], a.io)
        BY <2>1 DEF VerifyShardLocal, PublicValueHolds, IsPublic, PublicFamilies
    <2> QED
        BY <2>1, <2>2 DEF VerifyShardLocal
<1>7. InTime(j)
    BY <1>1, <1>4 DEF InTime, Last
<1>8. Adds(j)
    BY <1>1 DEF Adds
<1>9. ChainOut(a) = ChainIn(a) \o SegmentsUnder(j)
    BY <1>1, <1>2, <1>3 DEF ChainOut, SegmentsUnder, SegmentsFrom
<1>10. Chains(j)
    BY <1>1, <1>2, <1>4, <1>9 DEF Chains, ChainIn
<1>11. Settles(j, dg)
    <2> SUFFICES ASSUME Ends(a)
                 PROVE  /\ FinalsOf[a.boundary].exit = a.exit
                        /\ dg[a.digest] = ChainOut(a) \o SuffixMessages(a.counts, a.boundary)
        BY <1>1, <1>2 DEF Settles, Ends
    <2> QED
        BY <1>4 DEF Transcript
<1> QED
    BY <1>5, <1>6, <1>7, <1>8, <1>10, <1>11 DEF Sound, j
-----------------------------------------------------------------------------
(* A node over its children *)

LEMMA ProductOneMore ==
    ASSUME NEW n \in Nat \ {0}, NEW bags \in [1..n -> Bags],
           NEW rr, rr = [i \in 1..n - 1 |-> bags[i]]
    PROVE  /\ Product(bags) = Times(Product(rr), bags[n])
           /\ n = 1 => Product(bags) = bags[1]
<1>1. PICK f \in [0..n -> Bags] :
          /\ f[0] = One /\ \A i \in 1..n : f[i] = Times(f[i - 1], bags[i])
          /\ Product(bags) = f[n]
    BY ProductSteps
<1>2. rr \in [1..n - 1 -> Bags] /\ n - 1 \in Nat
    OBVIOUS
<1>3. \A i \in 1..n - 1 : f[i] = Times(f[i - 1], rr[i])
    BY <1>1
<1>4. Product(rr) = f[n - 1]
    BY <1>1, <1>2, <1>3, ProductIs
<1>5. n \in 1..n
    OBVIOUS
<1>6. n = 1 => Product(bags) = bags[1]
    <2> SUFFICES ASSUME n = 1 PROVE f[1] = bags[1]
        BY <1>1
    <2>1. 1 \in 1..n /\ 1 - 1 = 0
        OBVIOUS
    <2>2. f[1] = Times(f[1 - 1], bags[1]) /\ bags[1] \in Bags
        BY <1>1, <2>1
    <2> QED
        BY <1>1, <2>1, <2>2, TimesIs
<1> QED
    BY <1>1, <1>4, <1>5, <1>6

LEMMA SoundAlike ==
    ASSUME NEW j, NEW m, NEW dg, Sound(j, dg),
           Facts(m) = Facts(j), m.from = j.from, m.to = j.to,
           m.chain_in = j.chain_in, m.chain_out = j.chain_out,
           m.reads = j.reads, m.writes = j.writes, m.factors = j.factors,
           m.first = j.first, m.last = j.last, m.opens => j.opens, m.shards = j.shards
    PROVE  Sound(m, dg)
<1>1. m.shape = j.shape /\ m.digest = j.digest /\ m.io = j.io /\ m.exit = j.exit /\ m.total = j.total
    BY FactsAre
<1>2. Fits(m)
    BY <1>1 DEF Sound, Fits
<1>3. Verifies(m)
    BY <1>1 DEF Sound, Verifies
<1>4. InTime(m)
    BY <1>1 DEF Sound, InTime
<1>5. Adds(m)
    BY <1>1 DEF Sound, Adds
<1>6. Chains(m)
    BY <1>1 DEF Sound, Chains, SegmentsUnder
<1>7. Settles(m, dg)
    BY <1>1 DEF Sound, Settles
<1> QED
    BY <1>2, <1>3, <1>4, <1>5, <1>6, <1>7 DEF Sound

\* The journal of the first k of some children.
JournalTo(js, k) ==
    [shape |-> js[1].shape, digest |-> js[1].digest, io |-> js[1].io, exit |-> js[1].exit,
     total |-> js[1].total, from |-> js[1].from, to |-> js[k].to,
     chain_in |-> js[1].chain_in, chain_out |-> js[k].chain_out,
     reads |-> Product([i \in 1..k |-> js[i].reads]),
     writes |-> Product([i \in 1..k |-> js[i].writes]),
     factors |-> js[k].factors, first |-> js[1].first, last |-> js[k].last,
     opens |-> \A i \in 1..k : js[i].opens,
     shards |-> FlattenSeq([i \in 1..k |-> js[i].shards])]

LEMMA JournalGrows ==
    ASSUME NEW n \in Nat \ {0}, NEW js, NEW dg, \A i \in 1..n : Sound(js[i], dg),
           \A i \in 1..n - 1 : Neighbours(js[i], js[i + 1])
    PROVE  Sound(JournalTo(js, n), dg)
<1>1. \A i \in 1..n : /\ js[i].reads \in Bags /\ js[i].writes \in Bags
                      /\ js[i].shards \in Seq(Proofs)
    BY ProductsJoin DEF Sound, Fits, Adds
<1> DEFINE M(k) == JournalTo(js, k)
           bad == {k \in 1..n : ~(Sound(M(k), dg) /\ Facts(js[k]) = Facts(js[1]))}
<1>2. ASSUME NEW k \in 1..n
      PROVE  /\ Facts(M(k)) = Facts(js[1]) /\ M(k).from = js[1].from /\ M(k).to = js[k].to
             /\ M(k).chain_in = js[1].chain_in /\ M(k).chain_out = js[k].chain_out
             /\ M(k).reads = Product([i \in 1..k |-> js[i].reads])
             /\ M(k).writes = Product([i \in 1..k |-> js[i].writes])
             /\ M(k).factors = js[k].factors /\ M(k).first = js[1].first /\ M(k).last = js[k].last
             /\ M(k).opens = \A i \in 1..k : js[i].opens
             /\ M(k).shards = FlattenSeq([i \in 1..k |-> js[i].shards])
    BY DEF JournalTo, Facts
<1>3. ASSUME NEW k \in 1..n
      PROVE  /\ k > 1 => /\ M(k).reads = Times(M(k - 1).reads, js[k].reads)
                         /\ M(k).writes = Times(M(k - 1).writes, js[k].writes)
                         /\ M(k).shards = M(k - 1).shards \o js[k].shards
             /\ k = 1 => /\ M(k).reads = js[1].reads /\ M(k).writes = js[1].writes
                         /\ M(k).shards = js[1].shards
    <2> DEFINE r == [i \in 1..k |-> js[i].reads]
               w == [i \in 1..k |-> js[i].writes]
               s == [i \in 1..k |-> js[i].shards]
               rr == [i \in 1..k - 1 |-> r[i]]
               ww == [i \in 1..k - 1 |-> w[i]]
               ss == [i \in 1..k - 1 |-> s[i]]
    <2>1. r \in [1..k -> Bags] /\ w \in [1..k -> Bags] /\ s \in [1..k -> Seq(Proofs)]
        BY <1>1
    <2>2. /\ rr = [i \in 1..k - 1 |-> js[i].reads] /\ ww = [i \in 1..k - 1 |-> js[i].writes]
          /\ ss = [i \in 1..k - 1 |-> js[i].shards]
        OBVIOUS
    <2>3. r[k] = js[k].reads /\ w[k] = js[k].writes /\ s[k] = js[k].shards /\ k \in Nat \ {0}
        OBVIOUS
    <2>r. rr = [i \in 1..k - 1 |-> r[i]] /\ ww = [i \in 1..k - 1 |-> w[i]] /\ ss = [i \in 1..k - 1 |-> s[i]]
        OBVIOUS
    <2>m. M(k).reads = Product(r) /\ M(k).writes = Product(w) /\ M(k).shards = FlattenSeq(s)
        BY <1>2
    <2>n. k > 1 => M(k - 1).reads = Product(rr) /\ M(k - 1).writes = Product(ww) /\ M(k - 1).shards = FlattenSeq(ss)
        <3> SUFFICES ASSUME k > 1
                     PROVE  M(k - 1).reads = Product(rr) /\ M(k - 1).writes = Product(ww) /\ M(k - 1).shards = FlattenSeq(ss)
            OBVIOUS
        <3>1. k - 1 \in 1..n
            OBVIOUS
        <3> QED
            BY <1>2, <2>2, <3>1
    <2> HIDE DEF r, w, s, rr, ww, ss, M
    <2>4. Product(r) = Times(Product(rr), r[k]) /\ (k = 1 => Product(r) = r[1])
        BY <2>1, <2>3, <2>r, ProductOneMore
    <2>5. Product(w) = Times(Product(ww), w[k]) /\ (k = 1 => Product(w) = w[1])
        BY <2>1, <2>3, <2>r, ProductOneMore
    <2>6. FlattenSeq(s) = FlattenSeq(ss) \o s[k]
        BY <2>1, <2>3, <2>r, FlattenOneMore
    <2>7. k = 1 => FlattenSeq(s) = s[1]
        <3> SUFFICES ASSUME k = 1 PROVE FlattenSeq(s) = s[1]
            OBVIOUS
        <3>1. ss \in [1..0 -> Seq(Proofs)] /\ 0 \in Nat
            BY <2>r
        <3>2. FlattenSeq(ss) = <<>>
            BY <3>1, FlattenTyped
        <3>3. s[1] \in Seq(Proofs)
            BY <2>1
        <3> QED
            BY <2>6, <3>2, <3>3, ConcatEmptySeq
    <2> QED
        BY <2>3, <2>4, <2>5, <2>6, <2>7, <2>m, <2>n
<1> HIDE DEF M
<1>4. 1 \notin bad
    <2>1. 1 \in 1..n
        OBVIOUS
    <2>2. Sound(js[1], dg)
        BY <2>1
    <2>3. M(1).opens => js[1].opens
        <3>1. M(1).opens = (\A i \in 1..1 : js[i].opens)
            BY <1>2, <2>1
        <3>2. 1 \in 1..1
            OBVIOUS
        <3> QED
            BY <3>1, <3>2
    <2>4. Sound(M(1), dg)
        BY <1>2, <1>3, <2>1, <2>2, <2>3, SoundAlike
    <2> QED
        BY <2>4
<1>5. ASSUME NEW i \in 1..n, i - 1 \notin bad, i # 1
      PROVE  i \notin bad
    <2>1. i - 1 \in 1..n /\ i - 1 \in 1..n - 1 /\ i - 1 + 1 = i
        BY <1>5
    <2>2. Sound(M(i - 1), dg) /\ Facts(js[i - 1]) = Facts(js[1])
        BY <1>5, <2>1
    <2>3. Neighbours(js[i - 1], js[i]) /\ Sound(js[i], dg)
        BY <2>1
    <2> HIDE DEF bad
    <2>4. /\ Facts(js[i]) = Facts(js[1]) /\ js[i].from = js[i - 1].to
          /\ js[i].chain_in = js[i - 1].chain_out /\ TsWindowsMeet(js[i - 1].last, js[i].first)
        BY <2>2, <2>3 DEF Neighbours
    <2>5. /\ Facts(M(i - 1)) = Facts(js[1]) /\ M(i - 1).to = js[i - 1].to
          /\ M(i - 1).chain_out = js[i - 1].chain_out /\ M(i - 1).last = js[i - 1].last
        BY <1>2, <2>1
    <2>6. M(i).opens => M(i - 1).opens /\ js[i].opens
        <3>1. M(i).opens = (\A o \in 1..i : js[o].opens) /\ M(i - 1).opens = (\A o \in 1..i - 1 : js[o].opens)
            BY <1>2, <2>1
        <3>2. i \in 1..i /\ \A o \in 1..i - 1 : o \in 1..i
            OBVIOUS
        <3> QED
            BY <3>1, <3>2
    <2>7. Joined(M(i), M(i - 1), js[i])
        <3>1. Facts(M(i)) = Facts(M(i - 1)) /\ M(i).from = M(i - 1).from /\ M(i).to = js[i].to
            BY <1>2, <2>1
        <3>2. /\ M(i).chain_in = M(i - 1).chain_in /\ M(i).chain_out = js[i].chain_out
              /\ M(i).factors = js[i].factors /\ M(i).first = M(i - 1).first /\ M(i).last = js[i].last
            BY <1>2, <2>1
        <3>3. /\ M(i).reads = Times(M(i - 1).reads, js[i].reads)
              /\ M(i).writes = Times(M(i - 1).writes, js[i].writes)
              /\ M(i).shards = M(i - 1).shards \o js[i].shards
            <4>1. i > 1
                BY <1>5
            <4> QED
                BY <1>3, <4>1
        <3> QED
            BY <2>6, <3>1, <3>2, <3>3 DEF Joined
    <2>8. Sound(M(i), dg)
        BY <2>2, <2>3, <2>4, <2>5, <2>7, JoinedIsSound
    <2> QED
        BY <2>4, <2>8 DEF bad
<1>6. bad \in SUBSET (0..n) /\ 0 \notin bad
    OBVIOUS
<1> HIDE DEF bad
<1>7. \A i \in 1..n : i - 1 \notin bad => i \notin bad
    BY <1>4, <1>5
<1>8. n \in Nat /\ n \in 1..n
    OBVIOUS
<1>9. bad = {}
    BY <1>6, <1>7, <1>8, SameSteps
<1> QED
    BY <1>8, <1>9 DEF bad, M

\* What a node publishes of sound children is sound (node.rs `internal`).
LEMMA NodeIsSound ==
    ASSUME NEW children, NEW ids, NEW dg, InternalHolds(children, ids),
           \A i \in 1..Len(children) : Sound(children[i].journal, dg)
    PROVE  Sound(InternalJournal(children, ids), dg)
<1> DEFINE n == Len(children)
           js == [i \in 1..n |-> children[i].journal]
           m == InternalJournal(children, ids)
           j == JournalTo(js, n)
<1>1. n \in Nat \ {0} /\ \A i \in 1..Len(js) - 1 : Neighbours(js[i], js[i + 1])
    <2>1. n \in 2..4 /\ \A i \in 1..Len(js) - 1 : Neighbours(js[i], js[i + 1])
        BY Zenon DEF InternalHolds
    <2> HIDE DEF js, n
    <2> QED
        BY <2>1
<1>2. Len(js) = n /\ \A i \in 1..n : Sound(js[i], dg)
    BY <1>1
<1>3. /\ m.shape = js[1].shape /\ m.digest = js[1].digest /\ m.io = js[1].io /\ m.exit = js[1].exit
      /\ m.total = js[1].total /\ m.from = js[1].from /\ m.to = Last(js).to
      /\ m.chain_in = js[1].chain_in /\ m.chain_out = Last(js).chain_out
      /\ m.reads = Product([i \in 1..Len(js) |-> js[i].reads])
      /\ m.writes = Product([i \in 1..Len(js) |-> js[i].writes])
      /\ m.factors = Last(js).factors /\ m.first = js[1].first /\ m.last = Last(js).last
      /\ m.opens = (\A i \in 1..Len(js) : js[i].opens)
      /\ m.shards = FlattenSeq([i \in 1..Len(js) |-> js[i].shards])
    BY DEF InternalJournal
<1>4. Last(js) = js[n]
    BY <1>2 DEF Last
<1> HIDE DEF m, js, n
<1>5. /\ j.shape = js[1].shape /\ j.digest = js[1].digest /\ j.io = js[1].io /\ j.exit = js[1].exit
      /\ j.total = js[1].total /\ j.from = js[1].from /\ j.to = js[n].to
      /\ j.chain_in = js[1].chain_in /\ j.chain_out = js[n].chain_out
      /\ j.reads = Product([i \in 1..n |-> js[i].reads])
      /\ j.writes = Product([i \in 1..n |-> js[i].writes])
      /\ j.factors = js[n].factors /\ j.first = js[1].first /\ j.last = js[n].last
      /\ j.opens = (\A i \in 1..n : js[i].opens)
      /\ j.shards = FlattenSeq([i \in 1..n |-> js[i].shards])
    BY DEF JournalTo
<1>6. Sound(j, dg)
    BY <1>1, <1>2, JournalGrows
<1> HIDE DEF j
<1>7. Facts(m) = Facts(j)
    BY <1>3, <1>5 DEF Facts
<1>8. /\ m.from = j.from /\ m.to = j.to /\ m.chain_in = j.chain_in /\ m.chain_out = j.chain_out
      /\ m.reads = j.reads /\ m.writes = j.writes /\ m.factors = j.factors
      /\ m.first = j.first /\ m.last = j.last /\ m.shards = j.shards
    BY <1>2, <1>3, <1>4, <1>5
<1>9. m.opens => j.opens
    BY <1>2, <1>3, <1>5
<1>10. Sound(m, dg)
    BY <1>6, <1>7, <1>8, <1>9, SoundAlike
<1> QED
    BY <1>10 DEF m

-----------------------------------------------------------------------------
(* The plan *)

LEMMA StepsStay ==
    ASSUME NEW n \in Nat, NEW S, NEW f, f[0] \in S,
           \A i \in 1..n : f[i - 1] \in S => f[i] \in S
    PROVE  \A i \in 0..n : f[i] \in S
<1> DEFINE bad == {i \in 0..n : f[i] \notin S}
<1>1. bad \in SUBSET (0..n) /\ 0 \notin bad /\ \A i \in 1..n : i - 1 \notin bad => i \notin bad
    OBVIOUS
<1> HIDE DEF bad
<1>2. bad = {}
    BY <1>1, SameSteps
<1> QED
    BY <1>2 DEF bad

LeafNodes == [kind : {"leaf"}, from : Nat, to : Nat]
NodesOver(k) == [kind : {"node"}, children : Seq(1..k)]
AnyNodes == LeafNodes \cup [kind : {"node"}, children : Seq(Nat)]

\* A node's children come before it.
Ordered(nodes) ==
    /\ nodes \in Seq(AnyNodes) /\ Len(nodes) > 0
    /\ \A i \in 1..Len(nodes) : nodes[i] \in LeafNodes \cup NodesOver(i - 1)

PlanOf(plan) ==
    /\ plan.costs \in Seq(Nat) /\ plan.costs # <<>>
    /\ plan.leaf \in Nat \ {0} /\ plan.budget \in Nat /\ plan.fan_in \in Nat \ {0, 1}

LeavesTo == [leaves : Seq(LeafNodes), from : Nat, spent : Nat]

LEMMA CloseTyped ==
    ASSUME NEW plan, PlanOf(plan), NEW acc \in LeavesTo, NEW i \in 1..Len(plan.costs)
    PROVE  Close(plan, acc, i) \in LeavesTo
<1>1. plan.costs[i] \in Nat /\ i - 1 \in Nat
    BY DEF PlanOf
<1>2. acc.leaves \in Seq(LeafNodes) /\ acc.from \in Nat /\ acc.spent \in Nat
    BY DEF LeavesTo
<1>3. [kind |-> "leaf", from |-> acc.from, to |-> i - 1] \in LeafNodes
    BY <1>1, <1>2 DEF LeafNodes
<1>4. Append(acc.leaves, [kind |-> "leaf", from |-> acc.from, to |-> i - 1]) \in Seq(LeafNodes)
    BY <1>2, <1>3
<1>5. acc.spent + plan.costs[i] \in Nat
    BY <1>1, <1>2
<1>6. [acc EXCEPT !.spent = @ + plan.costs[i]] \in LeavesTo
    BY <1>5 DEF LeavesTo
<1>7. [leaves |-> Append(acc.leaves, [kind |-> "leaf", from |-> acc.from, to |-> i - 1]),
       from |-> i - 1, spent |-> plan.costs[i]] \in LeavesTo
    BY <1>1, <1>4 DEF LeavesTo
<1> QED
    BY <1>6, <1>7 DEF Close

LEMMA LeavesSteps ==
    ASSUME NEW plan, PlanOf(plan)
    PROVE  \E upto :
              /\ upto[0] = [leaves |-> <<>>, from |-> 0, spent |-> 0]
              /\ \A i \in 1..Len(plan.costs) : upto[i] = Close(plan, upto[i - 1], i)
              /\ \A i \in 0..Len(plan.costs) : upto[i] \in LeavesTo
              /\ Leaves(plan) = Append(upto[Len(plan.costs)].leaves,
                                      [kind |-> "leaf", from |-> upto[Len(plan.costs)].from,
                                       to |-> Len(plan.costs)])
<1> DEFINE n == Len(plan.costs)
           base == [leaves |-> <<>>, from |-> 0, spent |-> 0]
           S == LeavesTo
           G == [q \in S \X (1..n) |-> Close(plan, q[1], q[2])]
           F(f) == [i \in 0..n |-> IF i = 0 THEN base ELSE Close(plan, f[i - 1], i)]
           upto == CHOOSE f : f = F(f)
<1>0. n \in Nat
    BY DEF PlanOf
<1>1. base \in S
    BY DEF LeavesTo
<1>2. \A acc \in S, i \in 1..n : Close(plan, acc, i) \in S
    BY CloseTyped
<1>d. Leaves(plan) = Append(upto[n].leaves, [kind |-> "leaf", from |-> upto[n].from, to |-> n])
    BY DEF Leaves
<1> HIDE DEF n, base, S
<1>3. G \in [S \X (1..n) -> S]
    BY <1>2
<1>4. \A a \in S, i \in 1..n : G[<<a, i>>] = Close(plan, a, i)
    OBVIOUS
<1> HIDE DEF G
<1>5. PICK f \in [0..n -> S] : Follows(f, n, base, G)
    BY <1>0, <1>1, <1>3, StepsExist
<1>6. f = F(f)
    <2>1. \A i \in 0..n : i # 0 => i \in 1..n /\ i - 1 \in 0..n
        BY <1>0
    <2>2. \A i \in 0..n : f[i] = IF i = 0 THEN base ELSE Close(plan, f[i - 1], i)
        BY <1>4, <1>5, <2>1 DEF Follows
    <2> QED
        BY <2>2
<1>7. upto = F(upto)
    BY <1>6
<1> HIDE DEF upto
<1>8. upto[0] = base /\ \A i \in 1..n : upto[i] = Close(plan, upto[i - 1], i)
    BY <1>0, <1>7
<1>9. \A i \in 0..n : upto[i] \in S
    BY <1>0, <1>1, <1>2, <1>8, StepsStay
<1> QED
    BY <1>d, <1>8, <1>9 DEF base, S, n

LEMMA LeavesTyped ==
    ASSUME NEW plan, PlanOf(plan)
    PROVE  Leaves(plan) \in Seq(LeafNodes) /\ Len(Leaves(plan)) > 0
<1> DEFINE n == Len(plan.costs)
<1>1. PICK upto :
          /\ upto[n] \in LeavesTo
          /\ Leaves(plan) = Append(upto[n].leaves, [kind |-> "leaf", from |-> upto[n].from, to |-> n])
    <2>1. n \in Nat /\ n \in 0..n
        BY DEF PlanOf
    <2> QED
        BY <2>1, LeavesSteps
<1>2. upto[n].leaves \in Seq(LeafNodes) /\ upto[n].from \in Nat
    BY <1>1 DEF LeavesTo
<1>3. [kind |-> "leaf", from |-> upto[n].from, to |-> n] \in LeafNodes
    BY <1>2 DEF LeafNodes, PlanOf
<1> QED
    BY <1>1, <1>2, <1>3

Grown(k) ==
    {r \in [nodes : Seq(AnyNodes), next : Seq(Nat)] :
        Ordered(r.nodes) /\ Len(r.nodes) >= k /\ r.next \in Seq(1..Len(r.nodes))}

LEMMA GrownIs ==
    ASSUME NEW k, NEW nodes \in Seq(AnyNodes), Ordered(nodes), NEW n, n = Len(nodes), n >= k,
           NEW next \in Seq(Nat), next \in Seq(1..n), NEW r, r = [nodes |-> nodes, next |-> next]
    PROVE  r \in Grown(k)
<1>1. r \in [nodes : Seq(AnyNodes), next : Seq(Nat)] /\ r.nodes = nodes /\ r.next = next
    OBVIOUS
<1> QED
    BY <1>1 DEF Grown

LEMMA MembersOf ==
    ASSUME NEW T, NEW s \in Seq(T), NEW i \in 1..Len(s)
    PROVE  s[i] \in T
OBVIOUS

LEMMA WiderSeq ==
    ASSUME NEW S, NEW T, S \subseteq T, NEW s \in Seq(S)
    PROVE  s \in Seq(T)
<1>1. s \in [1..Len(s) -> T] /\ Len(s) \in Nat
    OBVIOUS
<1> QED
    BY <1>1

LEMMA ChunksTyped ==
    ASSUME NEW T, NEW s \in Seq(T), NEW k \in Nat \ {0}
    PROVE  /\ Len(Chunks(s, k)) \in Nat
           /\ \A g \in 1..Len(Chunks(s, k)) : Chunks(s, k)[g] \in Seq(T)
<1> DEFINE m == (Len(s) + k - 1) \div k
           to(g) == IF g * k < Len(s) THEN g * k ELSE Len(s)
           chunk(g) == SubSeq(s, (g - 1) * k + 1, to(g))
<1>1. m \in Nat
    OBVIOUS
<1>2. Chunks(s, k) = [g \in 1..m |-> chunk(g)]
    BY DEF Chunks
<1>3. ASSUME NEW g \in 1..m
      PROVE  chunk(g) \in Seq(T)
    <2>1. g \in Nat \ {0} /\ g - 1 \in Nat
        BY <1>1
    <2>2. (g - 1) * k \in Nat /\ g * k \in Nat
        BY <2>1
    <2> DEFINE a == (g - 1) * k + 1
               b == to(g)
    <2>3. a \in Nat \ {0} /\ b \in Nat /\ b <= Len(s)
        BY <2>2
    <2> HIDE DEF a, b
    <2>4. \A i \in a..b : s[i] \in T
        BY <2>3
    <2>5. SubSeq(s, a, b) \in Seq(T)
        BY <2>3, <2>4, SubSeqProperties
    <2> QED
        BY <2>5 DEF a, b
<1> HIDE DEF chunk, m
<1>4. Len(Chunks(s, k)) = m
    BY <1>1, <1>2
<1> QED
    BY <1>1, <1>2, <1>3, <1>4

LEMMA OrderedMore ==
    ASSUME NEW nodes, Ordered(nodes), NEW group \in Seq(1..Len(nodes)),
           NEW more, more = Append(nodes, [kind |-> "node", children |-> group])
    PROVE  Ordered(more) /\ Len(more) = Len(nodes) + 1
<1> DEFINE x == [kind |-> "node", children |-> group]
           n == Len(nodes)
<1>1. n \in Nat /\ n > 0 /\ nodes \in Seq(AnyNodes)
    BY DEF Ordered
<1>2. x \in NodesOver(n)
    BY DEF NodesOver
<1>3. group \in Seq(Nat)
    <2>1. 1..n \subseteq Nat /\ group \in Seq(1..n)
        OBVIOUS
    <2> HIDE DEF n
    <2> QED
        BY <2>1, WiderSeq
<1>4. x \in AnyNodes
    BY <1>3 DEF AnyNodes
<1>5. more = Append(nodes, x)
    OBVIOUS
<1> HIDE DEF x
<1>6. more \in Seq(AnyNodes) /\ Len(more) = n + 1 /\ more[n + 1] = x /\ \A i \in 1..n : more[i] = nodes[i]
    BY <1>1, <1>4, <1>5
<1>7. ASSUME NEW i \in 1..n + 1
      PROVE  more[i] \in LeafNodes \cup NodesOver(i - 1)
    <2>1. CASE i = n + 1
        <3>1. i - 1 = n
            BY <2>1, <1>1
        <3> QED
            BY <3>1, <2>1, <1>2, <1>6
    <2>2. CASE i # n + 1
        <3>1. i \in 1..n
            BY <2>2, <1>1
        <3> QED
            BY <3>1, <1>6 DEF Ordered
    <2> QED
        BY <2>1, <2>2
<1> QED
    BY <1>1, <1>6, <1>7 DEF Ordered

LEMMA ClimbTyped ==
    ASSUME NEW k \in Nat, NEW acc \in Grown(k), NEW group \in Seq(1..k)
    PROVE  Climb(acc, group) \in Grown(k)
<1> DEFINE n == Len(acc.nodes)
           more == Append(acc.nodes, [kind |-> "node", children |-> group])
<1>1. /\ Ordered(acc.nodes) /\ n >= k /\ n \in Nat /\ acc.nodes \in Seq(AnyNodes)
      /\ acc.next \in Seq(Nat) /\ acc.next \in Seq(1..n)
      /\ acc = [nodes |-> acc.nodes, next |-> acc.next]
    BY DEF Grown
<1>2. 1..k \subseteq 1..n /\ 1..n \subseteq 1..n + 1 /\ 1..n \subseteq Nat
    BY <1>1
<1>3. group \in Seq(1..n)
    <2> HIDE DEF n
    <2> QED
        BY <1>2, WiderSeq
<1>4. Ordered(more) /\ Len(more) = n + 1
    BY <1>1, <1>3, OrderedMore
<1>5. more \in Seq(AnyNodes)
    BY <1>4 DEF Ordered
<1> HIDE DEF n, more
<1>6. CASE Len(group) = 1
    <2>1. group[1] \in 1..n
        <3>1. 1 \in 1..Len(group)
            BY <1>6
        <3> QED
            BY <1>3, <3>1, MembersOf
    <2>2. Append(acc.next, group[1]) \in Seq(1..n) /\ Append(acc.next, group[1]) \in Seq(Nat)
        BY <1>1, <1>2, <2>1
    <2>3. Climb(acc, group) = [nodes |-> acc.nodes, next |-> Append(acc.next, group[1])]
        BY <1>1, <1>6 DEF Climb
    <2> DEFINE nodes == acc.nodes
               next == Append(acc.next, group[1])
    <2>4. /\ Climb(acc, group) = [nodes |-> nodes, next |-> next] /\ Ordered(nodes) /\ n = Len(nodes) /\ n >= k
          /\ nodes \in Seq(AnyNodes) /\ next \in Seq(Nat) /\ next \in Seq(1..n)
        BY <1>1, <2>2, <2>3 DEF n
    <2> HIDE DEF nodes, next
    <2> QED
        BY <2>4, GrownIs
<1>7. CASE Len(group) # 1
    <2>1. acc.next \in Seq(1..n + 1)
        BY <1>1, <1>2
    <2>2. n + 1 \in 1..n + 1 /\ n + 1 \in Nat
        BY <1>1
    <2>3. Append(acc.next, n + 1) \in Seq(1..n + 1) /\ Append(acc.next, n + 1) \in Seq(Nat)
        BY <1>1, <2>1, <2>2
    <2>4. Climb(acc, group) = [nodes |-> more, next |-> Append(acc.next, n + 1)]
        BY <1>7 DEF Climb, more, n
    <2>5. n + 1 >= k
        BY <1>1
    <2> DEFINE next == Append(acc.next, n + 1)
    <2>6. /\ Climb(acc, group) = [nodes |-> more, next |-> next]
          /\ next \in Seq(Nat) /\ next \in Seq(1..n + 1)
        BY <2>3, <2>4
    <2> HIDE DEF next
    <2> QED
        BY <1>4, <1>5, <2>5, <2>6, GrownIs
<1> QED
    BY <1>6, <1>7

LEMMA LevelSteps ==
    ASSUME NEW acc \in Grown(1), NEW fan_in \in Nat \ {0}
    PROVE  \E upto :
              LET groups == Chunks(acc.next, fan_in)
              IN  /\ Len(groups) \in Nat
                  /\ upto[0] = [acc EXCEPT !.next = <<>>]
                  /\ \A g \in 1..Len(groups) : upto[g] = Climb(upto[g - 1], groups[g])
                  /\ \A g \in 0..Len(groups) : upto[g] \in Grown(1)
                  /\ Level(acc, fan_in) = IF Len(acc.next) = 1 THEN acc ELSE upto[Len(groups)]
<1> DEFINE groups == Chunks(acc.next, fan_in)
           m == Len(groups)
           k == Len(acc.nodes)
           S == Grown(k)
           base == [acc EXCEPT !.next = <<>>]
           G == [q \in S \X (1..m) |-> Climb(q[1], groups[q[2]])]
           F(f) == [g \in 0..m |-> IF g = 0 THEN base ELSE Climb(f[g - 1], groups[g])]
           upto == CHOOSE f : f = F(f)
<1>1. /\ k \in Nat /\ k >= 1 /\ acc.next \in Seq(1..k) /\ Ordered(acc.nodes) /\ acc.nodes \in Seq(AnyNodes)
      /\ acc = [nodes |-> acc.nodes, next |-> acc.next]
    BY DEF Grown
<1>2. m \in Nat /\ \A g \in 1..m : groups[g] \in Seq(1..k)
    <2> HIDE DEF k
    <2> QED
        BY <1>1, ChunksTyped
<1>3. base \in S
    <2>1. base = [nodes |-> acc.nodes, next |-> <<>>]
        BY <1>1
    <2> DEFINE nodes == acc.nodes
               next == <<>>
    <2>2. next \in Seq(Nat) /\ next \in Seq(1..k) /\ nodes \in Seq(AnyNodes) /\ Ordered(nodes)
          /\ k = Len(nodes) /\ k >= k /\ base = [nodes |-> nodes, next |-> next]
        BY <1>1, <2>1
    <2> HIDE DEF nodes, next, base, k
    <2> QED
        BY <2>2, GrownIs
<1>4. S \subseteq Grown(1)
    BY <1>1 DEF Grown, Ordered
<1>d. Level(acc, fan_in) = IF Len(acc.next) = 1 THEN acc ELSE upto[m]
    BY DEF Level
<1>5. \A r \in S, g \in 1..m : Climb(r, groups[g]) \in S
    <2> HIDE DEF k, m, groups
    <2> QED
        BY <1>1, <1>2, ClimbTyped
<1> HIDE DEF groups, m, k, S, base
<1>6. G \in [S \X (1..m) -> S]
    BY <1>5
<1>7. \A r \in S, g \in 1..m : G[<<r, g>>] = Climb(r, groups[g])
    OBVIOUS
<1> HIDE DEF G
<1>8. PICK f \in [0..m -> S] : Follows(f, m, base, G)
    BY <1>2, <1>3, <1>6, StepsExist
<1>9. f = F(f)
    <2>1. \A g \in 0..m : g # 0 => g \in 1..m /\ g - 1 \in 0..m
        BY <1>2
    <2>2. \A g \in 0..m : f[g] = IF g = 0 THEN base ELSE Climb(f[g - 1], groups[g])
        BY <1>7, <1>8, <2>1 DEF Follows
    <2> QED
        BY <2>2
<1>10. upto = F(upto)
    BY <1>9
<1> HIDE DEF upto
<1>11. upto[0] = base /\ \A g \in 1..m : upto[g] = Climb(upto[g - 1], groups[g])
    BY <1>2, <1>10
<1>12. \A g \in 0..m : upto[g] \in S
    <2>1. \A g \in 1..m : upto[g - 1] \in S => upto[g] \in S
        BY <1>5, <1>11
    <2> QED
        BY <1>2, <1>3, <1>11, <2>1, StepsStay
<1> QED
    BY <1>2, <1>4, <1>11, <1>12, <1>d DEF base, m, groups

LEMMA LevelTyped ==
    ASSUME NEW acc \in Grown(1), NEW fan_in \in Nat \ {0}
    PROVE  Level(acc, fan_in) \in Grown(1)
<1> DEFINE m == Len(Chunks(acc.next, fan_in))
<1>1. PICK upto : /\ m \in Nat /\ \A g \in 0..m : upto[g] \in Grown(1)
                  /\ Level(acc, fan_in) = IF Len(acc.next) = 1 THEN acc ELSE upto[m]
    BY LevelSteps
<1> QED
    BY <1>1

LEMMA PlanSteps ==
    ASSUME NEW plan, PlanOf(plan)
    PROVE  \E upto :
              LET n == Len(Leaves(plan))
              IN  /\ n \in Nat /\ upto[0] = [nodes |-> Leaves(plan), next |-> [j \in 1..n |-> j]]
                  /\ \A i \in 1..n : upto[i] = Level(upto[i - 1], plan.fan_in)
                  /\ \A i \in 0..n : upto[i] \in Grown(1)
                  /\ Plan(plan) = upto[n].nodes
<1> DEFINE leaves == Leaves(plan)
           n == Len(leaves)
           k == plan.fan_in
           S == Grown(1)
           next == [j \in 1..n |-> j]
           base == [nodes |-> leaves, next |-> next]
           G == [q \in S \X (1..n) |-> Level(q[1], k)]
           F(f) == [i \in 0..n |-> IF i = 0 THEN base ELSE Level(f[i - 1], k)]
           upto == CHOOSE f : f = F(f)
<1>0. leaves \in Seq(LeafNodes) /\ n > 0 /\ n \in Nat /\ k \in Nat \ {0}
    BY LeavesTyped DEF PlanOf
<1>d. Plan(plan) = upto[n].nodes
    BY DEF Plan
<1>1. base \in S
    <2>1. next \in Seq(1..n) /\ next \in Seq(Nat)
        BY <1>0
    <2>2. leaves \in Seq(AnyNodes)
        <3> HIDE DEF leaves
        <3> QED
            BY <1>0, WiderSeq DEF AnyNodes
    <2>3. Ordered(leaves)
        <3>1. \A i \in 1..n : leaves[i] \in LeafNodes
            BY <1>0
        <3> QED
            BY <1>0, <2>2, <3>1 DEF Ordered
    <2>4. n = Len(leaves) /\ n >= 1 /\ base = [nodes |-> leaves, next |-> next]
        BY <1>0
    <2> HIDE DEF leaves, next, base, n
    <2> QED
        BY <2>1, <2>2, <2>3, <2>4, GrownIs
<1>2. \A r \in S : Level(r, k) \in S
    <2> HIDE DEF k
    <2> QED
        BY <1>0, LevelTyped
<1> HIDE DEF leaves, n, k, S, base
<1>3. G \in [S \X (1..n) -> S]
    BY <1>2
<1>4. \A r \in S, i \in 1..n : G[<<r, i>>] = Level(r, k)
    OBVIOUS
<1> HIDE DEF G
<1>5. PICK f \in [0..n -> S] : Follows(f, n, base, G)
    BY <1>0, <1>1, <1>3, StepsExist
<1>6. f = F(f)
    <2>1. \A i \in 0..n : i # 0 => i \in 1..n /\ i - 1 \in 0..n
        BY <1>0
    <2>2. \A i \in 0..n : f[i] = IF i = 0 THEN base ELSE Level(f[i - 1], k)
        BY <1>4, <1>5, <2>1 DEF Follows
    <2> QED
        BY <2>2
<1>7. upto = F(upto)
    BY <1>6
<1> HIDE DEF upto
<1>8. upto[0] = base /\ \A i \in 1..n : upto[i] = Level(upto[i - 1], k)
    BY <1>0, <1>7
<1>9. \A i \in 0..n : upto[i] \in S
    <2>1. \A i \in 1..n : upto[i - 1] \in S => upto[i] \in S
        BY <1>2, <1>8
    <2> QED
        BY <1>0, <1>1, <1>8, <2>1, StepsStay
<1> QED
    BY <1>0, <1>d, <1>8, <1>9 DEF S, base, n, k, leaves

\* The planned tree's nodes are leaves and nodes over nodes before them.
LEMMA PlansAreOrdered ==
    ASSUME NEW plan, PlanOf(plan)
    PROVE  Ordered(Plan(plan))
<1> DEFINE n == Len(Leaves(plan))
<1>1. PICK upto : n \in Nat /\ upto[n] \in Grown(1) /\ Plan(plan) = upto[n].nodes
    <2>1. PICK upto : /\ n \in Nat /\ \A i \in 0..n : upto[i] \in Grown(1)
                      /\ Plan(plan) = upto[n].nodes
        BY PlanSteps
    <2> QED
        BY <2>1
<1> QED
    BY <1>1 DEF Grown
-----------------------------------------------------------------------------
(* The invariant *)

\* A proof a node takes for one of the contract's programs'.
Good(p) ==
    /\ p.exit = 0
    /\ p.program = "leaf" \/ (p.program = "node" /\ p.journal.identities = Programs)

\* The inductive invariant.  A digest is one transcript's: what a leaf's digest
\* is of would not follow it up the tree otherwise.
TreeInv ==
    /\ Ordered(tree) /\ Sequence(proved) /\ token \in {"own", "mixed"}
    /\ DOMAIN digests = Digests
    /\ \A d, e \in Digests : digests[d] = digests[e] /\ digests[d] # <<>> => d = e
    /\ \A i \in 1..Len(proved) : Good(proved[i]) => Sound(proved[i].journal, digests)
    /\ decided = "accepted" => Len(proved) > 0 /\ TopHolds(Last(proved))

LEMMA GoodChildren ==
    ASSUME NEW c, ChildHolds(c, Programs)
    PROVE  Good(c)
<1>1. PICK p \in 1..2 : c.program = Programs[p] /\ (p = 2 => c.journal.identities = Programs)
    BY DEF ChildHolds
<1>2. CASE p = 1
    BY <1>1, <1>2 DEF ChildHolds, Good, Programs
<1>3. CASE p = 2
    BY <1>1, <1>3 DEF ChildHolds, Good, Programs
<1> QED
    BY <1>1, <1>2, <1>3

LEMMA TreeBegins == TreeInit => TreeInv
<1> SUFFICES ASSUME TreeInit PROVE TreeInv
    OBVIOUS
<1>1. Ordered(tree)
    <2>1. PICK plan \in Plans : tree = Plan(plan)
        BY DEF TreeInit
    <2>2. PlanOf(plan)
        BY PlansAssumption DEF PlanOf
    <2> QED
        BY <2>1, <2>2, PlansAreOrdered
<1>2. proved = <<>> /\ token \in {"own", "mixed"} /\ decided = "none"
    BY DEF TreeInit
<1>3. Sequence(proved) /\ Len(proved) = 0
    <2>1. <<>> \in Seq({}) /\ Len(<<>>) = 0
        OBVIOUS
    <2> QED
        BY <1>2, <2>1, SequencesAre
<1> DEFINE Of(d) == CHOOSE s \in Statements : s.digest = d
           Whole1(s) == Transcript(Advice(s, 0, Total(s.counts), s.digest))
<1>4. digests = [d \in Digests |-> IF d = "mixed" THEN <<>>
                                  ELSE Transcript(Advice(Of(d), 0, Total(Of(d).counts), d))]
    BY DEF TreeInit, Digests
<1>5. \A d \in Digests : d # "mixed" => Of(d) \in Statements /\ Of(d).digest = d
    BY DEF Digests
<1>6. \A s, t \in Statements : Whole1(s) = Whole1(t) => s.digest = t.digest
    BY StatementsAssumption
<1>7. \A d \in Digests : d # "mixed" => digests[d] = Whole1(Of(d))
    <2> HIDE DEF Of
    <2> QED
        BY <1>4, <1>5
<1>8. digests["mixed"] = <<>>
    BY <1>4 DEF Digests
<1> HIDE DEF Of, Whole1
<1>9. ASSUME NEW d \in Digests, NEW e \in Digests, digests[d] = digests[e], digests[d] # <<>>
      PROVE  d = e
    <2>1. d # "mixed" /\ e # "mixed"
        BY <1>8, <1>9
    <2> QED
        BY <2>1, <1>5, <1>6, <1>7, <1>9
<1>10. DOMAIN digests = Digests
    BY <1>4
<1> QED
    BY <1>1, <1>2, <1>3, <1>9, <1>10 DEF TreeInv

\* A statement's own advice.
Own(a, s, f, t, d) ==
    /\ a.counts = s.counts /\ a.from = f /\ a.to = t /\ a.digest = d
    /\ a.shards = [i \in 1..t - f |-> ShardProof(s, f + i, d)]

LEMMA OwnIsGiven ==
    ASSUME NEW s \in Statements, NEW f \in Nat, NEW t \in Nat, NEW d \in Digests,
           f < t, t <= Total(s.counts), NEW a, Own(a, s, f, t, d)
    PROVE  Given(a) /\ a.shards \in Seq(Held)
<1>0. /\ a.counts = s.counts /\ a.from = f /\ a.to = t /\ a.digest = d
      /\ a.shards = [i \in 1..t - f |-> ShardProof(s, f + i, d)]
    BY DEF Own
<1>1. s.counts \in [ToSet(Families) -> Nat]
    BY StatementsAssumption
<1>2. Total(s.counts) \in Nat
    BY <1>1, TotalIsNat DEF Counted
<1>3. \A i \in 1..t - f : f + i \in 1..Total(s.counts)
    BY <1>2
<1>4. \A i \in 1..t - f : ShardProof(s, f + i, d) \in Held
    BY <1>3 DEF Held, HeldOf
<1>5. a.shards \in [1..t - f -> Held] /\ t - f \in Nat
    BY <1>0, <1>4
<1>6. a.shards \in Seq(Held) /\ Len(a.shards) = t - f
    BY <1>5
<1>7. a.shards \in Seq(Proofs)
    <2>1. Held \subseteq Proofs
        BY DEF Proofs
    <2> QED
        BY <1>6, <2>1, WiderSeq
<1> QED
    BY <1>0, <1>1, <1>6, <1>7 DEF Given

IsAdvice(a) ==
    a = [counts |-> a.counts, windows |-> a.windows, from |-> a.from, to |-> a.to,
         digest |-> a.digest, io |-> a.io, exit |-> a.exit, identity |-> a.identity,
         chain |-> a.chain, shards |-> a.shards, public |-> a.public, boundary |-> a.boundary]

\* Another shard proof in one place.
LEMMA OneChanged ==
    ASSUME NEW u \in Seq(Proofs), NEW i \in 1..Len(u), NEW q \in Proofs,
           NEW w, w = [u EXCEPT ![i] = q]
    PROVE  w \in Seq(Proofs) /\ Len(w) = Len(u)
OBVIOUS

\* The parts every departure but the first two leaves alone.
Keeps(b, a) ==
    b.counts = a.counts /\ b.from = a.from /\ b.to = a.to /\ b.digest = a.digest

\* A leaf that holds was given parts of what the prover has.
LEMMA DepartedAreGiven ==
    ASSUME NEW s \in Statements, NEW f \in Nat, NEW t \in Nat, NEW d \in Digests,
           NEW a, IsAdvice(a), Own(a, s, f, t, d), DOMAIN digests = Digests,
           NEW b \in Departed(a), LeafHolds(b)
    PROVE  Given(b)
<1>0. \A r \in Statements : Total(r.counts) \in Nat
    BY StatementsAssumption, TotalIsNat DEF Counted
<1>1. b.from < b.to /\ b.to <= Total(b.counts)
    BY DEF LeafHolds
<1>a. /\ a.counts = s.counts /\ a.from = f /\ a.to = t /\ a.digest = d
      /\ a.shards = [i \in 1..t - f |-> ShardProof(s, f + i, d)]
    BY DEF Own
<1>2. \/ b \in Elsewhere(a) \/ b \in OtherShape(a) \/ b \in OtherShard(a)
      \/ b \in OtherTime(a) \/ b \in OtherRoot(a) \/ \E r \in Statements : b \in OtherFact(a, r)
    BY DEF Departed
<1>3. CASE b \in Elsewhere(a)
    <2>1. PICK r \in Statements : \E g \in 0..Total(r.counts) - 1, o \in 1..Total(r.counts) :
              b = Advice(r, g, o, d)
        BY <1>3, <1>a DEF Elsewhere
    <2>2. PICK g \in 0..Total(r.counts) - 1, o \in 1..Total(r.counts) : b = Advice(r, g, o, d)
        BY <2>1
    <2>3. /\ b.counts = r.counts /\ b.from = g /\ b.to = o /\ b.digest = d
          /\ b.shards = [i \in 1..o - g |-> ShardProof(r, g + i, d)]
        BY <2>2 DEF Advice
    <2>4. g \in Nat /\ o \in Nat /\ g < o /\ o <= Total(r.counts)
        BY <1>0, <1>1, <2>3
    <2>5. Own(b, r, g, o, d)
        BY <2>3 DEF Own
    <2> QED
        BY <2>4, <2>5, OwnIsGiven
<1>4. CASE b \in OtherShape(a)
    <2>1. PICK r \in Statements :
              b = [a EXCEPT !.counts = r.counts, !.windows = r.windows,
                            !.shards = [i \in 1..Len(@) |-> ShardProof(r, a.from + i, a.digest)]]
        BY <1>4 DEF OtherShape
    <2>2. b.counts = r.counts /\ b.from = f /\ b.to = t /\ b.digest = d
          /\ b.shards = [i \in 1..Len(a.shards) |-> ShardProof(r, f + i, d)]
        BY <2>1, <1>a DEF IsAdvice
    <2>3. f < t /\ t <= Total(r.counts)
        BY <1>1, <2>2
    <2>4. Len(a.shards) = t - f
        BY <2>3, <1>a
    <2>5. Own(b, r, f, t, d)
        BY <2>2, <2>4 DEF Own
    <2> QED
        BY <2>3, <2>5, OwnIsGiven
<1> DEFINE u == a.shards
<1>5. ASSUME Keeps(b, a)
      PROVE  Given(a) /\ u \in Seq(Held) /\ u \in Seq(Proofs) /\ t - f \in Nat /\ Len(u) = t - f
    <2>1. f < t /\ t <= Total(s.counts)
        BY <1>1, <1>5, <1>a DEF Keeps
    <2>2. Given(a) /\ a.shards \in Seq(Held)
        BY <2>1, OwnIsGiven
    <2> QED
        BY <2>1, <2>2, <1>a DEF Given
<1>6. ASSUME Keeps(b, a), b.shards \in Seq(Proofs), Len(b.shards) = Len(u)
      PROVE  Given(b)
    BY <1>5, <1>6 DEF Keeps, Given
<1>7. CASE b \in OtherShard(a)
    <2>1. PICK i \in 1..Len(a.shards), e \in Digests, r \in Statements :
              a.to <= Total(r.counts) /\ b = [a EXCEPT !.shards[i] = ShardProof(r, a.from + i, e)]
        BY <1>7 DEF OtherShard
    <2>2. Keeps(b, a) /\ b.shards = [u EXCEPT ![i] = ShardProof(r, f + i, e)]
        BY <2>1, <1>a DEF IsAdvice, Keeps
    <2>3. f + i \in 1..Total(r.counts)
        BY <1>0, <1>5, <1>a, <2>1, <2>2
    <2>4. ShardProof(r, f + i, e) \in Proofs
        BY <2>3 DEF Proofs, Held, HeldOf
    <2>5. b.shards \in Seq(Proofs) /\ Len(b.shards) = Len(u)
        <3> HIDE DEF u
        <3> QED
            BY <1>5, <2>1, <2>2, <2>4, OneChanged DEF u
    <2> QED
        BY <1>6, <2>2, <2>5
<1>8. CASE b \in OtherTime(a)
    <2>1. PICK i \in 1..Len(a.shards) : b = [a EXCEPT !.shards[i].ts = <<0, Clock>>]
        BY <1>8 DEF OtherTime
    <2> DEFINE q == [u[i] EXCEPT !.ts = <<0, Clock>>]
    <2>2. Keeps(b, a) /\ b.shards = [u EXCEPT ![i] = q]
        BY <2>1, <1>a DEF IsAdvice, Keeps
    <2>3. u[i] \in Held
        BY <1>5, <2>1, <2>2, MembersOf
    <2>4. q \in Proofs
        BY <2>3 DEF Proofs
    <2>5. PICK o \in Proofs : b.shards = [u EXCEPT ![i] = o]
        BY <2>2, <2>4
    <2>i. i \in 1..Len(u) /\ u \in Seq(Proofs)
        BY <1>5, <2>1, <2>2
    <2>6. b.shards \in Seq(Proofs) /\ Len(b.shards) = Len(u)
        <3> DEFINE w == b.shards
        <3>1. w = [u EXCEPT ![i] = o]
            BY <2>5
        <3> HIDE DEF u, w
        <3>2. w \in Seq(Proofs) /\ Len(w) = Len(u)
            BY <2>5, <2>i, <3>1, OneChanged
        <3> QED
            BY <3>2 DEF w
    <2> QED
        BY <1>6, <2>2, <2>6
<1>9. CASE b \in OtherRoot(a)
    <2>1. PICK i \in 1..Len(a.shards) : b = [a EXCEPT !.shards[i].roots.reads = One]
        BY <1>9 DEF OtherRoot
    <2> DEFINE q == [u[i] EXCEPT !.roots.reads = One]
    <2>2. Keeps(b, a) /\ b.shards = [u EXCEPT ![i] = q]
        BY <2>1, <1>a DEF IsAdvice, Keeps
    <2>3. u[i] \in Held
        BY <1>5, <2>1, <2>2, MembersOf
    <2>4. q \in Proofs
        BY <2>3 DEF Proofs
    <2>5. PICK o \in Proofs : b.shards = [u EXCEPT ![i] = o]
        BY <2>2, <2>4
    <2>i. i \in 1..Len(u) /\ u \in Seq(Proofs)
        BY <1>5, <2>1, <2>2
    <2>6. b.shards \in Seq(Proofs) /\ Len(b.shards) = Len(u)
        <3> DEFINE w == b.shards
        <3>1. w = [u EXCEPT ![i] = o]
            BY <2>5
        <3> HIDE DEF u, w
        <3>2. w \in Seq(Proofs) /\ Len(w) = Len(u)
            BY <2>5, <2>i, <3>1, OneChanged
        <3> QED
            BY <3>2 DEF w
    <2> QED
        BY <1>6, <2>2, <2>6
<1>10. CASE \E r \in Statements : b \in OtherFact(a, r)
    <2>1. Keeps(b, a) /\ b.shards = u
        BY <1>10 DEF OtherFact, IsAdvice, Keeps
    <2> QED
        BY <1>5, <1>6, <2>1
<1> QED
    BY <1>2, <1>3, <1>4, <1>7, <1>8, <1>9, <1>10

OneMore(y, x, v) == y = Append(x, v)
LEMMA AppendedIs ==
    ASSUME NEW x, Sequence(x), NEW v, NEW y, OneMore(y, x, v)
    PROVE  /\ Sequence(y) /\ Len(y) = Len(x) + 1 /\ Len(x) \in Nat /\ y[Len(x) + 1] = v
           /\ \A i \in 1..Len(x) : y[i] = x[i]
<1> DEFINE S == {x[i] : i \in 1..Len(x)}
           T == S \cup {v}
<1>1. x \in Seq(S)
    BY DEF Sequence
<1> HIDE DEF S
<1>2. x \in Seq(T) /\ v \in T
    BY <1>1
<1> HIDE DEF T
<1>3. y \in Seq(T) /\ Len(y) = Len(x) + 1 /\ Len(x) \in Nat /\ y[Len(x) + 1] = v
      /\ \A i \in 1..Len(x) : y[i] = x[i]
    BY <1>2 DEF OneMore
<1> QED
    BY <1>3, SequencesAre

\* One more proof, sound if it is good, and digests bound and not rebound.
LEMMA OneMoreProof ==
    ASSUME TreeInv, NEW p, proved' = Append(proved, p), tree' = tree, token' = token, decided' = decided,
           decided # "accepted",
           DOMAIN digests' = Digests,
           \A d, e \in Digests : digests'[d] = digests'[e] /\ digests'[d] # <<>> => d = e,
           \A d \in Digests : digests[d] # <<>> => digests'[d] = digests[d],
           Good(p) => Sound(p.journal, digests')
    PROVE  TreeInv'
<1> DEFINE n == Len(proved)
<1>1. /\ Sequence(proved') /\ Len(proved') = n + 1 /\ n \in Nat /\ proved'[n + 1] = p
      /\ \A i \in 1..n : proved'[i] = proved[i]
    <2> DEFINE x == proved
               y == proved'
    <2>1. Sequence(x) /\ OneMore(y, x, p) /\ n = Len(x)
        BY DEF TreeInv, OneMore
    <2> HIDE DEF x, y, n
    <2>2. /\ Sequence(y) /\ Len(y) = Len(x) + 1 /\ Len(x) \in Nat /\ y[Len(x) + 1] = p
          /\ \A i \in 1..Len(x) : y[i] = x[i]
        BY <2>1, AppendedIs
    <2> QED
        BY <2>1, <2>2 DEF x, y
<1>2. ASSUME NEW i \in 1..n + 1, Good(proved'[i])
      PROVE  Sound(proved'[i].journal, digests')
    <2>1. CASE i = n + 1
        BY <1>1, <1>2, <2>1
    <2>2. CASE i # n + 1
        <3>1. i \in 1..n
            BY <1>1, <2>2
        <3>2. proved'[i] = proved[i]
            BY <1>1, <3>1
        <3>3. Sound(proved[i].journal, digests)
            BY <1>2, <3>1, <3>2 DEF TreeInv
        <3> QED
            BY <3>2, <3>3, SoundIsKept
    <2> QED
        BY <2>1, <2>2
<1>3. \A i \in 1..Len(proved') : Good(proved'[i]) => Sound(proved'[i].journal, digests')
    BY <1>1, <1>2
<1>4. Ordered(tree') /\ token' \in {"own", "mixed"} /\ decided' # "accepted"
    BY DEF TreeInv
<1> QED
    BY <1>1, <1>3, <1>4 DEF TreeInv

LEMMA PublishKeeps ==
    ASSUME TreeInv, NEW a, LeafHolds(a) => Given(a), Publish(a), decided # "accepted"
    PROVE  TreeInv'
<1> DEFINE holds == LeafHolds(a)
           p == NodeProof("leaf", holds, LeafJournal(a))
           t == Transcript(a)
           d0 == a.digest
<1>1. /\ proved' = Append(proved, p) /\ tree' = tree /\ token' = token /\ decided' = decided
      /\ digests' = IF holds /\ Ends(a) THEN [digests EXCEPT ![d0] = t] ELSE digests
    BY DEF Publish
<1>2. /\ DOMAIN digests = Digests
      /\ \A d, e \in Digests : digests[d] = digests[e] /\ digests[d] # <<>> => d = e
    BY DEF TreeInv
<1>3. holds => d0 \in Digests
    BY DEF Given
<1>4. holds /\ Ends(a) => IF digests[d0] = <<>> THEN ~Known(t) ELSE digests[d0] = t
    BY DEF LeafHolds, DigestIs
<1>5. digests[d0] = <<>> /\ ~Known(t) => \A d \in Digests : digests[d] # t
    BY <1>2 DEF Known
<1>p. p.exit = (IF holds THEN 0 ELSE 1) /\ p.journal = LeafJournal(a)
    BY DEF NodeProof
<1> HIDE DEF holds, p, t, d0
<1>6. DOMAIN digests' = Digests
    BY <1>1, <1>2
<1>7. \A d \in Digests : digests[d] # <<>> => digests'[d] = digests[d]
    BY <1>1, <1>2, <1>3, <1>4
<1>8. ASSUME NEW d \in Digests, NEW e \in Digests, digests'[d] = digests'[e], digests'[d] # <<>>
      PROVE  d = e
    <2>1. CASE holds /\ Ends(a)
        <3>1. digests'[d] = (IF d = d0 THEN t ELSE digests[d]) /\ digests'[e] = (IF e = d0 THEN t ELSE digests[e])
            BY <1>1, <1>2, <2>1
        <3>2. CASE digests[d0] = <<>>
            BY <1>2, <1>4, <1>5, <1>8, <2>1, <3>1, <3>2
        <3>3. CASE digests[d0] = t
            BY <1>2, <1>8, <2>1, <3>1, <3>3
        <3> QED
            BY <1>4, <2>1, <3>2, <3>3
    <2>2. CASE ~(holds /\ Ends(a))
        BY <1>1, <1>2, <1>8, <2>2
    <2> QED
        BY <2>1, <2>2
<1>9. ASSUME Good(p)
      PROVE  Sound(p.journal, digests')
    <2>1. holds
        BY <1>9, <1>p DEF Good
    <2>2. Given(a) /\ LeafHolds(a)
        BY <2>1 DEF holds
    <2>3. Ends(a) => digests'[a.digest] = Transcript(a)
        BY <1>1, <1>2, <1>3, <2>1 DEF t, d0
    <2>4. Sound(LeafJournal(a), digests')
        BY <2>2, <2>3, LeafIsSound
    <2> QED
        BY <2>4, <1>p
<1> QED
    BY <1>1, <1>6, <1>7, <1>8, <1>9, OneMoreProof

LEMMA WithChainsAre ==
    ASSUME NEW s, NEW f, NEW t, NEW d, NEW a \in WithChains(Advice(s, f, t, d))
    PROVE  IsAdvice(a) /\ Own(a, s, f, t, d)
<1>1. IsAdvice(Advice(s, f, t, d)) /\ Own(Advice(s, f, t, d), s, f, t, d)
    BY DEF IsAdvice, Own, Advice
<1>2. CASE a = Advice(s, f, t, d)
    BY <1>1, <1>2
<1>3. CASE a = [Advice(s, f, t, d) EXCEPT !.chain = Last(proved).journal.chain_out]
    BY <1>3 DEF IsAdvice, Own, Advice
<1> QED
    BY <1>2, <1>3 DEF WithChains

LEMMA LeafInTurn ==
    ASSUME TreeInv, InTurn("leaf"), NEW s \in Statements, NEW d, d = IF token = "own" THEN s.digest ELSE token
    PROVE  /\ tree[Next1].from \in Nat /\ tree[Next1].to \in Nat
           /\ d \in Digests /\ DOMAIN digests = Digests /\ decided # "accepted"
<1>1. Sequence(proved) /\ Ordered(tree) /\ token \in {"own", "mixed"} /\ DOMAIN digests = Digests
    BY DEF TreeInv
<1>2. Len(proved) \in Nat
    BY <1>1 DEF Sequence
<1>3. Next1 \in 1..Len(tree) /\ tree[Next1].kind = "leaf" /\ decided = "none"
    BY <1>1, <1>2 DEF InTurn, Next1, Ordered
<1> DEFINE x == tree[Next1]
<1>4. x \in LeafNodes \cup NodesOver(Next1 - 1)
    BY <1>1, <1>3 DEF Ordered
<1>5. x.kind = "leaf"
    BY <1>3
<1> HIDE DEF x
<1>6. x.from \in Nat /\ x.to \in Nat
    BY <1>4, <1>5 DEF LeafNodes, NodesOver
<1>7. d \in Digests
    BY <1>1 DEF Digests
<1> QED
    BY <1>1, <1>3, <1>6, <1>7 DEF x

LEMMA ProveLeafKeeps ==
    ASSUME TreeInv, ProveLeaf
    PROVE  TreeInv'
<1>1. InTurn("leaf")
    BY DEF ProveLeaf
<1> DEFINE D(s) == IF token = "own" THEN s.digest ELSE token
           from == tree[Next1].from
           to == tree[Next1].to
<1>2. PICK s \in Statements : \E a \in WithChains(Advice(s, from, to, D(s))) : Publish(a)
    BY Zenon DEF ProveLeaf
<1>3. PICK a \in WithChains(Advice(s, from, to, D(s))) : Publish(a)
    BY <1>2
<1> DEFINE d == D(s)
<1>4. from \in Nat /\ to \in Nat /\ d \in Digests /\ decided # "accepted"
    BY <1>1, LeafInTurn
<1> HIDE DEF from, to, d
<1>5. Own(a, s, from, to, d)
    BY <1>3, WithChainsAre DEF from, to, d
<1>6. LeafHolds(a) => Given(a)
    <2> SUFFICES ASSUME LeafHolds(a) PROVE Given(a)
        OBVIOUS
    <2>1. from < to /\ to <= Total(s.counts)
        BY <1>5 DEF LeafHolds, Own
    <2> QED
        BY <1>4, <1>5, <2>1, OwnIsGiven
<1> QED
    BY <1>3, <1>4, <1>6, PublishKeeps

LEMMA DepartingLeafKeeps ==
    ASSUME TreeInv, DepartingLeaf
    PROVE  TreeInv'
<1>1. InTurn("leaf")
    BY DEF DepartingLeaf
<1> DEFINE D(s) == IF token = "own" THEN s.digest ELSE token
           from == tree[Next1].from
           to == tree[Next1].to
<1>2. PICK s \in Statements :
          \E a \in WithChains(Advice(s, from, to, D(s))) : \E b \in Departed(a) : Publish(b)
    BY Zenon DEF DepartingLeaf
<1>3. PICK a \in WithChains(Advice(s, from, to, D(s))) : \E b \in Departed(a) : Publish(b)
    BY <1>2
<1>4. PICK b \in Departed(a) : Publish(b)
    BY <1>3
<1> DEFINE d == D(s)
<1>5. from \in Nat /\ to \in Nat /\ d \in Digests /\ decided # "accepted" /\ DOMAIN digests = Digests
    BY <1>1, LeafInTurn
<1> HIDE DEF from, to, d
<1>6. IsAdvice(a) /\ Own(a, s, from, to, d)
    BY <1>3, WithChainsAre DEF from, to, d
<1>7. LeafHolds(b) => Given(b)
    BY <1>4, <1>5, <1>6, DepartedAreGiven
<1> QED
    BY <1>4, <1>5, <1>7, PublishKeeps

LEMMA ProveNodeKeeps ==
    ASSUME TreeInv, ProveNode
    PROVE  TreeInv'
<1>1. InTurn("node") /\ digests' = digests /\ tree' = tree /\ token' = token /\ decided' = decided
    BY DEF ProveNode
<1>2. PICK ids \in {Programs, <<"leaf", "fake">>, <<"fake", "node">>} :
          proved' = Append(proved, NodeProof("node", InternalHolds(Children, ids),
                                             InternalJournal(Children, ids)))
    BY Zenon DEF ProveNode
<1> DEFINE holds == InternalHolds(Children, ids)
           j == InternalJournal(Children, ids)
           p == NodeProof("node", holds, j)
           x == tree[Next1]
<1>3. Sequence(proved) /\ Ordered(tree) /\ Len(proved) \in Nat
    BY DEF TreeInv, Sequence
<1>4. Next1 \in 1..Len(tree) /\ x.kind = "node" /\ decided = "none" /\ Next1 - 1 = Len(proved)
    BY <1>1, <1>3 DEF InTurn, Next1, Ordered
<1>5. x.children \in Seq(1..Len(proved))
    <2>1. x \in LeafNodes \cup NodesOver(Next1 - 1)
        BY <1>3, <1>4 DEF Ordered
    <2> HIDE DEF x
    <2>2. x.children \in Seq(1..Next1 - 1)
        BY <1>4, <2>1 DEF LeafNodes, NodesOver
    <2> QED
        BY <2>2, <1>4
<1>6. p.exit = (IF holds THEN 0 ELSE 1) /\ p.journal = j /\ p.program = "node" /\ j.identities = ids
    BY DEF NodeProof, InternalJournal
<1>7. Len(Children) = Len(x.children) /\ \A i \in 1..Len(x.children) : Children[i] = proved[x.children[i]]
    <2>1. Len(x.children) \in Nat
        BY <1>5
    <2> QED
        BY <2>1 DEF Children
<1>8. ASSUME Good(p)
      PROVE  Sound(p.journal, digests')
    <2>1. holds /\ ids = Programs
        BY <1>6, <1>8 DEF Good
    <2>2. \A i \in 1..Len(Children) : ChildHolds(Children[i], Programs)
        BY <2>1 DEF InternalHolds
    <2> HIDE DEF x
    <2>3. ASSUME NEW i \in 1..Len(Children)
          PROVE  Sound(Children[i].journal, digests)
        <3>1. Good(Children[i])
            BY <2>2, GoodChildren
        <3>2. i \in 1..Len(x.children)
            BY <1>7
        <3>3. x.children[i] \in 1..Len(proved)
            BY <1>5, <3>2, MembersOf
        <3>4. Children[i] = proved[x.children[i]]
            BY <1>7, <3>2
        <3> QED
            BY <3>1, <3>3, <3>4 DEF TreeInv
    <2>4. Sound(j, digests)
        BY <2>1, <2>3, NodeIsSound
    <2> QED
        BY <1>1, <1>6, <2>4
<1>9. /\ DOMAIN digests' = Digests
      /\ \A d, e \in Digests : digests'[d] = digests'[e] /\ digests'[d] # <<>> => d = e
      /\ \A d \in Digests : digests[d] # <<>> => digests'[d] = digests[d]
    BY <1>1 DEF TreeInv
<1>10. proved' = Append(proved, p) /\ decided # "accepted"
    BY <1>2, <1>4
<1> HIDE DEF p
<1> QED
    BY <1>1, <1>8, <1>9, <1>10, OneMoreProof

LEMMA ForgedNodeKeeps ==
    ASSUME TreeInv, ForgedNode
    PROVE  TreeInv'
<1>1. digests' = digests /\ tree' = tree /\ token' = token /\ decided' = decided /\ decided # "accepted"
    BY DEF ForgedNode, InTurn
<1>2. PICK s \in Statements : \E forged : proved' = Append(proved, NodeProof("fake", TRUE, forged))
    BY DEF ForgedNode
<1>3. PICK forged : proved' = Append(proved, NodeProof("fake", TRUE, forged))
    BY <1>2
<1> DEFINE p == NodeProof("fake", TRUE, forged)
<1>4. ~Good(p)
    BY DEF NodeProof, Good
<1>5. /\ DOMAIN digests' = Digests
      /\ \A d, e \in Digests : digests'[d] = digests'[e] /\ digests'[d] # <<>> => d = e
      /\ \A d \in Digests : digests[d] # <<>> => digests'[d] = digests[d]
    BY <1>1 DEF TreeInv
<1>6. proved' = Append(proved, p)
    BY <1>3
<1> HIDE DEF p
<1> QED
    BY <1>1, <1>4, <1>5, <1>6, OneMoreProof

LEMMA DecideKeeps ==
    ASSUME TreeInv, Decide
    PROVE  TreeInv'
<1>1. /\ Len(proved) = Len(tree)
      /\ decided' = IF TopHolds(Last(proved)) THEN "accepted" ELSE "refused"
      /\ tree' = tree /\ proved' = proved /\ digests' = digests /\ token' = token
    BY DEF Decide
<1>2. decided' = "accepted" => TopHolds(Last(proved))
    BY <1>1
<1>3. Len(proved) > 0
    BY <1>1 DEF TreeInv, Ordered
<1> QED
    BY <1>1, <1>2, <1>3 DEF TreeInv

LEMMA TreeNextKeeps == TreeInv /\ [TreeNext]_treeVars => TreeInv'
<1> SUFFICES ASSUME TreeInv, [TreeNext]_treeVars PROVE TreeInv'
    OBVIOUS
<1>1. CASE UNCHANGED treeVars
    BY <1>1 DEF treeVars, TreeInv
<1>2. CASE TreeDone
    BY <1>2 DEF TreeDone, treeVars, TreeInv
<1> QED
    BY <1>1, <1>2, ProveLeafKeeps, DepartingLeafKeeps, ProveNodeKeeps, ForgedNodeKeeps, DecideKeeps
       DEF TreeNext
-----------------------------------------------------------------------------
(* The block under an accepted root *)

CommitmentsAre(lists, u) == lists = [i \in 1..Len(u) |-> u[i].commitment]

\* A chain that starts with the statement and ends it, and its suffix, is the
\* block's global transcript.
LEMMA ChainIsTheTranscript ==
    ASSUME NEW counts \in [ToSet(Families) -> Nat], NEW windows, NEW io, NEW b,
           NEW u \in Seq(Proofs), Len(u) = Total(counts),
           NEW lists, CommitmentsAre(lists, u)
    PROVE  GlobalMessages(counts, windows, "identity", io, lists, b)
              = (PrefixMessages(counts, windows, "identity", io) \o SegmentsFrom(counts, 0, u))
                    \o SuffixMessages(counts, b)
<1> DEFINE T == Total(counts)
           p == PrefixMessages(counts, windows, "identity", io)
           x == SegmentsFrom(counts, 0, u)
           gm == GroupMessages(counts, T)
           groups == GroupsTo(counts, lists, K)
           m == Message("MEMORY_BOUNDARY", BoundaryLen, b)
           whole == GlobalMessages(counts, windows, "identity", io, lists, b)
<1>1. T \in Nat /\ Len(GroupOrder) = K
    BY TotalIsNat, GroupsAreTheFamilies DEF Counted
<1>2. whole = (p \o groups) \o <<m>>
    BY <1>1 DEF GlobalMessages, GroupsTo, Group, Size
<1>3. x = SegmentsTo(counts, lists, T)
    <2>1. \A i \in 1..T : 0 + i - 1 = i - 1 /\ lists[i] = u[i].commitment
        BY <1>1 DEF CommitmentsAre
    <2>2. [i \in 1..T |-> SegmentMessages(counts, 0 + i - 1, u[i].commitment)]
             = [i \in 1..T |-> SegmentMessages(counts, i - 1, lists[i])]
        <3> HIDE DEF T
        <3> QED
            BY <2>1
    <2> QED
        BY <2>2 DEF SegmentsFrom, SegmentsTo
<1>4. groups = x \o gm
    BY <1>3, SegmentsAreTheGroups DEF Counted
<1>5. SuffixMessages(counts, b) = gm \o <<m>>
    BY SuffixTyped
<1>6. Sequence(p) /\ Sequence(x) /\ Sequence(gm) /\ Sequence(<<m>>)
    <2>1. Sequence(x)
        <3>1. 0 \in Nat /\ u = u \o <<>>
            OBVIOUS
        <3>2. <<>> \in Seq(Proofs)
            OBVIOUS
        <3>3. x \in Seq(LaterOf(counts))
            BY <3>1, <3>2, SegmentsJoin
        <3> QED
            BY <3>3, SequencesAre
    <2>2. Sequence(gm)
        BY GroupMessagesTyped, SequencesAre
    <2>3. Sequence(<<m>>)
        <3>1. <<m>> \in Seq({m})
            OBVIOUS
        <3> QED
            BY <3>1, SequencesAre
    <2>4. Sequence(p)
        <3> DEFINE S == {p[i] : i \in 1..7}
        <3>1. Len(p) = 7 /\ p \in Seq(S)
            BY DEF PrefixMessages
        <3> HIDE DEF p, S
        <3> QED
            BY <3>1, SequencesAre
    <2> QED
        BY <2>1, <2>2, <2>3, <2>4
<1> HIDE DEF p, x, gm, groups, m, whole
<1> DEFINE e == <<m>>
<1>7. Sequence(e) /\ whole = (p \o (x \o gm)) \o e
    BY <1>2, <1>4, <1>6
<1> HIDE DEF e
<1>8. Sequence(p \o x) /\ Sequence(x \o gm)
    BY <1>6, SequencesJoin
<1>9. (p \o x) \o gm = p \o (x \o gm)
    BY <1>6, SequencesJoin
<1> DEFINE y == p \o x
<1>10. Sequence(y) /\ y \o gm = p \o (x \o gm)
    BY <1>8, <1>9
<1> HIDE DEF y
<1>11. (y \o gm) \o e = y \o (gm \o e)
    <2>1. Sequence(y) /\ Sequence(gm) /\ Sequence(e)
        BY <1>6, <1>7, <1>10
    <2> QED
        BY <2>1, SequencesJoin
<1>12. whole = y \o (gm \o e)
    BY <1>7, <1>10, <1>11
<1> QED
    BY <1>5, <1>12 DEF whole, y, e, p, x

LEMMA SumOfOne ==
    ASSUME NEW x \in Bags
    PROVE  Product([i \in 1..1 |-> x]) = x
<1> DEFINE bags == [i \in 1..1 |-> x]
           rr == [i \in 1..1 - 1 |-> bags[i]]
<1>1. bags \in [1..1 -> Bags] /\ 1 \in Nat \ {0} /\ bags[1] = x /\ rr = [i \in 1..1 - 1 |-> bags[i]]
    OBVIOUS
<1> HIDE DEF bags, rr
<1>2. Product(bags) = bags[1]
    BY <1>1, ProductOneMore
<1> QED
    BY <1>1, <1>2 DEF bags

LEMMA InvImpliesAccepted == TreeInv => AcceptedRootsAreAcceptedBlocks
<1> SUFFICES ASSUME TreeInv, decided = "accepted"
             PROVE  LET block == Block(Last(proved).journal)
                    IN  VerifyBlock(block, DigestOf(BlockMessages(block)))
    BY DEF AcceptedRootsAreAcceptedBlocks
<1> DEFINE root == Last(proved)
           j == root.journal
           block == Block(j)
           u == j.shards
           c == j.shape[1]
           whole == BlockMessages(block)
<1>1. Len(proved) \in Nat /\ Len(proved) > 0 /\ TopHolds(root)
    BY DEF TreeInv, Sequence
<1>2. Sound(j, digests)
    <2>1. Good(root)
        BY <1>1, GoodChildren DEF TopHolds
    <2>2. root = proved[Len(proved)] /\ Len(proved) \in 1..Len(proved)
        BY <1>1 DEF Last
    <2> QED
        BY <2>1, <2>2 DEF TreeInv
<1>3. j.from = 0 /\ j.to = j.total /\ j.opens
      /\ Reconciles(Product([i \in 1..1 |-> j.reads]), Product([i \in 1..1 |-> j.writes]), j.factors)
    <2>1. Len(<<j>>) = 1 /\ <<j>>[1] = j /\ Last(<<j>>) = j
        BY DEF Last
    <2>2. Whole(<<j>>) /\ ProductsReconcile(<<j>>) /\ j.opens
        BY <1>1 DEF TopHolds
    <2>3. /\ [i \in 1..Len(<<j>>) |-> <<j>>[i].reads] = [i \in 1..1 |-> j.reads]
          /\ [i \in 1..Len(<<j>>) |-> <<j>>[i].writes] = [i \in 1..1 |-> j.writes]
        <3> HIDE DEF j
        <3> QED
            BY <2>1
    <2> HIDE DEF j
    <2> QED
        BY <2>1, <2>2, <2>3 DEF Whole, ProductsReconcile
<1> HIDE DEF j
<1>b. /\ block.counts = c /\ block.windows = j.shape[2]
      /\ block.lists = [i \in 1..Len(u) |-> u[i].commitment]
      /\ block.roots = [i \in 1..Len(u) |-> u[i].roots]
      /\ block.proofs = u /\ block.io = j.io /\ block.exit = j.exit /\ block.boundary = j.factors
    BY DEF Block
<1>4. /\ c \in [ToSet(Families) -> Nat] /\ CheckMemoryWindows(KeyHeights, c, block.windows)
      /\ j.total = Total(c) /\ u \in Seq(Proofs) /\ Len(u) = Total(c) /\ j.digest \in Digests
      /\ j.total \in Nat
    <2>1. Fits(j)
        BY <1>2 DEF Sound
    <2> QED
        BY <2>1, <1>3, <1>b DEF Fits
<1>5. \A i \in 1..Len(u) : VerifyShardLocal(u[i], StatementShards(c)[i], j.digest, j.io)
    <2>1. \A i \in 1..Len(u) : 0 + i = i
        BY <1>4
    <2> QED
        BY <1>2, <1>3, <2>1 DEF Sound, Verifies
<1>6. CheckTsWindows(u) /\ j.reads = ReadsOf(u) /\ j.writes = WritesOf(u)
      /\ \A i \in 1..Len(u) : Opens(u[i])
    BY <1>2, <1>3 DEF Sound, InTime, Adds
<1>7. j.chain_in = PrefixMessages(c, block.windows, "identity", j.io)
    BY <1>2, <1>3, <1>b DEF Sound, Chains
<1>8. Sequence(j.chain_in)
    <2> DEFINE p == PrefixMessages(c, block.windows, "identity", j.io)
               S == {p[i] : i \in 1..7}
    <2>1. p \in Seq(S)
        BY DEF PrefixMessages
    <2> HIDE DEF p, S
    <2> QED
        BY <1>7, <2>1, SequencesAre DEF p
<1>9. /\ FinalsOf[j.factors].exit = j.exit
      /\ digests[j.digest] = (j.chain_in \o SegmentsFrom(c, 0, u)) \o SuffixMessages(c, j.factors)
    BY <1>2, <1>3, <1>8 DEF Sound, Settles, Chains, SegmentsUnder
<1> HIDE DEF c, u, block
<1>10. digests[j.digest] = whole
    <2>1. whole = GlobalMessages(c, block.windows, "identity", j.io, block.lists, j.factors)
        BY <1>b DEF BlockMessages
    <2>2. GlobalMessages(c, block.windows, "identity", j.io, block.lists, j.factors)
             = (PrefixMessages(c, block.windows, "identity", j.io) \o SegmentsFrom(c, 0, u))
                    \o SuffixMessages(c, j.factors)
        <3>1. CommitmentsAre(block.lists, u)
            BY <1>b DEF CommitmentsAre
        <3> QED
            BY <1>4, <3>1, ChainIsTheTranscript
    <2> QED
        BY <1>7, <1>9, <2>1, <2>2
<1>11. whole # <<>>
    <2> DEFINE e == j.chain_in
               x == SegmentsFrom(c, 0, u)
               y == SuffixMessages(c, j.factors)
    <2>1. Sequence(e) /\ Sequence(y) /\ Len(y) > 0
        BY <1>8, SuffixTyped
    <2>2. Sequence(x)
        <3>1. 0 \in Nat /\ u = u \o <<>> /\ <<>> \in Seq(Proofs)
            BY <1>4
        <3>2. x \in Seq(LaterOf(c))
            BY <1>4, <3>1, SegmentsJoin
        <3> QED
            BY <3>2, SequencesAre
    <2> HIDE DEF e, x, y
    <2> DEFINE z == e \o x
    <2>3. Sequence(z)
        BY <2>1, <2>2, SequencesJoin
    <2> HIDE DEF z
    <2>4. Len(z \o y) = Len(z) + Len(y) /\ Len(z) \in Nat /\ Len(y) \in Nat
        <3> DEFINE S == {z[i] : i \in 1..Len(z)} \cup {y[i] : i \in 1..Len(y)}
        <3>1. z \in Seq(S) /\ y \in Seq(S)
            <4>1. z \in Seq({z[i] : i \in 1..Len(z)}) /\ y \in Seq({y[i] : i \in 1..Len(y)})
                BY <2>1, <2>3 DEF Sequence
            <4> QED
                BY <4>1
        <3> HIDE DEF S
        <3> QED
            BY <3>1, ConcatProperties
    <2>5. whole = z \o y
        BY <1>9, <1>10 DEF z, e, x, y
    <2>6. Len(<<>>) = 0
        OBVIOUS
    <2> QED
        BY <2>1, <2>4, <2>5, <2>6
<1> HIDE DEF whole
<1>12. DigestOf(whole) = j.digest
    <2>1. DOMAIN digests = Digests
          /\ \A d, e \in Digests : digests[d] = digests[e] /\ digests[d] # <<>> => d = e
        BY DEF TreeInv
    <2>2. Known(whole)
        BY <1>4, <1>10, <2>1 DEF Known
    <2>3. \A d \in DOMAIN digests : digests[d] = whole => d = j.digest
        BY <1>4, <1>10, <1>11, <2>1
    <2>4. (CHOOSE d \in DOMAIN digests : digests[d] = whole) = j.digest
        BY <1>4, <1>10, <2>1, <2>3
    <2> QED
        BY <2>2, <2>4 DEF DigestOf
<1>13. Reconciles(Product([i \in 1..Len(block.roots) |-> block.roots[i].reads]),
                  Product([i \in 1..Len(block.roots) |-> block.roots[i].writes]), block.boundary)
    <2>1. Len(block.roots) = Len(u)
        BY <1>4, <1>b
    <2>2. /\ [i \in 1..Len(block.roots) |-> block.roots[i].reads] = [i \in 1..Len(u) |-> u[i].roots.reads]
          /\ [i \in 1..Len(block.roots) |-> block.roots[i].writes] = [i \in 1..Len(u) |-> u[i].roots.writes]
        BY <1>b, <2>1
    <2>3. ReadsOf(u) \in Bags /\ WritesOf(u) \in Bags
        BY <1>4, ProductsJoin
    <2>4. Reconciles(ReadsOf(u), WritesOf(u), j.factors)
        BY <1>3, <1>6, <2>3, SumOfOne
    <2> QED
        BY <1>b, <2>2, <2>4 DEF ReadsOf, WritesOf
<1>14. ASSUME NEW i \in 1..Len(block.proofs)
       PROVE  /\ VerifyShardLocal(block.proofs[i], StatementShards(block.counts)[i], DigestOf(whole), block.io)
              /\ block.proofs[i].commitment = block.lists[i]
              /\ block.proofs[i].roots = block.roots[i]
              /\ Opens(block.proofs[i])
    BY <1>5, <1>6, <1>12, <1>b
<1>15. Len(block.lists) = Total(c) /\ Len(block.roots) = Total(c) /\ Len(block.proofs) = Total(c)
    BY <1>4, <1>b
<1>16. VerifyBlock(block, DigestOf(whole))
    BY <1>4, <1>6, <1>9, <1>13, <1>14, <1>15, <1>b DEF VerifyBlock
<1> QED
    BY <1>16 DEF block, whole, j

\* The inductive invariant of a tree being proved: beside every plan's order and
\* the digests bound so far, every proof a node would take for a program of the
\* contract's has a sound journal (node.rs `internal`, `statement`, `leaf`).
THEOREM TreeInvariance == TreeSpec => []TreeInv
<1> QED
    BY TreeBegins, TreeNextKeeps, PTL DEF TreeSpec

\* However the host cuts and groups a block, whatever claims, shard proofs,
\* identities and programs it puts in, a root the contract accepts is of a block
\* `verify_block` accepts (decider.rs; node.rs; verifier/src/lib.rs).
THEOREM AcceptedBlocks == TreeSpec => []AcceptedRootsAreAcceptedBlocks
<1> QED
    BY TreeInvariance, InvImpliesAccepted, PTL
-----------------------------------------------------------------------------
(* The groups of a level *)

LEMMA MoreTimes ==
    ASSUME NEW a \in Nat, NEW b \in Nat, NEW k \in Nat, a <= b
    PROVE  a * k <= b * k /\ a * k \in Nat /\ b * k \in Nat
<1>1. PICK c \in Nat : b = a + c
    <2>1. b - a \in Nat /\ b = a + (b - a)
        OBVIOUS
    <2> QED
        BY <2>1
<1>2. b * k = a * k + c * k
    BY <1>1
<1>3. c * k \in Nat /\ a * k \in Nat
    OBVIOUS
<1> QED
    BY <1>2, <1>3

\* b[g] items are in the first g of the groups of s.
Cuts(s, groups, b, k) ==
    LET m == Len(groups)
    IN  /\ m \in 1..Len(s) - 1 /\ b \in [0..m -> 0..Len(s)] /\ b[0] = 0 /\ b[m] = Len(s)
        /\ \A g \in 1..m : /\ b[g - 1] < b[g] /\ b[g] - b[g - 1] <= k
                           /\ Len(groups[g]) = b[g] - b[g - 1]
                           /\ \A i \in 1..Len(groups[g]) : groups[g][i] = s[b[g - 1] + i]

LEMMA ChunksAre ==
    ASSUME NEW T, NEW s \in Seq(T), NEW k \in Nat \ {0, 1}, Len(s) > 1
    PROVE  \E b : Cuts(s, Chunks(s, k), b, k)
<1> DEFINE L == Len(s)
           m == (L + k - 1) \div k
           to(g) == IF g * k < L THEN g * k ELSE L
           chunk(g) == SubSeq(s, (g - 1) * k + 1, to(g))
           b == [g \in 0..m |-> to(g)]
<1>1. m \in Nat /\ L \in Nat /\ L > 1 /\ k >= 2
    OBVIOUS
<1>2. Chunks(s, k) = [g \in 1..m |-> chunk(g)] /\ Len(Chunks(s, k)) = m
    <2>1. Chunks(s, k) = [g \in 1..m |-> chunk(g)]
        BY DEF Chunks
    <2> HIDE DEF chunk, m
    <2> QED
        BY <1>1, <2>1
<1>3. k * m <= L + k - 1 /\ L + k - 1 < k * m + k
    OBVIOUS
<1> HIDE DEF m
<1>4. m >= 1
    BY <1>1, <1>3
<1>5. (m - 1) * k = k * m - k /\ m * k = k * m
    BY <1>1
<1>6. m * k >= L /\ (m - 1) * k < L
    BY <1>1, <1>3, <1>4, <1>5
<1>7. m < L
    <2>1. 2 * (m - 1) <= k * (m - 1)
        <3>1. m - 1 \in Nat /\ 2 \in Nat /\ k \in Nat /\ 2 <= k
            BY <1>1, <1>4
        <3> QED
            BY <3>1, MoreTimes
    <2>2. k * (m - 1) = (m - 1) * k
        BY <1>1
    <2> QED
        BY <1>1, <1>6, <2>1, <2>2
<1>8. ASSUME NEW g \in 1..m
      PROVE  /\ (g - 1) * k < L /\ (g - 1) * k \in Nat /\ g * k \in Nat /\ g * k = (g - 1) * k + k
             /\ g < m => g * k < L
    <2>1. g - 1 \in Nat /\ m - 1 \in Nat /\ g - 1 <= m - 1 /\ k \in Nat /\ g \in Nat
        BY <1>1, <1>4
    <2>2. (g - 1) * k <= (m - 1) * k /\ (g - 1) * k \in Nat /\ (m - 1) * k \in Nat
        BY <2>1, MoreTimes
    <2>3. g < m => g * k <= (m - 1) * k
        BY <2>1, <1>1, MoreTimes
    <2>4. g * k = (g - 1) * k + k
        BY <2>1
    <2> QED
        BY <1>1, <1>6, <2>1, <2>2, <2>3, <2>4
<1>9. to(0) = 0 /\ to(m) = L
    <2>1. 0 * k = 0
        OBVIOUS
    <2>2. m * k \in Nat
        BY <1>1
    <2> QED
        BY <1>1, <1>6, <2>1, <2>2
<1>10. ASSUME NEW g \in 1..m
       PROVE  /\ to(g - 1) = (g - 1) * k /\ to(g - 1) < to(g) /\ to(g) - to(g - 1) <= k
              /\ to(g) \in Nat /\ to(g) <= L /\ to(g - 1) \in Nat
    BY <1>1, <1>8
<1>11. b \in [0..m -> 0..L]
    <2>1. ASSUME NEW g \in 0..m PROVE to(g) \in 0..L
        <3>1. CASE g = 0
            BY <3>1, <1>1, <1>9
        <3>2. CASE g # 0
            <4>1. g \in 1..m
                BY <3>2
            <4> QED
                BY <4>1, <1>1, <1>10
        <3> QED
            BY <3>1, <3>2
    <2> HIDE DEF to
    <2> QED
        BY <2>1
<1>12. ASSUME NEW g \in 1..m
       PROVE  /\ Len(chunk(g)) = to(g) - to(g - 1)
              /\ \A i \in 1..to(g) - to(g - 1) : chunk(g)[i] = s[to(g - 1) + i]
    <2> DEFINE x == to(g - 1)
               y == to(g)
    <2>1. x \in Nat /\ y \in Nat /\ x < y /\ y <= L /\ chunk(g) = SubSeq(s, x + 1, y)
        BY <1>10
    <2> HIDE DEF x, y, chunk
    <2>2. Len(SubSeq(s, x + 1, y)) = y - x /\ \A i \in 1..y - x : SubSeq(s, x + 1, y)[i] = s[x + i]
        <3>1. x + 1 \in 1..Len(s) + 1 /\ y \in 0..Len(s) /\ x + 1 <= y + 1
            BY <2>1
        <3> QED
            BY <2>1, <3>1
    <2> QED
        BY <2>1, <2>2 DEF x, y
<1> HIDE DEF to, chunk
<1>13. /\ b[0] = 0 /\ b[m] = L
       /\ \A g \in 1..m : b[g - 1] = to(g - 1) /\ b[g] = to(g)
    <2>1. 0 \in 0..m /\ m \in 0..m /\ \A g \in 1..m : g \in 0..m /\ g - 1 \in 0..m
        BY <1>1
    <2> QED
        BY <1>9, <2>1
<1> HIDE DEF b
<1>14. ASSUME NEW g \in 1..m
       PROVE  /\ b[g - 1] < b[g] /\ b[g] - b[g - 1] <= k
              /\ Len(Chunks(s, k)[g]) = b[g] - b[g - 1]
              /\ \A i \in 1..Len(Chunks(s, k)[g]) : Chunks(s, k)[g][i] = s[b[g - 1] + i]
    <2>1. Chunks(s, k)[g] = chunk(g)
        BY <1>2
    <2> QED
        BY <2>1, <1>10, <1>12, <1>13
<1>15. m \in 1..L - 1
    BY <1>1, <1>4, <1>7
<1> HIDE DEF L
<1>16. Cuts(s, Chunks(s, k), b, k)
    BY <1>2, <1>11, <1>13, <1>14, <1>15 DEF Cuts, L
<1> QED
    BY <1>16

-----------------------------------------------------------------------------
(* The nodes planned so far: a forest over the shards *)

Over(nodes, j) == {i \in 1..Len(nodes) : nodes[i].kind = "node" /\ j \in ToSet(nodes[i].children)}

\* A root is under no node, every other node under one.
Forest(nodes, roots) ==
    /\ roots \subseteq 1..Len(nodes)
    /\ \A j \in 1..Len(nodes) : IF j \in roots THEN Over(nodes, j) = {}
                                ELSE \E i \in 1..Len(nodes) : Over(nodes, j) = {i}

WellSized(nodes, k) ==
    \A i \in 1..Len(nodes) :
        nodes[i].kind = "node" => Len(nodes[i].children) \in 2..k /\ IsInjective(nodes[i].children)

\* The leaves are the first of the nodes.
Begins(nodes, leaves) ==
    /\ Len(leaves) <= Len(nodes)
    /\ \A i \in 1..Len(leaves) : nodes[i] = leaves[i]
    /\ \A i \in Len(leaves) + 1..Len(nodes) : nodes[i].kind = "node"

\* Node i is over the shards lo[i]..hi[i].
Meet(group, lo, hi) == \A p \in 1..Len(group) - 1 : hi[group[p]] = lo[group[p + 1]]
Span(node, lo, hi, i) ==
    /\ lo[i] \in Nat /\ hi[i] \in Nat /\ lo[i] < hi[i]
    /\ node.kind = "leaf" => lo[i] = node.from /\ hi[i] = node.to
    /\ node.kind = "node" =>
          LET group == node.children
          IN  lo[i] = lo[group[1]] /\ hi[i] = hi[group[Len(group)]] /\ Meet(group, lo, hi)
Spans(nodes, lo, hi) == \A i \in 1..Len(nodes) : Span(nodes[i], lo, hi, i)

NodeOver(group) == [kind |-> "node", children |-> group]
WithNode(more, nodes, group) == more = Append(nodes, NodeOver(group))

LEMMA OneNodeMore ==
    ASSUME NEW nodes, Ordered(nodes), NEW group \in Seq(1..Len(nodes)),
           NEW more, WithNode(more, nodes, group)
    PROVE  /\ Ordered(more) /\ Len(more) = Len(nodes) + 1 /\ Len(nodes) \in Nat
           /\ more[Len(nodes) + 1] = NodeOver(group)
           /\ \A i \in 1..Len(nodes) : more[i] = nodes[i]
<1> DEFINE n == Len(nodes)
           x == NodeOver(group)
<1>1. Ordered(more) /\ Len(more) = n + 1
    BY OrderedMore DEF NodeOver, WithNode
<1>2. nodes \in Seq(AnyNodes) /\ n \in Nat
    BY DEF Ordered
<1>3. more \in Seq(AnyNodes)
    BY <1>1 DEF Ordered
<1>4. more = Append(nodes, x)
    BY DEF WithNode
<1> HIDE DEF x
<1>5. more[n + 1] = x /\ \A i \in 1..n : more[i] = nodes[i]
    BY <1>2, <1>4
<1> QED
    BY <1>1, <1>2, <1>5 DEF x

\* What a node is over came before it.
LEMMA ChildrenAre ==
    ASSUME NEW nodes, Ordered(nodes), NEW i \in 1..Len(nodes), nodes[i].kind = "node"
    PROVE  nodes[i].children \in Seq(1..i - 1) /\ ToSet(nodes[i].children) \subseteq 1..i - 1
<1>1. nodes[i] \in LeafNodes \cup NodesOver(i - 1)
    BY DEF Ordered
<1> DEFINE x == nodes[i]
           c == x.children
<1>2. c \in Seq(1..i - 1)
    <2> HIDE DEF x
    <2>1. x \in LeafNodes \cup NodesOver(i - 1) /\ x.kind = "node"
        BY <1>1 DEF x
    <2> QED
        BY <2>1 DEF LeafNodes, NodesOver
<1> HIDE DEF c
<1>3. ToSet(c) \subseteq 1..i - 1
    BY <1>2 DEF ToSet
<1> QED
    BY <1>2, <1>3 DEF c

LEMMA ForestGrows ==
    ASSUME NEW nodes, Ordered(nodes), NEW group \in Seq(1..Len(nodes)),
           NEW roots, Forest(nodes, roots), ToSet(group) \subseteq roots,
           NEW more, WithNode(more, nodes, group)
    PROVE  Forest(more, (roots \ ToSet(group)) \cup {Len(nodes) + 1})
<1> DEFINE n == Len(nodes)
           top == n + 1
           kept == (roots \ ToSet(group)) \cup {top}
<1>1. /\ Ordered(more) /\ Len(more) = top /\ n \in Nat /\ more[top] = NodeOver(group)
      /\ \A i \in 1..n : more[i] = nodes[i]
    BY OneNodeMore
<1>2. more[top].kind = "node" /\ more[top].children = group
    BY <1>1 DEF NodeOver
<1>3. roots \subseteq 1..n /\ ToSet(group) \subseteq 1..n
    BY DEF Forest
<1>4. ASSUME NEW j
      PROVE  Over(more, j) = Over(nodes, j) \cup (IF j \in ToSet(group) THEN {top} ELSE {})
    <2>1. 1..top = 1..n \cup {top} /\ top \notin 1..n
        BY <1>1
    <2> HIDE DEF n, top
    <2>2. \A i \in 1..n : i \in Over(more, j) <=> i \in Over(nodes, j)
        BY <1>1, <2>1 DEF Over, n
    <2>3. top \in Over(more, j) <=> j \in ToSet(group)
        BY <1>1, <1>2, <2>1 DEF Over
    <2>4. Over(more, j) \subseteq 1..top /\ Over(nodes, j) \subseteq 1..n
        BY <1>1 DEF Over, n
    <2> QED
        BY <2>1, <2>2, <2>3, <2>4
<1>5. Over(nodes, top) = {}
    <2> SUFFICES ASSUME NEW i \in 1..n, nodes[i].kind = "node", top \in ToSet(nodes[i].children)
                 PROVE  FALSE
        BY DEF Over
    <2>1. top \in 1..i - 1
        BY ChildrenAre
    <2> QED
        BY <1>1, <2>1
<1>6. ASSUME NEW j \in 1..top
      PROVE  IF j \in kept THEN Over(more, j) = {} ELSE \E i \in 1..top : Over(more, j) = {i}
    <2>1. CASE j = top
        <3>1. j \notin ToSet(group) /\ j \in kept
            BY <1>1, <1>3, <2>1
        <3> QED
            BY <1>4, <1>5, <2>1, <3>1
    <2>2. CASE j # top /\ j \in ToSet(group)
        <3>1. j \in roots /\ j \notin kept /\ j \in 1..n
            BY <1>1, <1>3, <2>2
        <3>2. Over(nodes, j) = {}
            BY <3>1 DEF Forest
        <3>3. Over(more, j) = {top} /\ top \in 1..top
            BY <1>1, <1>4, <2>2, <3>2
        <3> QED
            BY <3>1, <3>3
    <2>3. CASE j # top /\ j \notin ToSet(group)
        <3>1. (j \in kept <=> j \in roots) /\ j \in 1..n
            BY <1>1, <2>3
        <3>2. Over(more, j) = Over(nodes, j)
            BY <1>4, <2>3
        <3>3. IF j \in roots THEN Over(nodes, j) = {} ELSE \E i \in 1..n : Over(nodes, j) = {i}
            BY <3>1 DEF Forest
        <3>4. 1..n \subseteq 1..top
            BY <1>1
        <3> QED
            BY <3>1, <3>2, <3>3, <3>4
    <2> QED
        BY <2>1, <2>2, <2>3
<1>7. kept \subseteq 1..top
    <2>1. 1..n \subseteq 1..top /\ top \in 1..top
        BY <1>1
    <2> QED
        BY <1>3, <2>1
<1> QED
    BY <1>1, <1>6, <1>7 DEF Forest

LEMMA SizedGrows ==
    ASSUME NEW nodes, Ordered(nodes), NEW group \in Seq(1..Len(nodes)), NEW k, WellSized(nodes, k),
           Len(group) \in 2..k, IsInjective(group), NEW more, WithNode(more, nodes, group)
    PROVE  WellSized(more, k)
<1>1. /\ Len(more) = Len(nodes) + 1 /\ Len(nodes) \in Nat /\ more[Len(nodes) + 1] = NodeOver(group)
      /\ \A i \in 1..Len(nodes) : more[i] = nodes[i]
    BY OneNodeMore
<1> DEFINE n == Len(nodes)
<1> SUFFICES ASSUME NEW i \in 1..n + 1, more[i].kind = "node"
             PROVE  Len(more[i].children) \in 2..k /\ IsInjective(more[i].children)
    BY <1>1 DEF WellSized
<1>2. CASE i = n + 1
    BY <1>1, <1>2 DEF NodeOver
<1>3. CASE i # n + 1
    <2>1. i \in 1..n
        BY <1>1, <1>3
    <2> QED
        BY <1>1, <2>1 DEF WellSized
<1> QED
    BY <1>2, <1>3

LEMMA BeginsGrows ==
    ASSUME NEW nodes, Ordered(nodes), NEW group \in Seq(1..Len(nodes)), NEW leaves,
           Len(leaves) \in Nat, Begins(nodes, leaves), NEW more, WithNode(more, nodes, group)
    PROVE  Begins(more, leaves)
<1> DEFINE n == Len(nodes)
           l == Len(leaves)
<1>1. /\ Len(more) = n + 1 /\ n \in Nat /\ more[n + 1] = NodeOver(group)
      /\ \A i \in 1..n : more[i] = nodes[i]
    BY OneNodeMore
<1>2. l \in Nat /\ l <= n /\ \A i \in 1..l : nodes[i] = leaves[i]
    BY DEF Begins
<1>3. \A i \in 1..l : more[i] = leaves[i]
    <2>1. \A i \in 1..l : i \in 1..n
        BY <1>1, <1>2
    <2> QED
        BY <1>1, <1>2, <2>1
<1>4. ASSUME NEW i \in l + 1..n + 1
      PROVE  more[i].kind = "node"
    <2>1. CASE i = n + 1
        BY <1>1, <2>1 DEF NodeOver
    <2>2. CASE i # n + 1
        <3>1. i \in l + 1..n /\ i \in 1..n
            BY <1>1, <1>2, <2>2
        <3> QED
            BY <1>1, <3>1 DEF Begins
    <2> QED
        BY <2>1, <2>2
<1> QED
    BY <1>1, <1>2, <1>3, <1>4 DEF Begins

\* Shards that go on from one another are more than none.
LEMMA MeetingsAreInOrder ==
    ASSUME NEW lo, NEW hi, NEW group, Len(group) \in Nat \ {0}, Meet(group, lo, hi),
           \A p \in 1..Len(group) :
               /\ lo[group[p]] \in Nat /\ hi[group[p]] \in Nat /\ lo[group[p]] < hi[group[p]]
    PROVE  lo[group[1]] < hi[group[Len(group)]]
<1> DEFINE n == Len(group)
           bad == {p \in 1..n : ~(lo[group[1]] < hi[group[p]])}
<1>1. 0 \notin bad /\ bad \in SUBSET (0..n)
    OBVIOUS
<1>2. ASSUME NEW p \in 1..n, p - 1 \notin bad
      PROVE  p \notin bad
    <2>1. CASE p = 1
        BY <2>1
    <2>2. CASE p # 1
        <3>1. p - 1 \in 1..n - 1 /\ p - 1 \in 1..n /\ p - 1 + 1 = p /\ 1 \in 1..n
            BY <2>2
        <3>2. hi[group[p - 1]] = lo[group[p]] /\ lo[group[1]] < hi[group[p - 1]]
            BY <1>2, <3>1 DEF Meet
        <3>3. /\ lo[group[1]] \in Nat /\ lo[group[p]] \in Nat /\ hi[group[p]] \in Nat
              /\ lo[group[p]] < hi[group[p]]
            BY <3>1
        <3> HIDE DEF bad
        <3>4. lo[group[1]] < hi[group[p]]
            BY <3>2, <3>3
        <3> QED
            BY <3>4 DEF bad
    <2> QED
        BY <2>1, <2>2
<1> HIDE DEF bad
<1>3. n \in Nat /\ n \in 1..n
    OBVIOUS
<1>4. bad = {}
    BY <1>1, <1>2, <1>3, SameSteps
<1> QED
    BY <1>3, <1>4 DEF bad

\* Two spans that agree on the nodes before agree on what is over them.
LEMMA SpanAlike ==
    ASSUME NEW node, NEW i \in Nat, NEW lo, NEW hi, NEW lo2, NEW hi2, Span(node, lo, hi, i),
           lo2[i] = lo[i], hi2[i] = hi[i],
           node.kind = "node" =>
              /\ Len(node.children) \in Nat \ {0}
              /\ \A p \in 1..Len(node.children) : /\ lo2[node.children[p]] = lo[node.children[p]]
                                                  /\ hi2[node.children[p]] = hi[node.children[p]]
    PROVE  Span(node, lo2, hi2, i)
<1>1. CASE node.kind = "node"
    <2> DEFINE c == node.children
               n == Len(c)
    <2>1. /\ n \in Nat \ {0}
          /\ \A p \in 1..n : lo2[c[p]] = lo[c[p]] /\ hi2[c[p]] = hi[c[p]]
          /\ lo[i] = lo[c[1]] /\ hi[i] = hi[c[n]] /\ Meet(c, lo, hi)
        BY <1>1 DEF Span
    <2>2. 1 \in 1..n /\ n \in 1..n /\ \A p \in 1..n - 1 : p \in 1..n /\ p + 1 \in 1..n
        BY <2>1
    <2>3. lo2[i] = lo2[c[1]] /\ hi2[i] = hi2[c[n]] /\ Meet(c, lo2, hi2)
        BY <2>1, <2>2 DEF Meet
    <2> QED
        BY <1>1, <2>3 DEF Span
<1>2. CASE node.kind # "node"
    BY <1>2 DEF Span
<1> QED
    BY <1>1, <1>2

LEMMA SpansGrow ==
    ASSUME NEW nodes, Ordered(nodes), NEW group \in Seq(1..Len(nodes)),
           NEW k \in Nat, WellSized(nodes, k), Len(group) \in Nat \ {0},
           NEW lo, NEW hi, Spans(nodes, lo, hi), Meet(group, lo, hi),
           NEW more, WithNode(more, nodes, group)
    PROVE  \E lo2, hi2 :
              /\ Spans(more, lo2, hi2)
              /\ \A i \in 1..Len(nodes) : lo2[i] = lo[i] /\ hi2[i] = hi[i]
              /\ lo2[Len(nodes) + 1] = lo[group[1]] /\ hi2[Len(nodes) + 1] = hi[group[Len(group)]]
<1> DEFINE n == Len(nodes)
           top == n + 1
           lo2 == [i \in 1..top |-> IF i = top THEN lo[group[1]] ELSE lo[i]]
           hi2 == [i \in 1..top |-> IF i = top THEN hi[group[Len(group)]] ELSE hi[i]]
<1>1. /\ Len(more) = top /\ n \in Nat /\ more[top] = NodeOver(group)
      /\ \A i \in 1..n : more[i] = nodes[i]
    BY OneNodeMore
<1>2. \A i \in 1..n : lo2[i] = lo[i] /\ hi2[i] = hi[i]
    BY <1>1
<1>3. lo2[top] = lo[group[1]] /\ hi2[top] = hi[group[Len(group)]]
    BY <1>1
<1> HIDE DEF lo2, hi2
<1>4. \A p \in 1..Len(group) : group[p] \in 1..n
    BY MembersOf
<1>5. \A p \in 1..Len(group) :
          /\ lo[group[p]] \in Nat /\ hi[group[p]] \in Nat /\ lo[group[p]] < hi[group[p]]
          /\ lo2[group[p]] = lo[group[p]] /\ hi2[group[p]] = hi[group[p]]
    BY <1>2, <1>4 DEF Spans, Span
<1>6. Span(more[top], lo2, hi2, top)
    <2> DEFINE g == Len(group)
    <2>1. lo[group[1]] < hi[group[g]]
        BY <1>5, MeetingsAreInOrder
    <2>2. 1 \in 1..g /\ g \in 1..g /\ \A p \in 1..g - 1 : p \in 1..g /\ p + 1 \in 1..g
        OBVIOUS
    <2>3. Meet(group, lo2, hi2)
        BY <1>5, <2>2 DEF Meet
    <2>4. more[top].kind = "node" /\ more[top].children = group
        BY <1>1 DEF NodeOver
    <2>5. lo2[top] = lo2[group[1]] /\ hi2[top] = hi2[group[g]] /\ lo2[top] \in Nat /\ hi2[top] \in Nat
        BY <1>3, <1>5, <2>2
    <2>6. lo2[top] < hi2[top]
        BY <1>3, <2>1
    <2> QED
        BY <2>3, <2>4, <2>5, <2>6 DEF Span
<1>7. ASSUME NEW i \in 1..n
      PROVE  Span(more[i], lo2, hi2, i)
    <2> DEFINE c == nodes[i].children
    <2>1. Span(nodes[i], lo, hi, i)
        BY DEF Spans
    <2>2. ASSUME nodes[i].kind = "node"
          PROVE  /\ Len(c) \in Nat \ {0}
                 /\ \A p \in 1..Len(c) : lo2[c[p]] = lo[c[p]] /\ hi2[c[p]] = hi[c[p]]
        <3>1. c \in Seq(1..i - 1)
            BY <2>2, ChildrenAre
        <3>2. Len(c) \in 2..k
            BY <2>2 DEF WellSized
        <3> HIDE DEF c
        <3>3. \A p \in 1..Len(c) : c[p] \in 1..n
            <4> TAKE p \in 1..Len(c)
            <4>1. c[p] \in 1..i - 1
                BY <3>1, MembersOf
            <4> QED
                BY <1>1, <4>1
        <3> QED
            BY <1>2, <3>2, <3>3
    <2>3. Span(nodes[i], lo2, hi2, i)
        <3> DEFINE x == nodes[i]
        <3>1. /\ Span(x, lo, hi, i) /\ i \in Nat /\ lo2[i] = lo[i] /\ hi2[i] = hi[i]
              /\ x.kind = "node" =>
                    /\ Len(x.children) \in Nat \ {0}
                    /\ \A p \in 1..Len(x.children) : /\ lo2[x.children[p]] = lo[x.children[p]]
                                                     /\ hi2[x.children[p]] = hi[x.children[p]]
            BY <1>1, <1>2, <2>1, <2>2
        <3> HIDE DEF x
        <3>2. Span(x, lo2, hi2, i)
            BY <3>1, SpanAlike
        <3> QED
            BY <3>2 DEF x
    <2> QED
        BY <1>1, <2>3
<1>8. Spans(more, lo2, hi2)
    <2>1. \A i \in 1..top : i \in 1..n \/ i = top
        BY <1>1
    <2> QED
        BY <1>1, <1>6, <1>7, <2>1 DEF Spans
<1> QED
    BY <1>2, <1>3, <1>8

-----------------------------------------------------------------------------
(* A level *)

LEMMA AppendedSet ==
    ASSUME NEW T, NEW s \in Seq(T), NEW v \in T, NEW r, OneMore(r, s, v)
    PROVE  /\ r \in Seq(T) /\ Len(r) = Len(s) + 1 /\ r[Len(s) + 1] = v /\ \A i \in 1..Len(s) : r[i] = s[i]
           /\ ToSet(r) = ToSet(s) \cup {v}
           /\ IsInjective(s) /\ v \notin ToSet(s) => IsInjective(r)
<1> DEFINE n == Len(s)
<1>1. /\ r \in Seq(T) /\ Len(r) = n + 1 /\ r[n + 1] = v /\ \A i \in 1..n : r[i] = s[i]
      /\ n \in Nat /\ DOMAIN r = 1..n + 1 /\ DOMAIN s = 1..n
    BY DEF OneMore
<1>2. 1..n + 1 = 1..n \cup {n + 1}
    BY <1>1
<1> HIDE DEF n
<1>3. ToSet(r) = ToSet(s) \cup {v}
    BY <1>1, <1>2 DEF ToSet
<1>4. IsInjective(s) /\ v \notin ToSet(s) => IsInjective(r)
    BY <1>1, <1>2 DEF IsInjective, ToSet
<1> QED
    BY <1>1, <1>3, <1>4 DEF n

\* The roots in a row go over all N shards.
Row(row, lo, hi, N) == lo[row[1]] = 0 /\ hi[row[Len(row)]] = N /\ Meet(row, lo, hi)

\* What is so between levels: the next level's nodes are the roots.
Tier(acc, leaves, k, N) ==
    /\ acc \in Grown(1) /\ Len(acc.next) > 0 /\ IsInjective(acc.next)
    /\ Forest(acc.nodes, ToSet(acc.next)) /\ WellSized(acc.nodes, k) /\ Begins(acc.nodes, leaves)
    /\ \E lo, hi : Spans(acc.nodes, lo, hi) /\ Row(acc.next, lo, hi, N)

\* And g groups into one: the roots are the nodes over those and the old ones left.
Left(old, b, g) == {old[p] : p \in b[g] + 1..Len(old)}
Climbed(acc, old, b, g, leaves, k, N) ==
    /\ acc \in Grown(1) /\ old \in Seq(1..Len(acc.nodes))
    /\ Len(acc.next) = g /\ IsInjective(acc.next) /\ ToSet(acc.next) \cap Left(old, b, g) = {}
    /\ Forest(acc.nodes, ToSet(acc.next) \cup Left(old, b, g))
    /\ WellSized(acc.nodes, k) /\ Begins(acc.nodes, leaves)
    /\ \E lo, hi :
          /\ Spans(acc.nodes, lo, hi) /\ Row(old, lo, hi, N)
          /\ \A h \in 1..g : /\ lo[acc.next[h]] = lo[old[b[h - 1] + 1]]
                             /\ hi[acc.next[h]] = hi[old[b[h]]]

LEMMA ClimbKeeps ==
    ASSUME NEW old, IsInjective(old), NEW groups, NEW b, NEW k \in Nat \ {0, 1}, Cuts(old, groups, b, k),
           NEW g \in 1..Len(groups), NEW leaves, Len(leaves) \in Nat, NEW N,
           NEW acc, Climbed(acc, old, b, g - 1, leaves, k, N),
           groups[g] \in Seq(1..Len(acc.nodes)), Climb(acc, groups[g]) \in Grown(1)
    PROVE  Climbed(Climb(acc, groups[g]), old, b, g, leaves, k, N)
<1> DEFINE x == b[g - 1]
           y == b[g]
           L == Len(old)
           n == Len(acc.nodes)
           group == groups[g]
           next == acc.next
           new == Climb(acc, group)
           rest == Left(old, b, g)
<1>0. /\ x < y /\ y - x <= k /\ Len(group) = y - x
      /\ \A i \in 1..Len(group) : group[i] = old[x + i]
      /\ Len(groups) \in Nat /\ g \in Nat \ {0} /\ L \in Nat
      /\ b \in [0..Len(groups) -> 0..L]
      /\ \A h \in 1..Len(groups) : b[h - 1] < b[h]
    <2>1. old \in Seq(1..n)
        BY DEF Climbed
    <2>2. L \in Nat
        BY <2>1
    <2>3. Len(groups) \in 1..L - 1
        BY DEF Cuts
    <2>4. Len(groups) \in Nat /\ g \in Nat \ {0}
        BY <2>2, <2>3
    <2> QED
        BY <2>2, <2>4 DEF Cuts
<1>c. ASSUME NEW h \in 1..g
      PROVE  b[h - 1] \in Nat /\ b[h] \in Nat /\ b[h - 1] < b[h] /\ b[h] <= L
    <2>1. h \in 1..Len(groups) /\ h - 1 \in 0..Len(groups) /\ h \in 0..Len(groups)
        BY <1>0
    <2>2. b[h - 1] \in 0..L /\ b[h] \in 0..L
        BY <1>0, <2>1
    <2> HIDE DEF L
    <2> QED
        BY <1>0, <2>1, <2>2
<1>1. /\ x \in Nat /\ y \in Nat /\ x < y /\ y <= L /\ y - x <= k /\ Len(group) = y - x
      /\ \A i \in 1..y - x : group[i] = old[x + i]
      /\ g \in Nat \ {0} /\ L \in Nat
    <2>1. g \in 1..g
        BY <1>0
    <2> QED
        BY <1>0, <1>c, <2>1
<1> HIDE DEF x, y
<1>2. /\ Ordered(acc.nodes) /\ n \in Nat /\ acc.nodes \in Seq(AnyNodes)
      /\ next \in Seq(1..n) /\ Len(next) = g - 1 /\ IsInjective(next)
      /\ acc = [nodes |-> acc.nodes, next |-> next]
    BY DEF Climbed, Grown, Ordered
<1>3. L \in Nat /\ old \in Seq(1..n) /\ DOMAIN old = 1..L
    BY DEF Climbed
<1> HIDE DEF L
<1>4. group \in Seq(1..n) /\ DOMAIN group = 1..y - x
    BY <1>1
<1>5. /\ ToSet(next) \cap Left(old, b, g - 1) = {}
      /\ Forest(acc.nodes, ToSet(next) \cup Left(old, b, g - 1))
      /\ WellSized(acc.nodes, k) /\ Begins(acc.nodes, leaves)
    BY DEF Climbed
<1>6. PICK lo, hi :
          /\ Spans(acc.nodes, lo, hi) /\ Row(old, lo, hi, N)
          /\ \A h \in 1..g - 1 : lo[next[h]] = lo[old[b[h - 1] + 1]] /\ hi[next[h]] = hi[old[b[h]]]
    BY DEF Climbed
<1> HIDE DEF group
<1>7. Left(old, b, g - 1) = ToSet(group) \cup rest /\ ToSet(group) \cap rest = {}
    <2>1. x + 1..L = {x + i : i \in 1..y - x} \cup (y + 1..L)
        <3>1. \A p \in x + 1..L : p <= y => p - x \in 1..y - x /\ p = x + (p - x)
            BY <1>1
        <3>2. \A p \in x + 1..L : ~(p <= y) => p \in y + 1..L
            BY <1>1
        <3>3. \A i \in 1..y - x : x + i \in x + 1..L
            BY <1>1
        <3>4. \A p \in y + 1..L : p \in x + 1..L
            BY <1>1
        <3> QED
            BY <3>1, <3>2, <3>3, <3>4
    <2>2. ToSet(group) = {old[x + i] : i \in 1..y - x}
        BY <1>1, <1>4 DEF ToSet
    <2>3. Left(old, b, g - 1) = {old[p] : p \in x + 1..L} /\ rest = {old[p] : p \in y + 1..L}
        BY DEF Left, x, y, L
    <2>4. Left(old, b, g - 1) = ToSet(group) \cup rest
        BY <2>1, <2>2, <2>3
    <2>5. \A i \in 1..y - x, p \in y + 1..L : x + i \in 1..L /\ p \in 1..L /\ x + i # p
        BY <1>1
    <2>6. ToSet(group) \cap rest = {}
        BY <1>3, <2>2, <2>3, <2>5 DEF IsInjective
    <2> QED
        BY <2>4, <2>6
<1>8. 1..n \subseteq 1..n + 1 /\ 1..n \subseteq Nat
    BY <1>2
<1>9. rest \subseteq 1..n
    <2>1. \A p \in y + 1..L : p \in 1..L
        BY <1>1
    <2> QED
        BY <1>3, <2>1 DEF Left, y, L
<1>m. Meet(group, lo, hi)
    <2> SUFFICES ASSUME NEW p \in 1..y - x - 1
                 PROVE  hi[group[p]] = lo[group[p + 1]]
        BY <1>1 DEF Meet
    <2>1. p \in 1..y - x /\ p + 1 \in 1..y - x /\ x + p \in 1..L - 1 /\ x + p + 1 = x + (p + 1)
        BY <1>1
    <2>2. group[p] = old[x + p] /\ group[p + 1] = old[x + p + 1]
        BY <1>1, <2>1
    <2> QED
        BY <1>6, <2>1, <2>2 DEF Row, Meet, L
<1> HIDE DEF n, group, next, rest, x, y, L
<1>10. CASE Len(group) = 1
    <2> DEFINE v == group[1]
               all == Append(next, v)
    <2>1. y = x + 1 /\ v = old[x + 1] /\ v = old[y] /\ 1 \in 1..Len(group) /\ ToSet(group) = {v} /\ v \in 1..n
        <3>a. x \in Nat /\ y \in Nat /\ Len(group) = y - x
            BY <1>1
        <3>b. y - x = 1
            BY <3>a, <1>10
        <3>1. y = x + 1 /\ 1 \in 1..y - x
            BY <3>a, <3>b
        <3>2. DOMAIN group = {1}
            BY <1>4, <3>1, <1>1
        <3>3. v \in 1..n
            BY <1>4, <1>1, <3>1, MembersOf
        <3> QED
            BY <1>1, <3>1, <3>2, <3>3 DEF ToSet
    <2>2. new = [nodes |-> acc.nodes, next |-> all]
        BY <1>2, <1>10 DEF Climb, next, group
    <2>9. new \in Grown(1)
        BY DEF new, group
    <2> HIDE DEF v, new
    <2>3. v \notin ToSet(next)
        BY <1>5, <1>7, <2>1
    <2>4. /\ all \in Seq(1..n) /\ Len(all) = g /\ all[g] = v /\ \A h \in 1..g - 1 : all[h] = next[h]
          /\ ToSet(all) = ToSet(next) \cup {v} /\ IsInjective(all)
        <3>1. Len(next) + 1 = g
            BY <1>1, <1>2
        <3>2. next \in Seq(1..n) /\ v \in 1..n /\ IsInjective(next)
            BY <1>2, <2>1
        <3>3. /\ all \in Seq(1..n) /\ Len(all) = Len(next) + 1 /\ all[Len(next) + 1] = v
              /\ \A h \in 1..Len(next) : all[h] = next[h]
              /\ ToSet(all) = ToSet(next) \cup {v} /\ IsInjective(all)
            <4> DEFINE T == 1..n
            <4>1. next \in Seq(T) /\ v \in T /\ IsInjective(next) /\ OneMore(all, next, v) /\ v \notin ToSet(next)
                BY <2>3, <3>2 DEF OneMore
            <4> HIDE DEF T, all
            <4>2. /\ all \in Seq(T) /\ Len(all) = Len(next) + 1 /\ all[Len(next) + 1] = v
                  /\ \A h \in 1..Len(next) : all[h] = next[h]
                  /\ ToSet(all) = ToSet(next) \cup {v} /\ IsInjective(all)
                BY <4>1, AppendedSet
            <4> QED
                BY <4>2 DEF T
        <3> HIDE DEF all
        <3>4. Len(next) = g - 1
            BY <1>2
        <3> QED
            BY <3>1, <3>3, <3>4
    <2> HIDE DEF all
    <2>5. ToSet(all) \cap rest = {} /\ ToSet(all) \cup rest = ToSet(next) \cup Left(old, b, g - 1)
        BY <1>5, <1>7, <2>1, <2>4
    <2>6. \A h \in 1..g : lo[all[h]] = lo[old[b[h - 1] + 1]] /\ hi[all[h]] = hi[old[b[h]]]
        <3> TAKE h \in 1..g
        <3>1. CASE h = g
            BY <2>1, <2>4, <3>1 DEF x, y
        <3>2. CASE h # g
            <4>1. h \in 1..g - 1
                BY <1>1, <3>2
            <4> QED
                BY <1>6, <2>4, <4>1
        <3> QED
            BY <3>1, <3>2
    <2>7. new.nodes = acc.nodes /\ new.next = all
        BY <2>2
    <2>8. Forest(acc.nodes, ToSet(all) \cup rest)
        BY <1>5, <2>5
    <2>10. old \in Seq(1..n) /\ n = Len(acc.nodes) /\ rest = Left(old, b, g)
        BY <1>3 DEF n, rest
    <2>11. Climbed(new, old, b, g, leaves, k, N)
        <3>1. /\ new \in Grown(1) /\ old \in Seq(1..Len(new.nodes)) /\ Len(new.next) = g
              /\ IsInjective(new.next) /\ ToSet(new.next) \cap Left(old, b, g) = {}
              /\ Forest(new.nodes, ToSet(new.next) \cup Left(old, b, g))
              /\ WellSized(new.nodes, k) /\ Begins(new.nodes, leaves)
            BY <1>5, <2>4, <2>5, <2>7, <2>8, <2>9, <2>10
        <3>2. Spans(new.nodes, lo, hi) /\ Row(old, lo, hi, N)
            BY <1>6, <2>7
        <3>3. \A h \in 1..g : lo[new.next[h]] = lo[old[b[h - 1] + 1]] /\ hi[new.next[h]] = hi[old[b[h]]]
            BY <2>6, <2>7
        <3>4. \E l, h : /\ Spans(new.nodes, l, h) /\ Row(old, l, h, N)
                        /\ \A i \in 1..g : /\ l[new.next[i]] = l[old[b[i - 1] + 1]]
                                           /\ h[new.next[i]] = h[old[b[i]]]
            BY <3>2, <3>3
        <3> QED
            BY <3>1, <3>4 DEF Climbed
    <2> QED
        BY <2>11 DEF new, group
<1>11. CASE Len(group) # 1
    <2> DEFINE top == n + 1
               all == Append(next, top)
               more == Append(acc.nodes, NodeOver(group))
    <2>1. Len(group) \in 2..k /\ Len(group) \in Nat \ {0}
        BY <1>1, <1>11
    <2>2. new = [nodes |-> more, next |-> all]
        BY <1>11 DEF Climb, next, group, n, NodeOver
    <2>3. IsInjective(group)
        <3>1. \A i \in 1..y - x : x + i \in 1..L /\ x + i \in Nat
            BY <1>1
        <3>2. \A i, j \in 1..y - x : group[i] = group[j] => i = j
            <4> SUFFICES ASSUME NEW i \in 1..y - x, NEW j \in 1..y - x, group[i] = group[j] PROVE i = j
                OBVIOUS
            <4>1. x + i = x + j
                BY <1>1, <1>3, <3>1 DEF IsInjective
            <4> QED
                BY <1>1, <4>1
        <3> QED
            BY <1>4, <3>2 DEF IsInjective
    <2> DEFINE nodes == acc.nodes
    <2>n. /\ n = Len(nodes) /\ group \in Seq(1..Len(nodes)) /\ Ordered(nodes)
          /\ WithNode(more, nodes, group) /\ WellSized(nodes, k) /\ k \in Nat
          /\ Begins(nodes, leaves) /\ Spans(nodes, lo, hi) /\ n \in Nat
        BY <1>2, <1>4, <1>5, <1>6 DEF n, WithNode
    <2> HIDE DEF more, nodes
    <2>4. /\ Ordered(more) /\ Len(more) = top /\ top \in Nat
        <3>1. Ordered(more) /\ Len(more) = Len(nodes) + 1
            BY <2>n, OneNodeMore
        <3> QED
            BY <2>n, <3>1
    <2>5. WellSized(more, k)
        BY <2>n, <2>1, <2>3, SizedGrows
    <2>6. Begins(more, leaves)
        BY <2>n, BeginsGrows
    <2>7. PICK lo2, hi2 :
              /\ Spans(more, lo2, hi2)
              /\ \A i \in 1..n : lo2[i] = lo[i] /\ hi2[i] = hi[i]
              /\ lo2[top] = lo[group[1]] /\ hi2[top] = hi[group[Len(group)]]
        <3>1. \E lo2, hi2 :
                  /\ Spans(more, lo2, hi2)
                  /\ \A i \in 1..Len(nodes) : lo2[i] = lo[i] /\ hi2[i] = hi[i]
                  /\ lo2[Len(nodes) + 1] = lo[group[1]]
                  /\ hi2[Len(nodes) + 1] = hi[group[Len(group)]]
            BY <2>n, <1>m, <2>1, SpansGrow
        <3> QED
            BY <2>n, <3>1
    <2> DEFINE roots == ToSet(next) \cup Left(old, b, g - 1)
               kept == (roots \ ToSet(group)) \cup {top}
    <2>8. Forest(more, kept)
        <3>1. ToSet(group) \subseteq roots /\ Forest(nodes, roots)
            BY <1>5, <1>7 DEF nodes
        <3> HIDE DEF roots
        <3>2. Forest(more, (roots \ ToSet(group)) \cup {Len(nodes) + 1})
            BY <2>n, <3>1, ForestGrows
        <3> QED
            BY <2>n, <3>2
    <2>9. kept = ToSet(next) \cup rest \cup {top}
        BY <1>5, <1>7
    <2>10. top \notin 1..n
        BY <1>2
    <2>11. ToSet(next) \subseteq 1..n
        BY <1>2 DEF ToSet
    <2>12. /\ all \in Seq(1..top) /\ Len(all) = g /\ all[g] = top /\ \A h \in 1..g - 1 : all[h] = next[h]
           /\ ToSet(all) = ToSet(next) \cup {top} /\ IsInjective(all)
        <3>1. Len(next) + 1 = g /\ top \in 1..top /\ next \in Seq(1..top) /\ top \notin ToSet(next)
            <4>1. next \in Seq(1..top)
                BY <1>2, <1>8, WiderSeq
            <4>2. Len(next) + 1 = g
                BY <1>1, <1>2
            <4>3. top \in 1..top /\ top \notin ToSet(next)
                BY <2>n, <2>10, <2>11
            <4> QED
                BY <4>1, <4>2, <4>3
        <3> HIDE DEF top
        <3>2. /\ all \in Seq(1..top) /\ Len(all) = Len(next) + 1 /\ all[Len(next) + 1] = top
              /\ \A h \in 1..Len(next) : all[h] = next[h]
              /\ ToSet(all) = ToSet(next) \cup {top} /\ IsInjective(all)
            <4> DEFINE T == 1..top
            <4>1. next \in Seq(T) /\ top \in T /\ IsInjective(next) /\ OneMore(all, next, top) /\ top \notin ToSet(next)
                BY <1>2, <3>1 DEF OneMore
            <4> HIDE DEF T, all
            <4>2. /\ all \in Seq(T) /\ Len(all) = Len(next) + 1 /\ all[Len(next) + 1] = top
                  /\ \A h \in 1..Len(next) : all[h] = next[h]
                  /\ ToSet(all) = ToSet(next) \cup {top} /\ IsInjective(all)
                BY <4>1, AppendedSet
            <4> QED
                BY <4>2 DEF T
        <3> HIDE DEF all
        <3>3. Len(next) = g - 1
            BY <1>2
        <3> QED
            BY <3>1, <3>2, <3>3
    <2>13. ToSet(all) \cap rest = {} /\ ToSet(all) \cup rest = kept
        <3>1. top \notin rest
            BY <1>9, <2>10
        <3> QED
            BY <1>5, <1>7, <2>9, <2>12, <3>1
    <2>14. old \in Seq(1..top)
        BY <1>3, <1>8, WiderSeq
    <2>19. new \in Grown(1)
        BY DEF new, group
    <2> HIDE DEF all, more, kept, top, new
    <2>15. \A i \in 1..L : lo2[old[i]] = lo[old[i]] /\ hi2[old[i]] = hi[old[i]]
        BY <1>3, <2>7, MembersOf DEF L
    <2>16. Row(old, lo2, hi2, N)
        <3>1. 1 \in 1..L /\ L \in 1..L /\ \A p \in 1..L - 1 : p \in 1..L /\ p + 1 \in 1..L
            BY <1>1, <1>3
        <3> QED
            BY <1>6, <2>15, <3>1 DEF Row, Meet, L
    <2>17. \A h \in 1..g : lo2[all[h]] = lo2[old[b[h - 1] + 1]] /\ hi2[all[h]] = hi2[old[b[h]]]
        <3> TAKE h \in 1..g
        <3>1. b[h - 1] + 1 \in 1..L /\ b[h] \in 1..L
            <4>1. b[h - 1] \in Nat /\ b[h] \in Nat /\ b[h - 1] < b[h] /\ b[h] <= L
                BY <1>c DEF L
            <4>2. L \in Nat
                BY <1>1
            <4> QED
                BY <4>1, <4>2
        <3>2. CASE h = g
            <4>1. group[1] = old[x + 1] /\ group[Len(group)] = old[y]
                <5>1. 1 \in 1..y - x /\ y - x \in 1..y - x /\ x + (y - x) = y
                    BY <1>1
                <5> QED
                    BY <1>1, <5>1
            <4>2. b[h - 1] = x /\ b[h] = y
                BY <3>2 DEF x, y
            <4> QED
                BY <2>7, <2>12, <2>15, <3>1, <3>2, <4>1, <4>2
        <3>3. CASE h # g
            <4>1. h \in 1..g - 1
                BY <1>1, <3>3
            <4>2. next[h] \in 1..n
                BY <1>2, <4>1, MembersOf
            <4>3. lo[next[h]] = lo[old[b[h - 1] + 1]] /\ hi[next[h]] = hi[old[b[h]]]
                BY <1>6, <4>1
            <4>4. lo2[next[h]] = lo[next[h]] /\ hi2[next[h]] = hi[next[h]] /\ all[h] = next[h]
                BY <2>7, <2>12, <4>1, <4>2
            <4> QED
                BY <2>15, <3>1, <4>3, <4>4
        <3> QED
            BY <3>2, <3>3
    <2>18. new.nodes = more /\ new.next = all /\ rest = Left(old, b, g)
        BY <2>2 DEF rest
    <2>20. Climbed(new, old, b, g, leaves, k, N)
        <3>1. /\ new \in Grown(1) /\ old \in Seq(1..Len(new.nodes)) /\ Len(new.next) = g
              /\ IsInjective(new.next) /\ ToSet(new.next) \cap Left(old, b, g) = {}
              /\ Forest(new.nodes, ToSet(new.next) \cup Left(old, b, g))
              /\ WellSized(new.nodes, k) /\ Begins(new.nodes, leaves)
            BY <2>4, <2>5, <2>6, <2>8, <2>12, <2>13, <2>14, <2>18, <2>19
        <3>2. Spans(new.nodes, lo2, hi2) /\ Row(old, lo2, hi2, N)
            BY <2>7, <2>16, <2>18
        <3>3. \A h \in 1..g : lo2[new.next[h]] = lo2[old[b[h - 1] + 1]] /\ hi2[new.next[h]] = hi2[old[b[h]]]
            BY <2>17, <2>18
        <3>4. \E l, h : /\ Spans(new.nodes, l, h) /\ Row(old, l, h, N)
                        /\ \A i \in 1..g : /\ l[new.next[i]] = l[old[b[i - 1] + 1]]
                                           /\ h[new.next[i]] = h[old[b[i]]]
            BY <3>2, <3>3
        <3> QED
            BY <3>1, <3>4 DEF Climbed
    <2> QED
        BY <2>20 DEF new, group
<1> QED
    BY <1>10, <1>11 DEF new, group

LEMMA LevelKeeps ==
    ASSUME NEW leaves, Len(leaves) \in Nat, NEW k \in Nat \ {0, 1}, NEW N,
           NEW acc, Tier(acc, leaves, k, N), Len(acc.next) > 1
    PROVE  Tier(Level(acc, k), leaves, k, N) /\ Len(Level(acc, k).next) < Len(acc.next)
<1> DEFINE old == acc.next
           L == Len(old)
           n == Len(acc.nodes)
           groups == Chunks(old, k)
           m == Len(groups)
<1>1. /\ acc \in Grown(1) /\ IsInjective(old)
      /\ Forest(acc.nodes, ToSet(old)) /\ WellSized(acc.nodes, k) /\ Begins(acc.nodes, leaves)
      /\ \E lo, hi : Spans(acc.nodes, lo, hi) /\ Row(old, lo, hi, N)
    BY DEF Tier
<1>2. /\ old \in Seq(1..n) /\ L \in Nat /\ L > 1 /\ DOMAIN old = 1..L
      /\ acc = [nodes |-> acc.nodes, next |-> old]
    BY <1>1 DEF Grown
<1>3. PICK b : Cuts(old, groups, b, k)
    <2> DEFINE T == 1..n
    <2>1. old \in Seq(T)
        BY <1>2
    <2> HIDE DEF T, old
    <2> QED
        BY <1>2, <2>1, ChunksAre
<1>4. PICK upto :
          /\ m \in Nat
          /\ upto[0] = [acc EXCEPT !.next = <<>>]
          /\ \A g \in 1..m : upto[g] = Climb(upto[g - 1], groups[g])
          /\ \A g \in 0..m : upto[g] \in Grown(1)
          /\ Level(acc, k) = IF Len(acc.next) = 1 THEN acc ELSE upto[m]
    <2>1. k \in Nat \ {0}
        OBVIOUS
    <2> QED
        BY <1>1, <2>1, LevelSteps
<1>5. m \in 1..L - 1 /\ b[0] = 0 /\ b[m] = L /\ \A g \in 1..m : b[g - 1] < b[g]
      /\ b \in [0..m -> 0..L]
    BY <1>3 DEF Cuts
<1> HIDE DEF old, L, n, groups, m
<1>6. Climbed(upto[0], old, b, 0, leaves, k, N)
    <2> DEFINE start == upto[0]
    <2>1. start.nodes = acc.nodes /\ start.next = <<>>
        BY <1>2, <1>4
    <2>2. start \in Grown(1)
        BY <1>4
    <2> HIDE DEF start
    <2>3. Left(old, b, 0) = ToSet(old)
        <3>1. 0 + 1 = 1
            OBVIOUS
        <3> QED
            BY <1>2, <1>5, <3>1 DEF Left, ToSet, L
    <2>4. ToSet(<<>>) = {} /\ IsInjective(<<>>) /\ Len(<<>>) = 0
        BY DEF ToSet, IsInjective
    <2>5. PICK lo, hi : Spans(acc.nodes, lo, hi) /\ Row(old, lo, hi, N)
        BY <1>1
    <2>6. /\ start \in Grown(1) /\ old \in Seq(1..Len(start.nodes)) /\ Len(start.next) = 0
          /\ IsInjective(start.next) /\ ToSet(start.next) \cap Left(old, b, 0) = {}
          /\ Forest(start.nodes, ToSet(start.next) \cup Left(old, b, 0))
          /\ WellSized(start.nodes, k) /\ Begins(start.nodes, leaves)
        BY <1>1, <1>2, <2>1, <2>2, <2>3, <2>4 DEF n
    <2>7. \E l, h : /\ Spans(start.nodes, l, h) /\ Row(old, l, h, N)
                    /\ \A i \in 1..0 : /\ l[start.next[i]] = l[old[b[i - 1] + 1]]
                                       /\ h[start.next[i]] = h[old[b[i]]]
        BY <2>1, <2>5
    <2>8. Climbed(start, old, b, 0, leaves, k, N)
        BY <2>6, <2>7 DEF Climbed
    <2> QED
        BY <2>8 DEF start
<1>7. ASSUME NEW g \in 1..m, Climbed(upto[g - 1], old, b, g - 1, leaves, k, N)
      PROVE  Climbed(upto[g], old, b, g, leaves, k, N)
    <2> DEFINE before == upto[g - 1]
    <2>1. upto[g] = Climb(before, groups[g]) /\ upto[g] \in Grown(1)
        BY <1>4
    <2>2. Climbed(before, old, b, g - 1, leaves, k, N)
        BY <1>7
    <2> HIDE DEF before
    <2> DEFINE T == 1..Len(before.nodes)
    <2>3. old \in Seq(T) /\ k \in Nat \ {0}
        BY <2>2 DEF Climbed
    <2> HIDE DEF T
    <2>4. groups[g] \in Seq(T)
        BY <2>3, ChunksTyped DEF groups, m
    <2>5. /\ IsInjective(old) /\ Cuts(old, groups, b, k) /\ g \in 1..Len(groups)
          /\ groups[g] \in Seq(1..Len(before.nodes)) /\ Climb(before, groups[g]) \in Grown(1)
        BY <1>1, <1>3, <2>1, <2>4 DEF T, m
    <2>6. Climbed(Climb(before, groups[g]), old, b, g, leaves, k, N)
        BY <2>2, <2>5, ClimbKeeps
    <2> QED
        BY <2>1, <2>6
<1>8. Climbed(upto[m], old, b, m, leaves, k, N)
    <2> DEFINE bad == {g \in 0..m : ~Climbed(upto[g], old, b, g, leaves, k, N)}
    <2>1. 0 \notin bad /\ bad \in SUBSET (0..m)
        BY <1>6
    <2>2. \A g \in 1..m : g - 1 \notin bad => g \notin bad
        <3> TAKE g \in 1..m
        <3>1. g - 1 \in 0..m
            BY <1>4
        <3> QED
            BY <1>7, <3>1
    <2> HIDE DEF bad
    <2>3. bad = {} /\ m \in 0..m
        BY <1>4, <2>1, <2>2, SameSteps
    <2> QED
        BY <2>3 DEF bad
<1> DEFINE top == upto[m]
<1>9. Level(acc, k) = top
    <2>1. L # 1
        BY <1>2
    <2>2. Len(acc.next) # 1
        BY <2>1 DEF old, L
    <2> QED
        BY <1>4, <2>2
<1>10. Climbed(top, old, b, m, leaves, k, N)
    BY <1>8
<1> HIDE DEF top
<1>11. Left(old, b, m) = {}
    BY <1>2, <1>5 DEF Left, L
<1>12. /\ top \in Grown(1) /\ Len(top.next) = m /\ IsInjective(top.next)
       /\ Forest(top.nodes, ToSet(top.next)) /\ WellSized(top.nodes, k) /\ Begins(top.nodes, leaves)
    <2>1. ToSet(top.next) \cup {} = ToSet(top.next)
        OBVIOUS
    <2> QED
        BY <1>10, <1>11, <2>1 DEF Climbed
<1>13. PICK lo, hi :
          /\ Spans(top.nodes, lo, hi) /\ Row(old, lo, hi, N)
          /\ \A h \in 1..m : lo[top.next[h]] = lo[old[b[h - 1] + 1]] /\ hi[top.next[h]] = hi[old[b[h]]]
    BY <1>10 DEF Climbed
<1>14. Row(top.next, lo, hi, N)
    <2>1. lo[top.next[1]] = 0
        <3>1. 1 \in 1..m /\ b[1 - 1] + 1 = 1
            BY <1>2, <1>5
        <3> QED
            BY <1>13, <3>1 DEF Row
    <2>2. hi[top.next[m]] = N
        <3>1. m \in 1..m
            BY <1>2, <1>5
        <3> QED
            BY <1>5, <1>13, <3>1 DEF Row, L
    <2>3. ASSUME NEW h \in 1..m - 1
          PROVE  hi[top.next[h]] = lo[top.next[h + 1]]
        <3>1. h \in 1..m /\ h + 1 \in 1..m /\ h + 1 - 1 = h
            BY <1>2, <1>5
        <3>2. hi[top.next[h]] = hi[old[b[h]]] /\ lo[top.next[h + 1]] = lo[old[b[h] + 1]]
            BY <1>13, <3>1
        <3>3. b[h] \in 1..L - 1
            <4>1. b[h - 1] \in 0..L /\ b[h] \in 0..L /\ b[h + 1] \in 0..L /\ b[h - 1] < b[h] /\ b[h] < b[h + 1]
                <5>1. h - 1 \in 0..m /\ h \in 0..m /\ h + 1 \in 0..m
                    BY <1>2, <1>5
                <5>2. b[h - 1] < b[h] /\ b[h + 1 - 1] < b[h + 1]
                    BY <1>5, <3>1
                <5> QED
                    BY <1>5, <3>1, <5>1, <5>2
            <4> QED
                BY <1>2, <4>1
        <3> QED
            BY <1>13, <3>2, <3>3 DEF Row, Meet, L
    <2> QED
        BY <1>12, <2>1, <2>2, <2>3 DEF Row, Meet
<1>15. m > 0 /\ m < L
    BY <1>2, <1>5
<1>16. Tier(top, leaves, k, N)
    BY <1>12, <1>13, <1>14, <1>15 DEF Tier
<1> QED
    BY <1>9, <1>12, <1>15, <1>16 DEF L, old

-----------------------------------------------------------------------------
(* The leaves *)

\* f[i] is what the first i shards cost.
Costs(plan, f) ==
    /\ f \in [0..Len(plan.costs) -> Nat] /\ f[0] = 0
    /\ \A i \in 1..Len(plan.costs) : f[i] = f[i - 1] + plan.costs[i]

\* A leaf's shards are within the limits.
Within(plan, f, from, to) ==
    /\ from < to /\ to - from <= plan.leaf
    /\ to - from > 1 => f[to] - f[from] <= plan.budget

\* Leaves one after the other from the first shard.
Laid(plan, f, leaves, from) ==
    /\ leaves \in Seq(LeafNodes)
    /\ IF Len(leaves) = 0 THEN from = 0 ELSE leaves[1].from = 0 /\ leaves[Len(leaves)].to = from
    /\ \A i \in 1..Len(leaves) - 1 : leaves[i].to = leaves[i + 1].from
    /\ \A i \in 1..Len(leaves) : /\ Within(plan, f, leaves[i].from, leaves[i].to)
                                 /\ leaves[i].to <= Len(plan.costs)

LEMMA LaidMore ==
    ASSUME NEW plan, PlanOf(plan), NEW f, NEW leaves, NEW from \in Nat, Laid(plan, f, leaves, from),
           NEW to \in Nat, to <= Len(plan.costs), Within(plan, f, from, to),
           NEW x, x = [kind |-> "leaf", from |-> from, to |-> to]
    PROVE  Laid(plan, f, Append(leaves, x), to) /\ Len(Append(leaves, x)) > 0
<1> DEFINE n == Len(leaves)
           more == Append(leaves, x)
<1>1. x \in LeafNodes /\ x.from = from /\ x.to = to
    BY DEF LeafNodes
<1>2. leaves \in Seq(LeafNodes) /\ n \in Nat
    BY DEF Laid
<1>3. /\ more \in Seq(LeafNodes) /\ Len(more) = n + 1 /\ more[n + 1] = x
      /\ \A i \in 1..n : more[i] = leaves[i]
    BY <1>1, <1>2
<1> HIDE DEF n, more
<1>4. more[1].from = 0
    <2>1. CASE n = 0
        <3>1. more[1] = x
            BY <1>3, <2>1
        <3> QED
            BY <1>1, <2>1, <3>1 DEF Laid, n
    <2>2. CASE n # 0
        <3>1. 1 \in 1..n
            BY <1>2, <2>2
        <3> QED
            BY <1>3, <2>2, <3>1 DEF Laid, n
    <2> QED
        BY <2>1, <2>2
<1>5. ASSUME NEW i \in 1..n
      PROVE  more[i].to = more[i + 1].from
    <2>1. CASE i = n
        <3>1. leaves[n].to = from
            BY <1>2, <2>1 DEF Laid, n
        <3> QED
            BY <1>1, <1>3, <2>1, <3>1
    <2>2. CASE i # n
        <3>1. i \in 1..n - 1 /\ i + 1 \in 1..n
            BY <1>2, <2>2
        <3> QED
            BY <1>3, <3>1 DEF Laid, n
    <2> QED
        BY <2>1, <2>2
<1>6. ASSUME NEW i \in 1..n + 1
      PROVE  Within(plan, f, more[i].from, more[i].to) /\ more[i].to <= Len(plan.costs)
    <2>1. CASE i = n + 1
        BY <1>1, <1>3, <2>1
    <2>2. CASE i # n + 1
        <3>1. i \in 1..n
            BY <1>2, <2>2
        <3> QED
            BY <1>3, <3>1 DEF Laid, n
    <2> QED
        BY <2>1, <2>2
<1>7. n + 1 - 1 = n /\ n + 1 # 0 /\ n + 1 > 0
    BY <1>2
<1> QED
    BY <1>1, <1>3, <1>4, <1>5, <1>6, <1>7 DEF Laid, more

\* The leaves closed before shard i, and the one under way.
UpTo(plan, f, acc, i) ==
    /\ acc \in LeavesTo /\ Laid(plan, f, acc.leaves, acc.from)
    /\ acc.from <= i /\ acc.spent = f[i] - f[acc.from]
    /\ i > 0 => Within(plan, f, acc.from, i)

LEMMA CloseKeeps ==
    ASSUME NEW plan, PlanOf(plan), NEW f, Costs(plan, f), NEW i \in 1..Len(plan.costs),
           NEW acc, UpTo(plan, f, acc, i - 1)
    PROVE  UpTo(plan, f, Close(plan, acc, i), i)
<1> DEFINE c == plan.costs[i]
           from == acc.from
           spent == acc.spent
           x == [kind |-> "leaf", from |-> from, to |-> i - 1]
           N == Len(plan.costs)
           new == Close(plan, acc, i)
           closes == i - 1 > from /\ (i - 1 - from = plan.leaf \/ spent + c > plan.budget)
<1>1. /\ acc \in LeavesTo /\ Laid(plan, f, acc.leaves, from)
      /\ from <= i - 1 /\ spent = f[i - 1] - f[from] /\ (i - 1 > 0 => Within(plan, f, from, i - 1))
    BY DEF UpTo
<1>2. /\ from \in Nat /\ spent \in Nat /\ i \in Nat /\ c \in Nat /\ N \in Nat /\ i - 1 \in Nat
      /\ plan.leaf \in Nat \ {0} /\ plan.budget \in Nat /\ i <= N /\ i >= 1
      /\ acc = [leaves |-> acc.leaves, from |-> from, spent |-> spent]
    BY <1>1 DEF LeavesTo, PlanOf
<1>3. f[i] = f[i - 1] + c /\ f[i] \in Nat /\ f[i - 1] \in Nat /\ f[from] \in Nat
    <2>1. i - 1 \in 0..N /\ i \in 0..N /\ from \in 0..N
        BY <1>1, <1>2
    <2> QED
        BY <2>1 DEF Costs
<1>4. new = IF closes THEN [leaves |-> Append(acc.leaves, x), from |-> i - 1, spent |-> c]
            ELSE [leaves |-> acc.leaves, from |-> from, spent |-> spent + c]
    BY <1>2 DEF Close
<1>5. new \in LeavesTo
    BY <1>1, CloseTyped
<1> HIDE DEF c, from, spent, N, new
<1>6. CASE closes
    <2>1. new.leaves = Append(acc.leaves, x) /\ new.from = i - 1 /\ new.spent = c
        BY <1>4, <1>6
    <2>2. Within(plan, f, from, i - 1) /\ i - 1 <= N
        BY <1>1, <1>2, <1>6
    <2>3. Laid(plan, f, Append(acc.leaves, x), i - 1)
        BY <1>1, <1>2, <2>2, LaidMore DEF N
    <2>4. Within(plan, f, i - 1, i)
        BY <1>2 DEF Within
    <2>5. new.spent = f[i] - f[i - 1] /\ i - 1 <= i
        BY <1>2, <1>3, <2>1
    <2> QED
        BY <1>5, <2>1, <2>3, <2>4, <2>5 DEF UpTo, new
<1>7. CASE ~closes
    <2>1. new.leaves = acc.leaves /\ new.from = from /\ new.spent = spent + c
        BY <1>4, <1>7
    <2>2. new.spent = f[i] - f[from] /\ from <= i
        BY <1>1, <1>2, <1>3, <2>1
    <2>3. Within(plan, f, from, i)
        <3>1. CASE i - 1 = from
            BY <1>2, <3>1 DEF Within
        <3>2. CASE i - 1 # from
            <4>1. i - 1 > from /\ i - 1 - from # plan.leaf /\ spent + c <= plan.budget
                BY <1>1, <1>2, <1>7, <3>2
            <4>2. i - 1 - from <= plan.leaf
                BY <1>1, <1>2, <4>1 DEF Within
            <4>3. from \in Nat /\ from < i /\ i - from <= plan.leaf
                BY <1>2, <4>1, <4>2
            <4>4. f[i] - f[from] <= plan.budget
                BY <2>1, <2>2, <4>1
            <4> QED
                BY <4>3, <4>4 DEF Within
        <3> QED
            BY <3>1, <3>2
    <2> QED
        BY <1>1, <1>5, <2>1, <2>2, <2>3 DEF UpTo, new
<1> QED
    BY <1>6, <1>7

LEMMA LeavesAre ==
    ASSUME NEW plan, PlanOf(plan), NEW f, Costs(plan, f)
    PROVE  Laid(plan, f, Leaves(plan), Len(plan.costs)) /\ Len(Leaves(plan)) > 0
<1> DEFINE N == Len(plan.costs)
<1>1. N \in Nat /\ N > 0
    BY DEF PlanOf
<1>2. PICK upto :
          /\ upto[0] = [leaves |-> <<>>, from |-> 0, spent |-> 0]
          /\ \A i \in 1..N : upto[i] = Close(plan, upto[i - 1], i)
          /\ \A i \in 0..N : upto[i] \in LeavesTo
          /\ Leaves(plan) = Append(upto[N].leaves, [kind |-> "leaf", from |-> upto[N].from, to |-> N])
    BY LeavesSteps
<1> HIDE DEF N
<1>3. UpTo(plan, f, upto[0], 0)
    <2> DEFINE start == upto[0]
    <2>1. start.leaves = <<>> /\ start.from = 0 /\ start.spent = 0
        BY <1>2
    <2>2. start \in LeavesTo
        BY <1>1, <1>2
    <2>3. f[0] = 0
        BY DEF Costs
    <2> HIDE DEF start
    <2>4. Laid(plan, f, <<>>, 0)
        BY DEF Laid
    <2>5. UpTo(plan, f, start, 0)
        BY <2>1, <2>2, <2>3, <2>4 DEF UpTo
    <2> QED
        BY <2>5 DEF start
<1>4. ASSUME NEW i \in 1..N, UpTo(plan, f, upto[i - 1], i - 1)
      PROVE  UpTo(plan, f, upto[i], i)
    BY <1>2, <1>4, CloseKeeps DEF N
<1>5. UpTo(plan, f, upto[N], N)
    <2> DEFINE bad == {i \in 0..N : ~UpTo(plan, f, upto[i], i)}
    <2>1. 0 \notin bad /\ bad \in SUBSET (0..N)
        BY <1>3
    <2>2. \A i \in 1..N : i - 1 \notin bad => i \notin bad
        <3> TAKE i \in 1..N
        <3>1. i - 1 \in 0..N
            BY <1>1
        <3> QED
            BY <1>4, <3>1
    <2> HIDE DEF bad
    <2>3. bad = {}
        BY <1>1, <2>1, <2>2, SameSteps
    <2>4. N \in 0..N
        BY <1>1
    <2> QED
        BY <2>3, <2>4 DEF bad
<1> DEFINE last == upto[N]
           x == [kind |-> "leaf", from |-> last.from, to |-> N]
<1>6. last.from \in Nat /\ Laid(plan, f, last.leaves, last.from) /\ Within(plan, f, last.from, N)
    BY <1>1, <1>5 DEF UpTo, LeavesTo
<1> HIDE DEF last
<1>7. Laid(plan, f, Append(last.leaves, x), N) /\ Len(Append(last.leaves, x)) > 0
    BY <1>1, <1>6, LaidMore DEF N
<1> QED
    BY <1>2, <1>7 DEF last, N

\* Leaves one after the other are a tier, each its own root.
LEMMA LeavesTier ==
    ASSUME NEW plan, PlanOf(plan), NEW f, NEW leaves, NEW N, Laid(plan, f, leaves, N),
           Len(leaves) > 0, NEW k, NEW acc \in Grown(1), acc.nodes = leaves,
           acc.next = [j \in 1..Len(leaves) |-> j]
    PROVE  Tier(acc, leaves, k, N)
<1> DEFINE n == Len(leaves)
           row == [j \in 1..n |-> j]
           lo == [i \in 1..n |-> leaves[i].from]
           hi == [i \in 1..n |-> leaves[i].to]
<1>1. /\ leaves \in Seq(LeafNodes) /\ leaves[1].from = 0 /\ leaves[n].to = N
      /\ \A i \in 1..n - 1 : leaves[i].to = leaves[i + 1].from
      /\ \A i \in 1..n : Within(plan, f, leaves[i].from, leaves[i].to)
    BY DEF Laid
<1>2. n \in Nat /\ n > 0 /\ 1 \in 1..n /\ n \in 1..n
    BY <1>1
<1>3. \A i \in 1..n : leaves[i] \in LeafNodes
    BY <1>1
<1>4. \A i \in 1..n : leaves[i].kind = "leaf" /\ leaves[i].from \in Nat /\ leaves[i].to \in Nat
    BY <1>3 DEF LeafNodes
<1> HIDE DEF n
<1>5. Len(row) = n /\ ToSet(row) = 1..n /\ IsInjective(row)
    BY <1>2 DEF ToSet, IsInjective
<1>6. /\ \A i \in 1..n : lo[i] = leaves[i].from /\ hi[i] = leaves[i].to /\ row[i] = i
    OBVIOUS
<1> HIDE DEF lo, hi, row
<1>7. \A j \in 1..n : Over(leaves, j) = {}
    BY <1>4 DEF Over, n
<1>8. Forest(leaves, 1..n)
    BY <1>7 DEF Forest, n
<1>9. WellSized(leaves, k) /\ Begins(leaves, leaves)
    <2>1. Len(leaves) + 1..Len(leaves) = {}
        BY <1>2 DEF n
    <2>2. Len(leaves) <= Len(leaves)
        BY <1>2 DEF n
    <2> QED
        BY <1>4, <2>1, <2>2 DEF WellSized, Begins, n
<1>10. Spans(leaves, lo, hi)
    <2> SUFFICES ASSUME NEW i \in 1..n
                 PROVE  Span(leaves[i], lo, hi, i)
        BY DEF Spans, n
    <2>1. leaves[i].from < leaves[i].to
        BY <1>1 DEF Within
    <2>2. leaves[i].kind = "leaf" /\ leaves[i].kind # "node"
        BY <1>4
    <2> QED
        BY <1>4, <1>6, <2>1, <2>2 DEF Span
<1>11. Row(row, lo, hi, N)
    <2>1. lo[row[1]] = 0 /\ hi[row[n]] = N
        BY <1>1, <1>2, <1>6
    <2>2. ASSUME NEW p \in 1..n - 1
          PROVE  hi[row[p]] = lo[row[p + 1]]
        <3>1. p \in 1..n /\ p + 1 \in 1..n
            BY <1>2
        <3> QED
            BY <1>1, <1>6, <3>1
    <2> QED
        BY <1>5, <2>1, <2>2 DEF Row, Meet
<1>12. acc.next = row
    BY DEF row, n
<1>13. \E l, h : Spans(acc.nodes, l, h) /\ Row(acc.next, l, h, N)
    BY <1>10, <1>11, <1>12
<1> QED
    BY <1>2, <1>5, <1>8, <1>9, <1>12, <1>13 DEF Tier

\* The whole tree: one root, the last node, over all N shards.
TreeOver(nodes, leaves, k, N) ==
    /\ Ordered(nodes) /\ Forest(nodes, {Len(nodes)}) /\ WellSized(nodes, k) /\ Begins(nodes, leaves)
    /\ \E lo, hi : Spans(nodes, lo, hi) /\ lo[Len(nodes)] = 0 /\ hi[Len(nodes)] = N

\* A tier of one root is a tree, and the root is the last node.
LEMMA TierTops ==
    ASSUME NEW acc, NEW leaves, NEW k, NEW N, Tier(acc, leaves, k, N), Len(acc.next) = 1
    PROVE  TreeOver(acc.nodes, leaves, k, N)
<1> DEFINE nodes == acc.nodes
           n == Len(nodes)
           row == acc.next
           root == row[1]
<1>1. /\ Ordered(nodes) /\ row \in Seq(1..n) /\ Len(row) = 1
      /\ Forest(nodes, ToSet(row)) /\ WellSized(nodes, k) /\ Begins(nodes, leaves)
      /\ \E lo, hi : Spans(nodes, lo, hi) /\ Row(row, lo, hi, N)
    BY DEF Tier, Grown
<1>2. n \in Nat /\ n > 0
    BY <1>1 DEF Ordered
<1>3. ToSet(row) = {root} /\ root \in 1..n
    <2> HIDE DEF n, row
    <2>1. DOMAIN row = {1}
        BY <1>1
    <2>2. root \in 1..n
        <3>1. row \in Seq(1..n) /\ 1 \in 1..Len(row)
            BY <1>1
        <3> QED
            BY <3>1, ElementOfSeq
    <2>3. ToSet(row) = {root}
        BY <2>1 DEF ToSet
    <2> QED
        BY <2>2, <2>3
<1> HIDE DEF nodes, n, row, root
<1>4. Over(nodes, n) = {}
    <2> SUFFICES ASSUME NEW i \in 1..n, nodes[i].kind = "node", n \in ToSet(nodes[i].children)
                 PROVE  FALSE
        BY DEF Over, n
    <2>1. ToSet(nodes[i].children) \subseteq 1..i - 1
        BY <1>1, ChildrenAre DEF n
    <2>2. n \in 1..i - 1
        BY <2>1
    <2> QED
        BY <1>2, <2>2
<1>5. root = n
    <2>1. n \in 1..Len(nodes)
        BY <1>2 DEF n
    <2>2. n \notin {root} => \E i \in 1..Len(nodes) : Over(nodes, n) = {i}
        BY <1>1, <1>3, <2>1 DEF Forest
    <2> QED
        BY <1>4, <2>2
<1>6. \E lo, hi : Spans(nodes, lo, hi) /\ lo[n] = 0 /\ hi[n] = N
    <2>1. PICK lo, hi : Spans(nodes, lo, hi) /\ Row(row, lo, hi, N)
        BY <1>1
    <2>2. lo[n] = 0 /\ hi[n] = N
        BY <1>1, <1>5, <2>1 DEF Row, root
    <2> QED
        BY <2>1, <2>2
<1>7. TreeOver(nodes, leaves, k, N)
    BY <1>1, <1>3, <1>5, <1>6 DEF TreeOver, n
<1> QED
    BY <1>7 DEF nodes

\* Every plan is a tree: a level leaves fewer roots until one is left.
LEMMA PlanGrows ==
    ASSUME NEW plan, PlanOf(plan), NEW f, Costs(plan, f)
    PROVE  TreeOver(Plan(plan), Leaves(plan), plan.fan_in, Len(plan.costs))
<1> DEFINE leaves == Leaves(plan)
           n == Len(leaves)
           k == plan.fan_in
           N == Len(plan.costs)
<1>1. Laid(plan, f, leaves, N) /\ n > 0 /\ k \in Nat \ {0, 1}
    BY LeavesAre DEF PlanOf
<1>2. PICK upto : /\ n \in Nat /\ upto[0] = [nodes |-> leaves, next |-> [j \in 1..n |-> j]]
                  /\ \A i \in 1..n : upto[i] = Level(upto[i - 1], k)
                  /\ \A i \in 0..n : upto[i] \in Grown(1)
                  /\ Plan(plan) = upto[n].nodes
    <2>1. \E upto :
              LET q == Len(Leaves(plan))
              IN  /\ q \in Nat /\ upto[0] = [nodes |-> Leaves(plan), next |-> [j \in 1..q |-> j]]
                  /\ \A i \in 1..q : upto[i] = Level(upto[i - 1], plan.fan_in)
                  /\ \A i \in 0..q : upto[i] \in Grown(1)
                  /\ Plan(plan) = upto[q].nodes
        BY PlanSteps
    <2> QED
        BY <2>1
<1> HIDE DEF leaves, n, k, N
<1> DEFINE Low(i) == /\ Tier(upto[i], leaves, k, N)
                     /\ Len(upto[i].next) = 1 \/ Len(upto[i].next) <= n - i
<1>3. Low(0)
    <2> DEFINE base == upto[0]
    <2>1. base.nodes = leaves /\ base.next = [j \in 1..n |-> j] /\ base \in Grown(1)
        BY <1>2
    <2>2. Len(base.next) = n
        BY <1>2, <2>1
    <2> HIDE DEF base
    <2>3. Tier(base, leaves, k, N)
        BY <1>1, <2>1, LeavesTier DEF n
    <2>4. n <= n - 0
        BY <1>2
    <2> QED
        BY <2>2, <2>3, <2>4 DEF base
<1>4. ASSUME NEW i \in 1..n, Low(i - 1)
      PROVE  Low(i)
    <2> DEFINE before == upto[i - 1]
               after == upto[i]
               a == Len(before.next)
               b == Len(after.next)
    <2>1. after = Level(before, k) /\ Tier(before, leaves, k, N)
        BY <1>2, <1>4
    <2>2. i - 1 \in 0..n /\ i \in 0..n
        BY <1>2
    <2>3. a \in Nat /\ b \in Nat
        BY <1>2, <2>2 DEF Grown
    <2>4. a = 1 \/ a <= n - (i - 1)
        BY <1>4
    <2>5. a > 0
        BY <2>1 DEF Tier
    <2>6. CASE a = 1
        <3>1. after = before
            BY <2>1, <2>6 DEF Level
        <3> QED
            BY <2>1, <2>6, <3>1
    <2>7. CASE a > 1
        <3> HIDE DEF before, after
        <3>1. Len(leaves) \in Nat /\ k \in Nat \ {0, 1} /\ Len(before.next) > 1
            BY <1>1, <1>2, <2>7 DEF n
        <3>2. Tier(after, leaves, k, N) /\ b < a
            BY <2>1, <3>1, LevelKeeps
        <3>3. b <= n - i
            <4> HIDE DEF a, b
            <4> QED
                BY <1>2, <2>3, <2>4, <2>7, <3>2
        <3> QED
            BY <3>2, <3>3 DEF after
    <2>8. a = 1 \/ a > 1
        <3> HIDE DEF a
        <3> QED
            BY <2>3, <2>5
    <2> HIDE DEF Low, a
    <2> QED
        BY <2>6, <2>7, <2>8
<1>5. Low(n)
    <2> DEFINE bad == {i \in 0..n : ~Low(i)}
    <2> HIDE DEF Low
    <2>1. 0 \notin bad /\ bad \in SUBSET (0..n)
        BY <1>3
    <2>2. \A i \in 1..n : i - 1 \notin bad => i \notin bad
        <3> TAKE i \in 1..n
        <3>1. i - 1 \in 0..n
            BY <1>2
        <3> QED
            BY <1>4, <3>1
    <2> HIDE DEF bad
    <2>3. bad = {}
        BY <1>2, <2>1, <2>2, SameSteps
    <2>4. n \in 0..n
        BY <1>2
    <2> QED
        BY <2>3, <2>4 DEF bad
<1> DEFINE top == upto[n]
<1>6. Tier(top, leaves, k, N) /\ Len(top.next) = 1
    <2>1. Tier(top, leaves, k, N) /\ (Len(top.next) = 1 \/ Len(top.next) <= n - n)
        BY <1>5
    <2>2. Len(top.next) > 0
        BY <2>1 DEF Tier
    <2>3. top \in Grown(1)
        BY <2>1 DEF Tier
    <2> HIDE DEF top
    <2>4. Len(top.next) \in Nat /\ n - n = 0
        BY <1>2, <2>3 DEF Grown
    <2> QED
        BY <2>1, <2>2, <2>4
<1> HIDE DEF top
<1>7. TreeOver(top.nodes, leaves, k, N)
    BY <1>6, TierTops
<1> QED
    BY <1>2, <1>7 DEF top, leaves, k, N

\* The costs of the shards so far are a function.
LEMMA CostsAre ==
    ASSUME NEW plan, PlanOf(plan), NEW f,
           f = CHOOSE h : h = [i \in 0..Len(plan.costs) |->
                                  IF i = 0 THEN 0 ELSE h[i - 1] + plan.costs[i]]
    PROVE  Costs(plan, f)
<1> DEFINE n == Len(plan.costs)
           G == [q \in Nat \X (1..n) |-> q[1] + plan.costs[q[2]]]
           F(g) == [i \in 0..n |-> IF i = 0 THEN 0 ELSE g[i - 1] + plan.costs[i]]
<1>1. n \in Nat /\ \A i \in 1..n : plan.costs[i] \in Nat
    BY DEF PlanOf
<1> HIDE DEF n
<1>2. G \in [Nat \X (1..n) -> Nat] /\ \A a \in Nat, i \in 1..n : G[<<a, i>>] = a + plan.costs[i]
    BY <1>1
<1> HIDE DEF G
<1>3. PICK g \in [0..n -> Nat] : Follows(g, n, 0, G)
    BY <1>1, <1>2, StepsExist
<1>4. g = F(g)
    <2>1. \A i \in 0..n : i # 0 => i \in 1..n /\ i - 1 \in 0..n
        BY <1>1
    <2>2. \A i \in 0..n : g[i] = IF i = 0 THEN 0 ELSE g[i - 1] + plan.costs[i]
        BY <1>2, <1>3, <2>1 DEF Follows
    <2> QED
        BY <2>2
<1>5. f = F(f)
    <2>1. f = CHOOSE h : h = F(h)
        BY DEF n
    <2> HIDE DEF F
    <2> QED
        BY <1>4, <2>1
<1>6. f[0] = 0 /\ \A i \in 1..n : f[i] = f[i - 1] + plan.costs[i]
    <2>1. \A i \in 0..n : f[i] = IF i = 0 THEN 0 ELSE f[i - 1] + plan.costs[i]
        BY <1>5
    <2>2. 0 \in 0..n /\ \A i \in 1..n : i \in 0..n /\ i # 0
        BY <1>1
    <2> QED
        BY <2>1, <2>2
<1>7. \A i \in 0..n : f[i] \in Nat
    <2>1. ASSUME NEW i \in 1..n, f[i - 1] \in Nat
          PROVE  f[i] \in Nat
        <3>1. f[i] = f[i - 1] + plan.costs[i] /\ plan.costs[i] \in Nat
            BY <1>1, <1>6
        <3> QED
            BY <2>1, <3>1
    <2>2. f[0] \in Nat
        BY <1>6
    <2> QED
        BY <1>1, <2>1, <2>2, StepsStay
<1>8. f \in [0..n -> Nat]
    BY <1>5, <1>7
<1> QED
    BY <1>6, <1>8 DEF Costs, n

\* The tree over the leaves is what PlanIsTree says of it.
LEMMA PlansArePlanned ==
    ASSUME NEW plan, PlanOf(plan)
    PROVE  PlanIsTree(plan)
<1> DEFINE nodes == Plan(plan)
           n == Len(nodes)
           internal == {i \in 1..n : nodes[i].kind = "node"}
           over(j) == {i \in internal : j \in ToSet(nodes[i].children)}
           f == CHOOSE f : f = [i \in 0..Len(plan.costs) |->
                                  IF i = 0 THEN 0 ELSE f[i - 1] + plan.costs[i]]
           leaves == Leaves(plan)
           m == Len(leaves)
<1>1. Costs(plan, f)
    BY CostsAre
<1> HIDE DEF f
<1>2. Laid(plan, f, leaves, Len(plan.costs)) /\ m > 0
    BY <1>1, LeavesAre
<1>3. TreeOver(nodes, leaves, plan.fan_in, Len(plan.costs))
    BY <1>1, PlanGrows
<1>4. /\ Ordered(nodes) /\ Forest(nodes, {n}) /\ WellSized(nodes, plan.fan_in)
      /\ Begins(nodes, leaves)
    BY <1>3 DEF TreeOver
<1>5. /\ leaves \in Seq(LeafNodes) /\ leaves[1].from = 0 /\ leaves[m].to = Len(plan.costs)
      /\ \A i \in 1..m - 1 : leaves[i].to = leaves[i + 1].from
      /\ \A i \in 1..m : Within(plan, f, leaves[i].from, leaves[i].to)
    BY <1>2 DEF Laid
<1> HIDE DEF nodes, leaves
<1>6. n \in Nat /\ m \in Nat /\ m \in 1..n
    <2>1. n \in Nat /\ m \in Nat
        BY <1>4, <1>5 DEF Ordered
    <2>2. m <= n
        BY <1>4 DEF Begins
    <2> QED
        BY <1>2, <2>1, <2>2
<1>7. \A j : over(j) = Over(nodes, j)
    BY DEF Over
<1>8. over(n) = {} /\ \A j \in 1..n - 1 : \E i \in internal : over(j) = {i}
    <2>1. over(n) = {}
        <3>1. n \in 1..n
            BY <1>6
        <3> QED
            BY <1>4, <1>7, <3>1 DEF Forest
    <2>2. ASSUME NEW j \in 1..n - 1
          PROVE  \E i \in internal : over(j) = {i}
        <3>1. j \in 1..n /\ j # n
            BY <1>6
        <3>2. PICK i \in 1..n : Over(nodes, j) = {i}
            BY <1>4, <3>1 DEF Forest
        <3>3. i \in internal
            BY <3>2 DEF Over
        <3> QED
            BY <1>7, <3>2, <3>3
    <2> QED
        BY <2>1, <2>2
<1>9. ASSUME NEW i \in internal
      PROVE  /\ Len(nodes[i].children) \in 2..plan.fan_in
             /\ IsInjective(nodes[i].children)
             /\ ToSet(nodes[i].children) \subseteq 1..i - 1
    <2>1. i \in 1..Len(nodes) /\ nodes[i].kind = "node"
        OBVIOUS
    <2>2. ToSet(nodes[i].children) \subseteq 1..i - 1
        BY <1>4, <2>1, ChildrenAre
    <2> QED
        BY <1>4, <2>1, <2>2 DEF WellSized
<1>10. \A i \in 1..m : nodes[i] = leaves[i] /\ leaves[i] \in LeafNodes
    BY <1>4, <1>5 DEF Begins
<1>11. internal = m + 1..n
    <2>1. ASSUME NEW i \in 1..n
          PROVE  nodes[i].kind = "node" <=> i > m
        <3>1. CASE i <= m
            <4>1. i \in 1..m
                BY <1>6, <3>1
            <4>2. nodes[i] \in LeafNodes
                BY <1>10, <4>1
            <4>3. nodes[i].kind = "leaf"
                BY <4>2 DEF LeafNodes
            <4> QED
                BY <1>6, <3>1, <4>3
        <3>2. CASE i > m
            <4>1. i \in m + 1..n
                BY <1>6, <3>2
            <4> QED
                BY <1>4, <3>2, <4>1 DEF Begins
        <3> QED
            BY <1>6, <3>1, <3>2
    <2> HIDE DEF n, m
    <2> QED
        BY <1>6, <2>1
<1>12. nodes[1].from = 0 /\ nodes[m].to = Len(plan.costs)
    BY <1>5, <1>6, <1>10
<1>13. ASSUME NEW i \in 1..m - 1
       PROVE  nodes[i].to = nodes[i + 1].from
    <2>1. i \in 1..m /\ i + 1 \in 1..m
        BY <1>6
    <2> QED
        BY <1>5, <1>10, <2>1
<1>14. ASSUME NEW i \in 1..m
       PROVE  /\ nodes[i].to - nodes[i].from \in 1..plan.leaf
              /\ nodes[i].to - nodes[i].from > 1 => f[nodes[i].to] - f[nodes[i].from] <= plan.budget
    <2> DEFINE x == nodes[i]
    <2>1. x \in LeafNodes /\ Within(plan, f, x.from, x.to)
        BY <1>5, <1>10
    <2> HIDE DEF x
    <2>2. x.from \in Nat /\ x.to \in Nat
        BY <2>1 DEF LeafNodes
    <2>3. plan.leaf \in Nat
        BY DEF PlanOf
    <2>4. x.to - x.from \in 1..plan.leaf
        BY <2>1, <2>2, <2>3 DEF Within
    <2>5. x.to - x.from > 1 => f[x.to] - f[x.from] <= plan.budget
        BY <2>1 DEF Within
    <2> QED
        BY <2>4, <2>5 DEF x
<1>15. \E q \in 1..n :
          /\ internal = q + 1..n
          /\ nodes[1].from = 0 /\ nodes[q].to = Len(plan.costs)
          /\ \A i \in 1..q - 1 : nodes[i].to = nodes[i + 1].from
          /\ \A i \in 1..q :
                LET shards == nodes[i].to - nodes[i].from
                IN  /\ shards \in 1..plan.leaf
                    /\ shards > 1 => f[nodes[i].to] - f[nodes[i].from] <= plan.budget
    <2> HIDE DEF internal, n, m
    <2> QED
        BY <1>6, <1>11, <1>12, <1>13, <1>14
<1> QED
    BY <1>8, <1>9, <1>15 DEF PlanIsTree, nodes, f

\* Every plan the host may ask for is a tree over the block's shards, whatever
\* their costs (Tree::plan): no shard is dropped, none is proved twice, and no
\* node is left without the two children a node takes.
THEOREM PlannedTrees == TreeSpec => []PlansAreTrees
<1>1. PlansAreTrees
    <2>1. \A plan \in PlanGrid : PlanOf(plan)
        BY PlansAssumption DEF PlanOf
    <2> QED
        BY <2>1, PlansArePlanned DEF PlansAreTrees
<1> QED
    BY <1>1, PTL
-----------------------------------------------------------------------------
(* A prover that follows the plan with one statement's proofs *)

\* Shards f..t of the statement's own proofs, and that it has as many.
OwnShards(s, f, t) == [i \in 1..t - f |-> ShardProof(s, f + i, s.digest)]
InStatement(s, f, t) == f \in Nat /\ t \in Nat /\ f <= t /\ t <= Total(s.counts)

LEMMA StatementsAre ==
    ASSUME NEW s \in Statements
    PROVE  /\ s.counts \in [ToSet(Families) -> Nat] /\ Total(s.counts) \in Nat
           /\ s.digest \in Digests /\ s.lists \in [1..Total(s.counts) -> DOMAIN TraceOf]
<1>1. s.counts \in [ToSet(Families) -> Nat] /\ s.lists \in [1..Total(s.counts) -> DOMAIN TraceOf]
    BY StatementsAssumption
<1>2. Total(s.counts) \in Nat
    BY <1>1, TotalIsNat DEF Counted
<1> QED
    BY <1>1, <1>2 DEF Digests

LEMMA OwnShardsAre ==
    ASSUME NEW s \in Statements, NEW f, NEW t, InStatement(s, f, t)
    PROVE  /\ OwnShards(s, f, t) \in Seq(Proofs) /\ Len(OwnShards(s, f, t)) = t - f
           /\ \A i \in 1..t - f : OwnShards(s, f, t)[i] = ShardProof(s, f + i, s.digest)
<1> DEFINE u == OwnShards(s, f, t)
<1>1. Total(s.counts) \in Nat /\ s.digest \in Digests
    BY StatementsAre
<1>2. f \in Nat /\ t \in Nat /\ t - f \in Nat /\ \A i \in 1..t - f : f + i \in 1..Total(s.counts)
    BY <1>1 DEF InStatement
<1>3. \A i \in 1..t - f : ShardProof(s, f + i, s.digest) \in Proofs
    <2>1. \A i \in 1..t - f : ShardProof(s, f + i, s.digest) \in HeldOf(s)
        BY <1>1, <1>2 DEF HeldOf
    <2>2. HeldOf(s) \subseteq Proofs
        BY DEF Proofs, Held
    <2> QED
        BY <2>1, <2>2
<1>4. u = [i \in 1..t - f |-> ShardProof(s, f + i, s.digest)]
    BY DEF OwnShards
<1> QED
    BY <1>2, <1>3, <1>4

LEMMA OwnShardsJoin ==
    ASSUME NEW s \in Statements, NEW f, NEW t, NEW v, InStatement(s, f, t), InStatement(s, t, v)
    PROVE  OwnShards(s, f, t) \o OwnShards(s, t, v) = OwnShards(s, f, v)
<1> DEFINE x == OwnShards(s, f, t)
           y == OwnShards(s, t, v)
           z == OwnShards(s, f, v)
           Shard(i) == ShardProof(s, i, s.digest)
<1>0. Total(s.counts) \in Nat
    BY StatementsAre
<1>1. /\ f \in Nat /\ t \in Nat /\ v \in Nat /\ f <= t /\ t <= v /\ InStatement(s, f, v)
    BY <1>0 DEF InStatement
<1>2. /\ x \in Seq(Proofs) /\ Len(x) = t - f /\ \A i \in 1..t - f : x[i] = Shard(f + i)
      /\ y \in Seq(Proofs) /\ Len(y) = v - t /\ \A i \in 1..v - t : y[i] = Shard(t + i)
      /\ z \in Seq(Proofs) /\ Len(z) = v - f /\ \A i \in 1..v - f : z[i] = Shard(f + i)
    BY <1>1, OwnShardsAre
<1> HIDE DEF x, y, z, Shard
<1> DEFINE w == x \o y
<1>3. w \in Seq(Proofs) /\ Len(w) = v - f
      /\ \A i \in 1..v - f : w[i] = IF i <= t - f THEN x[i] ELSE y[i - (t - f)]
    <2>1. x \in Seq(Proofs) /\ y \in Seq(Proofs) /\ Len(x) = t - f /\ Len(y) = v - t
        BY <1>2
    <2>2. (t - f) + (v - t) = v - f
        BY <1>1
    <2>3. /\ w \in Seq(Proofs) /\ Len(w) = Len(x) + Len(y)
          /\ \A i \in 1..Len(x) + Len(y) : w[i] = IF i <= Len(x) THEN x[i] ELSE y[i - Len(x)]
        BY <2>1, ConcatProperties
    <2> QED
        BY <2>1, <2>2, <2>3
<1> HIDE DEF w
<1>4. ASSUME NEW i \in 1..v - f
      PROVE  w[i] = z[i]
    <2>1. CASE i <= t - f
        BY <1>1, <1>2, <1>3, <2>1
    <2>2. CASE i > t - f
        <3>1. i - (t - f) \in 1..v - t /\ t + (i - (t - f)) = f + i
            BY <1>1, <2>2
        <3>2. w[i] = y[i - (t - f)]
            BY <1>1, <1>3, <2>2
        <3> QED
            BY <1>2, <3>1, <3>2
    <2> QED
        BY <1>1, <2>1, <2>2
<1>5. w = z
    BY <1>1, <1>2, <1>3, <1>4
<1> QED
    BY <1>5 DEF w, x, y, z

\* The chain the host runs goes on by the shards' segments.
LEMMA StatesFollow ==
    ASSUME NEW s \in Statements, NEW f, NEW t, InStatement(s, f, t)
    PROVE  /\ Sequence(ChainState(s, f))
           /\ ChainState(s, t) = ChainState(s, f) \o SegmentsFrom(s.counts, f, OwnShards(s, f, t))
<1> DEFINE c == s.counts
           p == PrefixMessages(c, s.windows, "identity", s.io)
           x == OwnShards(s, 0, f)
           y == OwnShards(s, f, t)
           z == OwnShards(s, 0, t)
           sx == SegmentsFrom(c, 0, x)
           sy == SegmentsFrom(c, f, y)
           sz == SegmentsFrom(c, 0, z)
<1>1. /\ Total(c) \in Nat /\ f \in Nat /\ t \in Nat /\ f <= t /\ t <= Total(c)
      /\ InStatement(s, 0, f) /\ InStatement(s, 0, t)
    BY StatementsAre DEF InStatement
<1>2. ASSUME NEW here, InStatement(s, 0, here)
      PROVE  ChainState(s, here) = p \o SegmentsFrom(c, 0, OwnShards(s, 0, here))
    <2> DEFINE u == OwnShards(s, 0, here)
    <2>1. Len(u) = here - 0 /\ \A i \in 1..here - 0 : u[i] = ShardProof(s, 0 + i, s.digest)
        BY <1>2, OwnShardsAre
    <2>2. here \in Nat /\ here - 0 = here /\ \A i \in 1..here : 0 + i = i /\ 0 + i - 1 = i - 1
        BY <1>2 DEF InStatement
    <2>3. \A i \in 1..here : u[i].commitment = s.lists[i]
        <3>1. \A i \in 1..here : ShardProof(s, 0 + i, s.digest).commitment = s.lists[i]
            BY <2>2 DEF ShardProof
        <3> QED
            BY <2>1, <2>2, <3>1
    <2> HIDE DEF u
    <2>4. [i \in 1..Len(u) |-> SegmentMessages(c, 0 + i - 1, u[i].commitment)]
             = [i \in 1..here |-> SegmentMessages(c, i - 1, s.lists[i])]
        BY <2>1, <2>2, <2>3
    <2>5. SegmentsFrom(c, 0, u) = FlattenSeq([i \in 1..here |-> SegmentMessages(c, i - 1, s.lists[i])])
        BY <2>4 DEF SegmentsFrom
    <2> QED
        BY <2>5 DEF ChainState, u
<1>3. x \in Seq(Proofs) /\ y \in Seq(Proofs) /\ Len(x) = f - 0 /\ x \o y = z
    BY <1>1, OwnShardsAre, OwnShardsJoin
<1>4. 0 \in Nat /\ 0 + Len(x) = f
    BY <1>1, <1>3
<1> HIDE DEF x, y, z
<1>5. sx \in Seq(LaterOf(c)) /\ sz = Cat(sx, SegmentsFrom(c, 0 + Len(x), y))
    <2>1. x \in Seq(Proofs) /\ y \in Seq(Proofs) /\ z = x \o y /\ 0 \in Nat
        BY <1>3
    <2> QED
        BY <2>1, SegmentsJoin
<1>6. sz = sx \o sy
    BY <1>4, <1>5 DEF Cat
<1>7. Sequence(p) /\ Sequence(sx) /\ Sequence(sy)
    <2>1. Sequence(sx)
        BY <1>5, SequencesAre
    <2>2. Sequence(sy)
        <3>1. y = y \o <<>> /\ <<>> \in Seq(Proofs)
            BY <1>3
        <3>2. sy \in Seq(LaterOf(c))
            BY <1>1, <1>3, <3>1, SegmentsJoin
        <3> QED
            BY <3>2, SequencesAre
    <2>3. Sequence(p)
        <3> DEFINE S == {p[i] : i \in 1..7}
        <3>1. Len(p) = 7 /\ p \in Seq(S)
            BY DEF PrefixMessages
        <3> HIDE DEF p, S
        <3> QED
            BY <3>1, SequencesAre
    <2> QED
        BY <2>1, <2>2, <2>3
<1>8. ChainState(s, f) = p \o sx /\ ChainState(s, t) = p \o sz
    BY <1>1, <1>2 DEF x, z
<1> HIDE DEF p, sx, sy, sz
<1>9. Sequence(p \o sx) /\ (p \o sx) \o sy = p \o (sx \o sy)
    BY <1>7, SequencesJoin
<1> QED
    BY <1>6, <1>8, <1>9 DEF sy, y

\* The chain's claims of a leaf of the plan are the host's chain's.
LEMMA OwnChains ==
    ASSUME NEW s \in Statements, NEW f, NEW t, InStatement(s, f, t),
           NEW a, a = Advice(s, f, t, s.digest)
    PROVE  /\ ChainIn(a) = ChainState(s, f) /\ ChainOut(a) = ChainState(s, t)
           /\ Transcript(a) = ChainState(s, t) \o SuffixMessages(s.counts, s.boundary)
           /\ a.shards = OwnShards(s, f, t)
<1>1. /\ a.counts = s.counts /\ a.windows = s.windows /\ a.from = f /\ a.to = t
      /\ a.identity = "identity" /\ a.io = s.io /\ a.boundary = s.boundary
      /\ a.chain = ChainState(s, f) /\ a.shards = OwnShards(s, f, t)
    BY DEF Advice, OwnShards
<1>2. ChainIn(a) = ChainState(s, f)
    <2>1. CASE f = 0
        <3> DEFINE p == PrefixMessages(s.counts, s.windows, "identity", s.io)
                   none == [q \in 1..0 |-> SegmentMessages(s.counts, q - 1, s.lists[q])]
        <3>1. ChainIn(a) = p
            BY <1>1, <2>1 DEF ChainIn
        <3>2. ChainState(s, f) = p \o FlattenSeq(none)
            BY <2>1 DEF ChainState
        <3>3. FlattenSeq(none) = <<>>
            <4>1. none \in [1..0 -> Seq({})] /\ 0 \in Nat
                OBVIOUS
            <4> QED
                BY <4>1, FlattenTyped
        <3>4. p \o <<>> = p
            <4> DEFINE S == {p[i] : i \in 1..7}
            <4>1. Len(p) = 7 /\ p \in Seq(S)
                BY DEF PrefixMessages
            <4> HIDE DEF p, S
            <4> QED
                BY <4>1, ConcatEmptySeq
        <3> QED
            BY <3>1, <3>2, <3>3, <3>4
    <2>2. CASE f # 0
        BY <1>1, <2>2 DEF ChainIn
    <2> QED
        BY <2>1, <2>2
<1>3. ChainOut(a) = ChainState(s, t)
    <2>1. Len(a.shards) = t - f
        BY <1>1, OwnShardsAre
    <2>2. ChainOut(a) = ChainIn(a) \o SegmentsFrom(s.counts, f, a.shards)
        BY <1>1, <2>1 DEF ChainOut, SegmentsFrom
    <2>3. ChainState(s, t) = ChainState(s, f) \o SegmentsFrom(s.counts, f, OwnShards(s, f, t))
        BY StatesFollow
    <2> QED
        BY <1>1, <1>2, <2>2, <2>3
<1> QED
    BY <1>1, <1>2, <1>3 DEF Transcript

WholeOf(s) == Transcript(Advice(s, 0, Total(s.counts), s.digest))

\* What `verify_block` checked of an honest statement's own proofs.
LEMMA HonestIs ==
    ASSUME NEW s \in Statements, Honest(s), NEW u, u = OwnShards(s, 0, Total(s.counts))
    PROVE  /\ CheckMemoryWindows(KeyHeights, s.counts, s.windows)
           /\ CheckTsWindows(u)
           /\ FinalsOf[s.boundary].exit = s.exit
           /\ Reconciles(ReadsOf(u), WritesOf(u), s.boundary)
           /\ \A i \in 1..Total(s.counts) :
                 /\ VerifyShardLocal(u[i], StatementShards(s.counts)[i], s.digest, s.io)
                 /\ Opens(u[i])
<1> DEFINE T == Total(s.counts)
           a == Advice(s, 0, T, s.digest)
           j == LeafJournal(a)
           b == Block(j)
<1>1. /\ a.counts = s.counts /\ a.windows = s.windows /\ a.io = s.io /\ a.exit = s.exit
      /\ a.boundary = s.boundary /\ a.to = T /\ a.shards = u
    BY DEF Advice, OwnShards
<1>2. Len(u) = T /\ T \in Nat
    <2>1. T \in Nat
        BY StatementsAre
    <2>2. InStatement(s, 0, T)
        BY <2>1 DEF InStatement
    <2>3. Len(u) = T - 0
        BY <2>2, OwnShardsAre
    <2> QED
        BY <2>1, <2>3
<1>3. /\ j.shape = <<a.counts, a.windows>> /\ j.io = a.io /\ j.exit = a.exit
      /\ j.factors = (IF Ends(a) THEN a.boundary ELSE "one") /\ j.shards = a.shards
    BY DEF LeafJournal
<1>4. VerifyBlock(b, s.digest)
    BY DEF Honest
<1>5. Ends(a)
    BY <1>1 DEF Ends
<1> HIDE DEF a, T
<1>6. j.shape[1] = s.counts /\ j.shape[2] = s.windows /\ j.factors = s.boundary /\ j.shards = u
      /\ j.io = s.io /\ j.exit = s.exit
    BY <1>1, <1>3, <1>5
<1> HIDE DEF j
<1>7. /\ b.counts = s.counts /\ b.windows = s.windows /\ b.proofs = u
      /\ b.roots = [i \in 1..Len(u) |-> u[i].roots]
      /\ b.io = s.io /\ b.exit = s.exit /\ b.boundary = s.boundary
    BY <1>6 DEF Block
<1> HIDE DEF b
<1>8. /\ CheckMemoryWindows(KeyHeights, s.counts, s.windows) /\ CheckTsWindows(u)
      /\ FinalsOf[s.boundary].exit = s.exit
      /\ Reconciles(Product([i \in 1..Len(b.roots) |-> b.roots[i].reads]),
                    Product([i \in 1..Len(b.roots) |-> b.roots[i].writes]), s.boundary)
    BY <1>4, <1>7 DEF VerifyBlock
<1>9. \A i \in 1..Len(u) : /\ VerifyShardLocal(u[i], StatementShards(s.counts)[i], s.digest, s.io)
                           /\ Opens(u[i])
    BY <1>4, <1>7 DEF VerifyBlock
<1>10. /\ [i \in 1..Len(b.roots) |-> b.roots[i].reads] = [i \in 1..Len(u) |-> u[i].roots.reads]
       /\ [i \in 1..Len(b.roots) |-> b.roots[i].writes] = [i \in 1..Len(u) |-> u[i].roots.writes]
    <2>1. Len(b.roots) = Len(u)
        BY <1>2, <1>7
    <2> QED
        BY <1>7, <2>1
<1> QED
    BY <1>2, <1>8, <1>9, <1>10 DEF ReadsOf, WritesOf, T

\* The journal of shards f..t of the statement's own proofs.
OwnTo(j, s, f, t) ==
    /\ j.shape = <<s.counts, s.windows>> /\ j.digest = s.digest /\ j.io = s.io /\ j.exit = s.exit
    /\ j.total = Total(s.counts) /\ j.from = f /\ j.to = t
    /\ j.chain_in = ChainState(s, f) /\ j.chain_out = ChainState(s, t)
    /\ j.shards = OwnShards(s, f, t) /\ j.opens
    /\ t = Total(s.counts) => j.factors = s.boundary

\* A leaf of an honest statement's own proofs holds (node.rs `statement`).
LEMMA OwnLeafHolds ==
    ASSUME NEW s \in Statements, Honest(s), NEW f, NEW t, InStatement(s, f, t), f < t,
           digests[s.digest] = WholeOf(s), NEW a, a = Advice(s, f, t, s.digest)
    PROVE  /\ LeafHolds(a) /\ OwnTo(LeafJournal(a), s, f, t)
           /\ Ends(a) => Transcript(a) = WholeOf(s)
<1> DEFINE T == Total(s.counts)
           all == OwnShards(s, 0, T)
           u == OwnShards(s, f, t)
           d == s.digest
<1>1. /\ a.counts = s.counts /\ a.windows = s.windows /\ a.from = f /\ a.to = t
      /\ a.identity = "identity" /\ a.io = s.io /\ a.exit = s.exit /\ a.boundary = s.boundary
      /\ a.public = s.io /\ a.digest = d
    BY DEF Advice
<1>2. /\ ChainIn(a) = ChainState(s, f) /\ ChainOut(a) = ChainState(s, t) /\ a.shards = u
      /\ Transcript(a) = ChainState(s, t) \o SuffixMessages(s.counts, s.boundary)
    BY OwnChains
<1>3. f \in Nat /\ t \in Nat /\ T \in Nat /\ t <= T /\ InStatement(s, 0, T)
    BY StatementsAre DEF InStatement
<1>4. WholeOf(s) = ChainState(s, T) \o SuffixMessages(s.counts, s.boundary)
    <2> DEFINE w == Advice(s, 0, T, s.digest)
    <2>1. Transcript(w) = ChainState(s, T) \o SuffixMessages(s.counts, s.boundary)
        BY <1>3, OwnChains
    <2> QED
        BY <2>1 DEF WholeOf
<1>5. /\ CheckMemoryWindows(KeyHeights, s.counts, s.windows) /\ CheckTsWindows(all)
      /\ FinalsOf[s.boundary].exit = s.exit /\ Reconciles(ReadsOf(all), WritesOf(all), s.boundary)
      /\ \A i \in 1..T : /\ VerifyShardLocal(all[i], StatementShards(s.counts)[i], d, s.io)
                         /\ Opens(all[i])
    BY HonestIs
<1>6. Len(all) = T /\ Len(u) = t - f /\ \A i \in 1..t - f : f + i \in 1..T /\ u[i] = all[f + i]
    <2>1. Len(all) = T - 0 /\ \A i \in 1..T - 0 : all[i] = ShardProof(s, 0 + i, d)
        BY <1>3, OwnShardsAre
    <2>2. Len(u) = t - f /\ \A i \in 1..t - f : u[i] = ShardProof(s, f + i, d)
        BY OwnShardsAre
    <2>3. T - 0 = T /\ \A i \in 1..t - f : f + i \in 1..T /\ 0 + (f + i) = f + i
        BY <1>3
    <2> HIDE DEF all, u, T, d
    <2> QED
        BY <2>1, <2>2, <2>3
<1>7. Ends(a) => t = T /\ Transcript(a) = WholeOf(s)
    BY <1>1, <1>2, <1>4 DEF Ends
<1> HIDE DEF T, all, u, d
<1>8. CheckTsWindows(u)
    <2>1. \A i \in 1..Len(u) : TsWindowHolds(u[i])
        BY <1>5, <1>6 DEF CheckTsWindows
    <2>2. ASSUME NEW i \in 1..Len(u) - 1
          PROVE  TsWindowsMeet(u[i], u[i + 1])
        <3>1. i \in 1..t - f /\ i + 1 \in 1..t - f /\ f + i \in 1..T - 1 /\ f + (i + 1) = (f + i) + 1
            BY <1>3, <1>6
        <3>2. TsWindowsMeet(all[f + i], all[(f + i) + 1])
            BY <1>5, <1>6, <3>1 DEF CheckTsWindows
        <3> QED
            BY <1>6, <3>1, <3>2
    <2> QED
        BY <2>1, <2>2 DEF CheckTsWindows
<1>9. Ends(a) => DigestIs(a.digest, Transcript(a))
    <2> SUFFICES ASSUME Ends(a) PROVE DigestIs(d, WholeOf(s))
        BY <1>1, <1>7
    <2>1. digests[d] = WholeOf(s)
        BY DEF d
    <2>2. WholeOf(s) # <<>>
        <3> DEFINE x == ChainState(s, T)
                   y == SuffixMessages(s.counts, s.boundary)
        <3>1. InStatement(s, T, T)
            BY <1>3 DEF InStatement, T
        <3>2. Sequence(x) /\ Sequence(y) /\ Len(y) > 0
            BY <3>1, StatesFollow, SuffixTyped
        <3> HIDE DEF x, y
        <3> DEFINE S == {x[i] : i \in 1..Len(x)} \cup {y[i] : i \in 1..Len(y)}
        <3>3. x \in Seq(S) /\ y \in Seq(S)
            <4>1. x \in Seq({x[i] : i \in 1..Len(x)}) /\ y \in Seq({y[i] : i \in 1..Len(y)})
                BY <3>2 DEF Sequence
            <4> QED
                BY <4>1
        <3> HIDE DEF S
        <3>4. Len(x \o y) = Len(x) + Len(y) /\ Len(x) \in Nat /\ Len(y) \in Nat
            BY <3>3, ConcatProperties
        <3>5. x \o y # <<>>
            <4>1. Len(<<>>) = 0
                OBVIOUS
            <4> QED
                BY <3>2, <3>4, <4>1
        <3> QED
            BY <1>4, <3>5 DEF x, y
    <2> QED
        BY <2>1, <2>2 DEF DigestIs
<1> DEFINE j == LeafJournal(a)
<1>10. Ends(a) => FinalsOf[a.boundary].exit = a.exit
    BY <1>1, <1>5
<1>11. Ends(a) /\ a.from = 0 => Reconciles(j.reads, j.writes, a.boundary)
    <2> SUFFICES ASSUME Ends(a), a.from = 0 PROVE Reconciles(j.reads, j.writes, s.boundary)
        BY <1>1
    <2>1. u = all
        BY <1>1, <1>7 DEF u, all
    <2>2. j.reads = ReadsOf(u) /\ j.writes = WritesOf(u)
        BY <1>2 DEF LeafJournal, ReadsOf, WritesOf
    <2> QED
        BY <1>5, <2>1, <2>2
<1>12. \A i \in 1..Len(u) : /\ VerifyShardLocal(u[i], StatementShards(s.counts)[f + i], d, s.io)
                            /\ Opens(u[i])
    BY <1>5, <1>6
<1>13. LeafHolds(a)
    <2>1. a.from < a.to /\ a.to <= Total(a.counts)
        BY <1>1, <1>3 DEF T
    <2>2. \A i \in 1..Len(a.shards) :
              /\ VerifyShardLocal(a.shards[i], StatementShards(a.counts)[a.from + i], a.digest, a.public)
              /\ IsPublic(a.shards[i]) => a.public = a.io
        BY <1>1, <1>2, <1>12
    <2>3. CheckMemoryWindows(KeyHeights, a.counts, a.windows) /\ CheckTsWindows(a.shards)
        BY <1>1, <1>2, <1>5, <1>8
    <2> HIDE DEF j
    <2>4. Ends(a) => /\ DigestIs(a.digest, Transcript(a))
                     /\ FinalsOf[a.boundary].exit = a.exit
                     /\ a.from = 0 => Reconciles(j.reads, j.writes, a.boundary)
        BY <1>9, <1>10, <1>11
    <2> QED
        BY <1>1, <2>1, <2>2, <2>3, <2>4 DEF LeafHolds, j
<1>14. OwnTo(j, s, f, t)
    <2>1. /\ j.shape = <<a.counts, a.windows>> /\ j.digest = a.digest /\ j.io = a.io /\ j.exit = a.exit
          /\ j.total = Total(a.counts) /\ j.from = a.from /\ j.to = a.to
          /\ j.chain_in = ChainIn(a) /\ j.chain_out = ChainOut(a)
          /\ j.factors = (IF Ends(a) THEN a.boundary ELSE "one")
          /\ j.opens = (\A i \in 1..Len(a.shards) : Opens(a.shards[i]))
          /\ j.shards = a.shards
        BY DEF LeafJournal
    <2> HIDE DEF j
    <2>2. j.opens
        BY <1>2, <1>12, <2>1
    <2>3. t = Total(s.counts) => j.factors = s.boundary
        BY <1>1, <2>1 DEF Ends
    <2> QED
        BY <1>1, <1>2, <2>1, <2>2, <2>3 DEF OwnTo, u, d
<1> QED
    BY <1>7, <1>13, <1>14

\* The shards of neighbouring parts are the whole part's.
Adjoining(ss, s, n, f, t) ==
    /\ ss = [i \in 1..n |-> OwnShards(s, f[i], t[i])]
    /\ \A i \in 1..n : InStatement(s, f[i], t[i])
    /\ \A i \in 1..n - 1 : t[i] = f[i + 1]

LEMMA OwnShardsFlatten ==
    ASSUME NEW s \in Statements, NEW n \in Nat \ {0}, NEW f, NEW t, NEW ss, Adjoining(ss, s, n, f, t)
    PROVE  /\ InStatement(s, f[1], t[n]) /\ FlattenSeq(ss) = OwnShards(s, f[1], t[n])
<1> DEFINE part(k) == [i \in 1..k |-> OwnShards(s, f[i], t[i])]
           Upto(k) == InStatement(s, f[1], t[k]) /\ FlattenSeq(part(k)) = OwnShards(s, f[1], t[k])
<1>0. /\ ss = part(n) /\ \A i \in 1..n : InStatement(s, f[i], t[i])
      /\ \A i \in 1..n - 1 : t[i] = f[i + 1]
    BY DEF Adjoining
<1>1. \A i \in 1..n : OwnShards(s, f[i], t[i]) \in Seq(Proofs)
    BY <1>0, OwnShardsAre
<1>2. ASSUME NEW k \in 1..n
      PROVE  FlattenSeq(part(k)) = FlattenSeq(part(k - 1)) \o OwnShards(s, f[k], t[k])
    <2> DEFINE x == part(k)
               y == part(k - 1)
    <2>1. x \in [1..k -> Seq(Proofs)] /\ y = [i \in 1..k - 1 |-> x[i]] /\ k \in Nat \ {0}
          /\ x[k] = OwnShards(s, f[k], t[k])
        BY <1>1
    <2> HIDE DEF x, y
    <2>2. FlattenSeq(x) = FlattenSeq(y) \o x[k]
        BY <2>1, FlattenOneMore
    <2> QED
        BY <2>1, <2>2 DEF x, y
<1>3. FlattenSeq(part(0)) = <<>>
    <2>1. part(0) \in [1..0 -> Seq(Proofs)] /\ 0 \in Nat
        OBVIOUS
    <2> HIDE DEF part
    <2> QED
        BY <2>1, FlattenTyped
<1> HIDE DEF part
<1>4. Upto(1)
    <2>1. 1 \in 1..n /\ 1 - 1 = 0
        OBVIOUS
    <2>2. FlattenSeq(part(1)) = <<>> \o OwnShards(s, f[1], t[1])
        BY <1>2, <1>3, <2>1
    <2>3. <<>> \o OwnShards(s, f[1], t[1]) = OwnShards(s, f[1], t[1])
        BY <1>1, <2>1, ConcatEmptySeq
    <2> QED
        BY <1>0, <2>1, <2>2, <2>3
<1>5. ASSUME NEW k \in 1..n, k # 1, Upto(k - 1)
      PROVE  Upto(k)
    <2>1. k - 1 \in 1..n - 1 /\ k - 1 + 1 = k /\ k \in 1..n
        BY <1>5
    <2>2. t[k - 1] = f[k]
        BY <1>0, <2>1
    <2>3. InStatement(s, f[1], f[k]) /\ InStatement(s, f[k], t[k])
        BY <1>0, <1>5, <2>1, <2>2
    <2>4. OwnShards(s, f[1], f[k]) \o OwnShards(s, f[k], t[k]) = OwnShards(s, f[1], t[k])
        BY <2>3, OwnShardsJoin
    <2>5. InStatement(s, f[1], t[k])
        <3>1. Total(s.counts) \in Nat
            BY StatementsAre
        <3> QED
            BY <2>3, <3>1 DEF InStatement
    <2> QED
        BY <1>2, <1>5, <2>2, <2>4, <2>5
<1>6. Upto(n)
    <2> DEFINE bad == {k \in 0..n - 1 : ~Upto(k + 1)}
    <2> HIDE DEF Upto
    <2>1. bad \in SUBSET (0..n - 1) /\ n - 1 \in Nat
        OBVIOUS
    <2>2. 0 \notin bad
        <3>1. 0 + 1 = 1
            OBVIOUS
        <3> QED
            BY <1>4, <3>1
    <2>3. ASSUME NEW k \in 1..n - 1, k - 1 \notin bad
          PROVE  k \notin bad
        <3>1. k - 1 \in 0..n - 1 /\ (k - 1) + 1 = k /\ k + 1 \in 1..n /\ k + 1 # 1 /\ (k + 1) - 1 = k
            OBVIOUS
        <3>2. Upto(k)
            BY <2>3, <3>1
        <3>3. Upto(k + 1)
            BY <1>5, <3>1, <3>2
        <3> QED
            BY <3>3
    <2> HIDE DEF bad
    <2>4. bad = {}
        BY <2>1, <2>2, <2>3, SameSteps
    <2>5. n - 1 \in 0..n - 1 /\ (n - 1) + 1 = n
        OBVIOUS
    <2> QED
        BY <2>4, <2>5 DEF bad
<1> QED
    BY <1>0, <1>6

\* A node over an honest statement's own proofs holds (node.rs `internal`).
LEMMA OwnNodeHolds ==
    ASSUME NEW s \in Statements, Honest(s), NEW n \in 2..4, NEW f, NEW t, NEW js, NEW dg,
           \A i \in 1..n : Sound(js[i], dg) /\ OwnTo(js[i], s, f[i], t[i]),
           \A i \in 1..n - 1 : t[i] = f[i + 1]
    PROVE  /\ \A i \in 1..n - 1 : Neighbours(js[i], js[i + 1])
           /\ OwnTo(JournalTo(js, n), s, f[1], t[n])
           /\ js[1].from = 0 /\ js[n].to = js[1].total =>
                 Reconciles(Product([i \in 1..n |-> js[i].reads]),
                            Product([i \in 1..n |-> js[i].writes]), js[n].factors)
<1> DEFINE T == Total(s.counts)
           all == OwnShards(s, 0, T)
           m == JournalTo(js, n)
<1>0. n \in Nat \ {0} /\ 1 \in 1..n /\ n \in 1..n
    OBVIOUS
<1>1. T \in Nat /\ InStatement(s, 0, T)
    BY StatementsAre DEF InStatement
<1>2. ASSUME NEW i \in 1..n
      PROVE  /\ f[i] \in Nat /\ t[i] \in Nat /\ f[i] < t[i] /\ t[i] <= T /\ InStatement(s, f[i], t[i])
             /\ js[i].first = all[f[i] + 1] /\ js[i].last = all[t[i]]
    <2>1. Fits(js[i]) /\ InTime(js[i]) /\ OwnTo(js[i], s, f[i], t[i])
        BY DEF Sound
    <2>2. /\ js[i].from = f[i] /\ js[i].to = t[i] /\ js[i].total = T
          /\ js[i].shards = OwnShards(s, f[i], t[i])
        BY <2>1 DEF OwnTo
    <2>3. f[i] \in Nat /\ t[i] \in Nat /\ f[i] < t[i] /\ t[i] <= T
        BY <2>1, <2>2 DEF Fits
    <2>4. InStatement(s, f[i], t[i])
        BY <2>3 DEF InStatement
    <2> DEFINE u == OwnShards(s, f[i], t[i])
    <2>5. Len(u) = t[i] - f[i] /\ \A p \in 1..t[i] - f[i] : u[p] = ShardProof(s, f[i] + p, s.digest)
        BY <2>4, OwnShardsAre
    <2>6. \A p \in 1..T - 0 : all[p] = ShardProof(s, 0 + p, s.digest)
        BY <1>1, OwnShardsAre
    <2>7. /\ 1 \in 1..t[i] - f[i] /\ t[i] - f[i] \in 1..t[i] - f[i] /\ f[i] + (t[i] - f[i]) = t[i]
          /\ f[i] + 1 \in 1..T - 0 /\ t[i] \in 1..T - 0 /\ 0 + (f[i] + 1) = f[i] + 1 /\ 0 + t[i] = t[i]
        BY <1>1, <2>3
    <2>8. js[i].first = u[1] /\ js[i].last = u[t[i] - f[i]]
        BY <2>1, <2>2, <2>5 DEF InTime
    <2> HIDE DEF u, all, T
    <2>9. u[1] = all[f[i] + 1] /\ u[t[i] - f[i]] = all[t[i]]
        BY <2>5, <2>6, <2>7
    <2> QED
        BY <2>3, <2>4, <2>8, <2>9
<1>3. /\ CheckTsWindows(all) /\ Reconciles(ReadsOf(all), WritesOf(all), s.boundary) /\ Len(all) = T
    <2>1. Len(all) = T - 0
        BY <1>1, OwnShardsAre
    <2> QED
        BY <1>1, <2>1, HonestIs
<1> HIDE DEF T, all
<1>4. ASSUME NEW i \in 1..n - 1
      PROVE  Neighbours(js[i], js[i + 1])
    <2>1. i \in 1..n /\ i + 1 \in 1..n
        OBVIOUS
    <2>2. OwnTo(js[i], s, f[i], t[i]) /\ OwnTo(js[i + 1], s, f[i + 1], t[i + 1]) /\ t[i] = f[i + 1]
        BY <2>1
    <2>3. t[i] \in 1..T - 1
        BY <1>1, <1>2, <2>1, <2>2
    <2>4. TsWindowsMeet(all[t[i]], all[t[i] + 1])
        BY <1>3, <2>3 DEF CheckTsWindows
    <2>5. TsWindowsMeet(js[i].last, js[i + 1].first)
        BY <1>2, <2>1, <2>2, <2>4
    <2>6. Facts(js[i + 1]) = Facts(js[i])
        BY <2>2 DEF OwnTo, Facts
    <2>7. js[i + 1].from = js[i].to /\ js[i + 1].chain_in = js[i].chain_out
        BY <2>2 DEF OwnTo
    <2> QED
        BY <2>5, <2>6, <2>7 DEF Neighbours
<1>5. Sound(m, dg)
    BY <1>0, <1>4, JournalGrows
<1>6. /\ m.shape = js[1].shape /\ m.digest = js[1].digest /\ m.io = js[1].io /\ m.exit = js[1].exit
      /\ m.total = js[1].total /\ m.from = js[1].from /\ m.to = js[n].to
      /\ m.chain_in = js[1].chain_in /\ m.chain_out = js[n].chain_out
      /\ m.reads = Product([i \in 1..n |-> js[i].reads])
      /\ m.writes = Product([i \in 1..n |-> js[i].writes])
      /\ m.factors = js[n].factors
      /\ m.opens = (\A i \in 1..n : js[i].opens)
      /\ m.shards = FlattenSeq([i \in 1..n |-> js[i].shards])
    BY DEF JournalTo
<1> HIDE DEF m
<1>7. m.shards = OwnShards(s, f[1], t[n])
    <2> DEFINE ss == [i \in 1..n |-> OwnShards(s, f[i], t[i])]
    <2>1. [i \in 1..n |-> js[i].shards] = ss
        BY DEF OwnTo
    <2>2. \A i \in 1..n : InStatement(s, f[i], t[i])
        BY <1>2
    <2>3. Adjoining(ss, s, n, f, t)
        BY <2>2 DEF Adjoining
    <2> HIDE DEF ss
    <2>4. FlattenSeq(ss) = OwnShards(s, f[1], t[n])
        BY <1>0, <2>3, OwnShardsFlatten
    <2> QED
        BY <1>6, <2>1, <2>4
<1>8. OwnTo(m, s, f[1], t[n])
    <2>1. OwnTo(js[1], s, f[1], t[1]) /\ OwnTo(js[n], s, f[n], t[n])
        BY <1>0
    <2>2. m.opens
        BY <1>6 DEF OwnTo
    <2> QED
        BY <1>6, <1>7, <2>1, <2>2 DEF OwnTo
<1>9. ASSUME js[1].from = 0, js[n].to = js[1].total
      PROVE  Reconciles(Product([i \in 1..n |-> js[i].reads]),
                        Product([i \in 1..n |-> js[i].writes]), js[n].factors)
    <2>1. OwnTo(js[1], s, f[1], t[1]) /\ OwnTo(js[n], s, f[n], t[n])
        BY <1>0
    <2>2. f[1] = 0 /\ t[n] = T /\ js[n].factors = s.boundary
        BY <1>9, <2>1 DEF OwnTo, T
    <2>3. m.reads = ReadsOf(m.shards) /\ m.writes = WritesOf(m.shards)
        BY <1>5 DEF Sound, Adds
    <2>4. m.shards = all
        BY <1>7, <2>2 DEF all
    <2> QED
        BY <1>3, <1>6, <2>2, <2>3, <2>4
<1> QED
    BY <1>4, <1>8, <1>9 DEF m

\* The same of the node's own journal and checks.
LEMMA OwnInternal ==
    ASSUME NEW s \in Statements, Honest(s), NEW children, Len(children) \in 2..4,
           NEW f, NEW t, NEW dg,
           \A i \in 1..Len(children) : /\ Good(children[i]) /\ Sound(children[i].journal, dg)
                                       /\ OwnTo(children[i].journal, s, f[i], t[i]),
           \A i \in 1..Len(children) - 1 : t[i] = f[i + 1]
    PROVE  /\ InternalHolds(children, Programs)
           /\ OwnTo(InternalJournal(children, Programs), s, f[1], t[Len(children)])
<1> DEFINE n == Len(children)
           js == [i \in 1..n |-> children[i].journal]
           m == InternalJournal(children, Programs)
           j == JournalTo(js, n)
<1>1. n \in 2..4
    OBVIOUS
<1>2. /\ \A i \in 1..n : js[i] = children[i].journal
      /\ \A i \in 1..n : Sound(js[i], dg) /\ OwnTo(js[i], s, f[i], t[i])
      /\ \A i \in 1..n - 1 : t[i] = f[i + 1]
    OBVIOUS
<1>3. Len(js) = n /\ Last(js) = js[n]
    <2>1. Len(js) = n
        <3> HIDE DEF n
        <3>1. n \in Nat
            BY <1>1
        <3> QED
            BY <3>1
    <2> QED
        BY <2>1 DEF Last
<1>4. /\ m.shape = js[1].shape /\ m.digest = js[1].digest /\ m.io = js[1].io /\ m.exit = js[1].exit
      /\ m.total = js[1].total /\ m.from = js[1].from /\ m.to = Last(js).to
      /\ m.chain_in = js[1].chain_in /\ m.chain_out = Last(js).chain_out
      /\ m.factors = Last(js).factors
      /\ m.opens = (\A i \in 1..Len(js) : js[i].opens)
      /\ m.shards = FlattenSeq([i \in 1..Len(js) |-> js[i].shards])
    BY DEF InternalJournal
<1>5. \A i \in 1..n : ChildHolds(children[i], Programs)
    <2> SUFFICES ASSUME NEW i \in 1..n PROVE ChildHolds(children[i], Programs)
        OBVIOUS
    <2> DEFINE c == children[i]
    <2>1. Good(c)
        OBVIOUS
    <2> HIDE DEF c
    <2>2. Programs[1] = "leaf" /\ Programs[2] = "node" /\ 1 \in 1..2 /\ 2 \in 1..2 /\ 1 # 2
        BY DEF Programs
    <2>3. ChildHolds(c, Programs)
        BY <2>1, <2>2 DEF Good, ChildHolds
    <2> QED
        BY <2>3 DEF c
<1> HIDE DEF js, m, n
<1>6. /\ \A i \in 1..n - 1 : Neighbours(js[i], js[i + 1])
      /\ OwnTo(j, s, f[1], t[n])
      /\ js[1].from = 0 /\ js[n].to = js[1].total =>
            Reconciles(Product([i \in 1..n |-> js[i].reads]),
                       Product([i \in 1..n |-> js[i].writes]), js[n].factors)
    BY <1>1, <1>2, OwnNodeHolds
<1>7. Whole(js) => ProductsReconcile(js)
    BY <1>3, <1>6 DEF Whole, ProductsReconcile
<1>8. InternalHolds(children, Programs)
    <2>1. \A i \in 1..Len(js) - 1 : Neighbours(js[i], js[i + 1])
        BY <1>3, <1>6
    <2>2. \A i \in 1..Len(js) : ChildHolds(children[i], Programs)
        BY <1>3, <1>5
    <2> QED
        BY <1>1, <1>7, <2>1, <2>2 DEF InternalHolds, js, n
<1>9. /\ j.shape = js[1].shape /\ j.digest = js[1].digest /\ j.io = js[1].io /\ j.exit = js[1].exit
      /\ j.total = js[1].total /\ j.from = js[1].from /\ j.to = js[n].to
      /\ j.chain_in = js[1].chain_in /\ j.chain_out = js[n].chain_out
      /\ j.factors = js[n].factors
      /\ j.opens = (\A i \in 1..n : js[i].opens)
      /\ j.shards = FlattenSeq([i \in 1..n |-> js[i].shards])
    BY DEF JournalTo
<1> HIDE DEF j
<1>10. OwnTo(m, s, f[1], t[n])
    <2>1. /\ m.shape = j.shape /\ m.digest = j.digest /\ m.io = j.io /\ m.exit = j.exit
          /\ m.total = j.total /\ m.from = j.from /\ m.to = j.to
          /\ m.chain_in = j.chain_in /\ m.chain_out = j.chain_out /\ m.factors = j.factors
          /\ m.opens = j.opens /\ m.shards = j.shards
        BY <1>3, <1>4, <1>9
    <2> QED
        BY <1>6, <2>1 DEF OwnTo
<1> QED
    BY <1>8, <1>10 DEF m, n

\* The contract takes the root of an honest statement's tree.
LEMMA OwnTopHolds ==
    ASSUME NEW s \in Statements, Honest(s), NEW root, NEW dg, Good(root), Sound(root.journal, dg),
           OwnTo(root.journal, s, 0, Total(s.counts))
    PROVE  TopHolds(root)
<1> DEFINE j == root.journal
           all == OwnShards(s, 0, Total(s.counts))
<1>1. /\ j.from = 0 /\ j.to = j.total /\ j.opens /\ j.factors = s.boundary /\ j.shards = all
    BY DEF OwnTo
<1>2. Reconciles(ReadsOf(all), WritesOf(all), s.boundary)
    BY HonestIs
<1>3. j.reads = ReadsOf(all) /\ j.writes = WritesOf(all)
    BY <1>1 DEF Sound, Adds
<1>4. j.reads \in Bags /\ j.writes \in Bags
    <2>1. j.shards \in Seq(Proofs)
        BY DEF Sound, Fits
    <2> HIDE DEF j, all
    <2>2. all \in Seq(Proofs)
        BY <1>1, <2>1
    <2> QED
        BY <1>3, <2>2, ProductsJoin
<1>5. ChildHolds(root, Programs)
    <2>1. Programs[1] = "leaf" /\ Programs[2] = "node" /\ 1 \in 1..2 /\ 2 \in 1..2 /\ 1 # 2
        BY DEF Programs
    <2> QED
        BY <2>1 DEF Good, ChildHolds
<1> HIDE DEF j, all
<1> DEFINE js == <<j>>
<1>6. Len(js) = 1 /\ js[1] = j /\ Last(js) = j
    BY DEF Last
<1>7. /\ [i \in 1..Len(js) |-> js[i].reads] = [i \in 1..1 |-> j.reads]
      /\ [i \in 1..Len(js) |-> js[i].writes] = [i \in 1..1 |-> j.writes]
    BY <1>6
<1> HIDE DEF js
<1>8. Whole(js) /\ ProductsReconcile(js)
    <2>1. /\ Product([i \in 1..1 |-> j.reads]) = j.reads
          /\ Product([i \in 1..1 |-> j.writes]) = j.writes
        BY <1>4, SumOfOne
    <2> QED
        BY <1>1, <1>2, <1>3, <1>6, <1>7, <2>1 DEF Whole, ProductsReconcile
<1> QED
    BY <1>1, <1>5, <1>8 DEF TopHolds, j, js

-----------------------------------------------------------------------------
(* The invariant of a prover that follows the plan *)

\* Every proof is of the shards its node of the plan is over, of the statement's own.
KeptWith(lo, hi) ==
    /\ Spans(tree, lo, hi) /\ lo[Len(tree)] = 0
    /\ \A s \in keptTo :
          /\ s \in Statements /\ Honest(s)
          /\ digests[s.digest] = WholeOf(s) /\ hi[Len(tree)] = Total(s.counts)
          /\ \A i \in 1..Len(tree) : tree[i].kind = "leaf" => tree[i].to <= Total(s.counts)
          /\ \A i \in 1..Len(proved) :
                Good(proved[i]) /\ OwnTo(proved[i].journal, s, lo[i], hi[i])

KeptInv ==
    /\ WellSized(tree, 4)
    /\ keptTo # {} => token = "own" /\ decided # "refused"
    /\ \E lo, hi : KeptWith(lo, hi)

LEMMA KeptImpliesAccepted == TreeInv /\ KeptInv => PlannedTreesAreAccepted
    BY DEF KeptInv, KeptWith, PlannedTreesAreAccepted, Good

LEMMA KeptBegins == TreeInit => KeptInv
<1> SUFFICES ASSUME TreeInit PROVE KeptInv
    OBVIOUS
<1>1. PICK plan \in Plans :
          /\ tree = Plan(plan)
          /\ keptTo = {s \in Statements : /\ token = "own" /\ Honest(s)
                                         /\ Total(s.counts) = Len(plan.costs)}
    BY DEF TreeInit
<1>2. PlanOf(plan) /\ plan.fan_in <= 4 /\ plan.fan_in \in Nat
    BY PlansAssumption, FanInAssumption DEF PlanOf
<1> DEFINE f == CHOOSE f : f = [i \in 0..Len(plan.costs) |->
                                  IF i = 0 THEN 0 ELSE f[i - 1] + plan.costs[i]]
           N == Len(plan.costs)
           leaves == Leaves(plan)
<1>3. Costs(plan, f)
    BY <1>2, CostsAre
<1> HIDE DEF f
<1>4. Laid(plan, f, leaves, N) /\ TreeOver(tree, leaves, plan.fan_in, N)
    BY <1>1, <1>2, <1>3, LeavesAre, PlanGrows
<1>5. proved = <<>> /\ decided = "none"
    BY DEF TreeInit
<1>6. WellSized(tree, 4)
    <2>1. WellSized(tree, plan.fan_in)
        BY <1>4 DEF TreeOver
    <2>2. \A n \in 2..plan.fan_in : n \in 2..4
        BY <1>2
    <2> QED
        BY <2>1, <2>2 DEF WellSized
<1>7. PICK lo, hi : Spans(tree, lo, hi) /\ lo[Len(tree)] = 0 /\ hi[Len(tree)] = N
    BY <1>4 DEF TreeOver
<1>8. ASSUME NEW i \in 1..Len(tree), tree[i].kind = "leaf"
      PROVE  tree[i].to <= N
    <2>1. Begins(tree, leaves) /\ Len(tree) \in Nat
        BY <1>4 DEF TreeOver, Ordered
    <2>2. Len(leaves) \in Nat /\ \A q \in 1..Len(leaves) : leaves[q].to <= N
        BY <1>4 DEF Laid
    <2> HIDE DEF leaves, N
    <2>3. i \in 1..Len(leaves)
        <3> SUFFICES ASSUME i > Len(leaves) PROVE FALSE
            BY <2>1, <2>2
        <3>1. i \in Len(leaves) + 1..Len(tree)
            BY <2>1, <2>2
        <3> QED
            BY <1>8, <2>1, <3>1 DEF Begins
    <2> QED
        BY <2>1, <2>2, <2>3 DEF Begins
<1>9. ASSUME NEW s \in Statements
      PROVE  digests[s.digest] = WholeOf(s)
    <2> DEFINE d == s.digest
               Of(e) == CHOOSE r \in Statements : r.digest = e
    <2>1. d # "mixed" /\ d \in Digests
        BY StatementsAssumption DEF Digests
    <2>2. digests = [e \in Digests |-> IF e = "mixed" THEN <<>>
                                       ELSE Transcript(Advice(Of(e), 0, Total(Of(e).counts), e))]
        BY DEF TreeInit, Digests
    <2>3. Of(d) \in Statements /\ Of(d).digest = d
        OBVIOUS
    <2> HIDE DEF Of, d
    <2>4. digests[d] = Transcript(Advice(Of(d), 0, Total(Of(d).counts), d))
        BY <2>1, <2>2
    <2>5. digests[d] = WholeOf(Of(d))
        BY <2>3, <2>4 DEF WholeOf
    <2>6. \A r, q \in Statements : r.digest = q.digest => WholeOf(r) = WholeOf(q)
        BY StatementsAssumption DEF WholeOf
    <2> QED
        BY <2>3, <2>5, <2>6 DEF d
<1>10. KeptWith(lo, hi)
    <2>1. Len(proved) = 0 /\ 1..0 = {}
        BY <1>5
    <2> SUFFICES ASSUME NEW s \in keptTo
                 PROVE  /\ s \in Statements /\ Honest(s)
                        /\ digests[s.digest] = WholeOf(s) /\ hi[Len(tree)] = Total(s.counts)
                        /\ \A i \in 1..Len(tree) : tree[i].kind = "leaf" => tree[i].to <= Total(s.counts)
        BY <1>7, <2>1 DEF KeptWith
    <2>2. s \in Statements /\ Honest(s) /\ Total(s.counts) = N
        BY <1>1
    <2> QED
        BY <1>7, <1>8, <1>9, <2>2
<1>11. keptTo # {} => token = "own" /\ decided # "refused"
    BY <1>1, <1>5
<1> QED
    BY <1>6, <1>10, <1>11 DEF KeptInv

LEMMA KeptOneMore ==
    ASSUME TreeInv, NEW lo, NEW hi, KeptWith(lo, hi), NEW p, proved' = Append(proved, p),
           tree' = tree, keptTo' \subseteq keptTo,
           \A s \in keptTo' : /\ Good(p) /\ OwnTo(p.journal, s, lo[Next1], hi[Next1])
                              /\ digests'[s.digest] = WholeOf(s)
    PROVE  KeptWith(lo, hi)'
<1> DEFINE n == Len(proved)
<1>1. /\ Len(proved') = n + 1 /\ n \in Nat /\ proved'[n + 1] = p /\ Next1 = n + 1
      /\ \A i \in 1..n : proved'[i] = proved[i]
    <2> DEFINE x == proved
               y == proved'
    <2>1. Sequence(x) /\ OneMore(y, x, p) /\ n = Len(x)
        BY DEF TreeInv, OneMore
    <2> HIDE DEF x, y, n
    <2>2. /\ Len(y) = Len(x) + 1 /\ Len(x) \in Nat /\ y[Len(x) + 1] = p
          /\ \A i \in 1..Len(x) : y[i] = x[i]
        BY <2>1, AppendedIs
    <2> QED
        BY <2>1, <2>2 DEF x, y, Next1
<1> HIDE DEF n
<1>2. ASSUME NEW s \in keptTo', NEW i \in 1..n + 1
      PROVE  Good(proved'[i]) /\ OwnTo(proved'[i].journal, s, lo[i], hi[i])
    <2>1. CASE i = n + 1
        BY <1>1, <2>1
    <2>2. CASE i # n + 1
        <3>1. i \in 1..n /\ s \in keptTo
            BY <1>1, <2>2
        <3>2. proved'[i] = proved[i]
            BY <1>1, <3>1
        <3>3. Good(proved[i]) /\ OwnTo(proved[i].journal, s, lo[i], hi[i])
            BY <3>1 DEF KeptWith, n
        <3> QED
            BY <3>2, <3>3
    <2> QED
        BY <2>1, <2>2
<1>3. ASSUME NEW s \in keptTo'
      PROVE  /\ s \in Statements /\ Honest(s)
             /\ hi[Len(tree)] = Total(s.counts)
             /\ \A i \in 1..Len(tree) : tree[i].kind = "leaf" => tree[i].to <= Total(s.counts)
    BY DEF KeptWith
<1>4. Spans(tree, lo, hi) /\ lo[Len(tree)] = 0
    BY DEF KeptWith
<1> QED
    BY <1>1, <1>2, <1>3, <1>4 DEF KeptWith

LEMMA KeptLeaf ==
    ASSUME TreeInv, KeptInv, ProveLeaf
    PROVE  KeptInv'
<1> DEFINE x == tree[Next1]
           Mine(s) == Advice(s, x.from, x.to, IF token = "own" THEN s.digest ELSE token)
<1>1. PICK s \in Statements : \E a \in WithChains(Mine(s)) :
          Publish(a) /\ keptTo' = IF a = Mine(s) THEN keptTo \cap {s} ELSE {}
    BY Zenon DEF ProveLeaf
<1>2. PICK a \in WithChains(Mine(s)) :
          Publish(a) /\ keptTo' = IF a = Mine(s) THEN keptTo \cap {s} ELSE {}
    BY <1>1
<1> DEFINE p == NodeProof("leaf", LeafHolds(a), LeafJournal(a))
<1>3. /\ proved' = Append(proved, p) /\ tree' = tree /\ token' = token /\ decided' = decided
      /\ digests' = IF LeafHolds(a) /\ Ends(a) THEN [digests EXCEPT ![a.digest] = Transcript(a)]
                    ELSE digests
    BY <1>2 DEF Publish
<1>4. PICK lo, hi : KeptWith(lo, hi)
    BY DEF KeptInv
<1>5. keptTo' \subseteq keptTo
    BY <1>2
<1>6. InTurn("leaf")
    BY DEF ProveLeaf
<1>7. x.from \in Nat /\ x.to \in Nat /\ Next1 \in 1..Len(tree) /\ x.kind = "leaf"
    <2>1. x.from \in Nat /\ x.to \in Nat
        BY <1>6, LeafInTurn
    <2>2. Len(proved) \in Nat /\ Len(tree) \in Nat
        BY DEF TreeInv, Sequence, Ordered
    <2> QED
        BY <1>6, <2>1, <2>2 DEF InTurn, Next1
<1>8. ASSUME NEW r \in keptTo'
      PROVE  /\ Good(p) /\ OwnTo(p.journal, r, lo[Next1], hi[Next1])
             /\ digests'[r.digest] = WholeOf(r)
    <2>1. r = s /\ s \in keptTo /\ a = Mine(s)
        BY <1>2
    <2>2. token = "own"
        BY <2>1 DEF KeptInv
    <2>3. a = Advice(s, x.from, x.to, s.digest)
        BY <2>1, <2>2
    <2>4. Honest(s) /\ digests[s.digest] = WholeOf(s) /\ x.to <= Total(s.counts)
        BY <1>4, <1>7, <2>1 DEF KeptWith
    <2>5. lo[Next1] = x.from /\ hi[Next1] = x.to /\ x.from < x.to
        BY <1>4, <1>7 DEF KeptWith, Spans, Span
    <2> HIDE DEF x, Mine
    <2>6. InStatement(s, x.from, x.to)
        BY <1>7, <2>4, <2>5 DEF InStatement
    <2>7. /\ LeafHolds(a) /\ OwnTo(LeafJournal(a), s, x.from, x.to)
          /\ Ends(a) => Transcript(a) = WholeOf(s)
        BY <2>3, <2>4, <2>5, <2>6, OwnLeafHolds
    <2>8. p.exit = 0 /\ p.program = "leaf" /\ p.journal = LeafJournal(a)
        BY <2>7 DEF NodeProof
    <2>9. digests'[s.digest] = WholeOf(s)
        <3>1. a.digest = s.digest
            BY <2>3 DEF Advice
        <3>2. s.digest \in DOMAIN digests
            BY StatementsAre DEF TreeInv
        <3> QED
            BY <1>3, <2>4, <2>7, <3>1, <3>2
    <2> HIDE DEF p
    <2> QED
        BY <2>1, <2>5, <2>7, <2>8, <2>9 DEF Good
<1> HIDE DEF p
<1>9. KeptWith(lo, hi)'
    BY <1>3, <1>4, <1>5, <1>8, KeptOneMore
<1>10. WellSized(tree, 4)' /\ (keptTo' # {} => token' = "own" /\ decided' # "refused")
    BY <1>3, <1>5 DEF KeptInv
<1> QED
    BY <1>9, <1>10 DEF KeptInv

\* A proof that departs from every statement's: nothing is claimed of it.
LEMMA KeptToNone ==
    ASSUME TreeInv, KeptInv, tree' = tree, keptTo' = {}
    PROVE  KeptInv'
<1>1. PICK lo, hi : KeptWith(lo, hi)
    BY DEF KeptInv
<1>2. KeptWith(lo, hi)'
    BY <1>1 DEF KeptWith
<1> QED
    BY <1>2 DEF KeptInv

LEMMA KeptNode ==
    ASSUME TreeInv, KeptInv, ProveNode
    PROVE  KeptInv'
<1>1. InTurn("node") /\ digests' = digests /\ tree' = tree /\ token' = token /\ decided' = decided
    BY DEF ProveNode
<1>2. PICK ids \in {Programs, <<"leaf", "fake">>, <<"fake", "node">>} :
          /\ proved' = Append(proved, NodeProof("node", InternalHolds(Children, ids),
                                                InternalJournal(Children, ids)))
          /\ keptTo' = IF ids = Programs THEN keptTo ELSE {}
    BY Zenon DEF ProveNode
<1>3. CASE ids # Programs
    BY <1>1, <1>2, <1>3, KeptToNone
<1>4. CASE ids = Programs
    <2> DEFINE x == tree[Next1]
               group == x.children
               n == Len(group)
               p == NodeProof("node", InternalHolds(Children, Programs),
                              InternalJournal(Children, Programs))
    <2>1. proved' = Append(proved, p) /\ keptTo' = keptTo
        BY <1>2, <1>4
    <2>2. PICK lo, hi : KeptWith(lo, hi)
        BY DEF KeptInv
    <2>3. Ordered(tree) /\ Len(proved) \in Nat /\ Next1 \in 1..Len(tree) /\ x.kind = "node"
          /\ Next1 - 1 = Len(proved)
        <3>1. Ordered(tree) /\ Len(proved) \in Nat /\ Len(tree) \in Nat
            BY DEF TreeInv, Sequence, Ordered
        <3> QED
            BY <1>1, <3>1 DEF InTurn, Next1
    <2>4. group \in Seq(1..Len(proved)) /\ n \in 2..4
        <3>1. group \in Seq(1..Next1 - 1)
            BY <2>3, ChildrenAre
        <3>2. n \in 2..4
            BY <2>3 DEF KeptInv, WellSized
        <3> QED
            BY <2>3, <3>1, <3>2
    <2>5. Len(Children) = n /\ \A i \in 1..n : Children[i] = proved[group[i]] /\ group[i] \in 1..Len(proved)
        <3>1. n \in Nat
            BY <2>4
        <3>2. Len(Children) = n /\ \A i \in 1..n : Children[i] = proved[group[i]]
            BY <3>1 DEF Children
        <3> HIDE DEF group
        <3> QED
            BY <2>4, <3>2, ElementOfSeq
    <2>6. /\ lo[Next1] = lo[group[1]] /\ hi[Next1] = hi[group[n]]
          /\ \A q \in 1..n - 1 : hi[group[q]] = lo[group[q + 1]]
        BY <2>2, <2>3 DEF KeptWith, Spans, Span, Meet
    <2> DEFINE f == [i \in 1..n |-> lo[group[i]]]
               t == [i \in 1..n |-> hi[group[i]]]
    <2>7. /\ f[1] = lo[Next1] /\ t[n] = hi[Next1] /\ \A i \in 1..n - 1 : t[i] = f[i + 1]
          /\ \A i \in 1..n : f[i] = lo[group[i]] /\ t[i] = hi[group[i]]
        <3>1. 1 \in 1..n /\ n \in 1..n /\ \A i \in 1..n - 1 : i \in 1..n /\ i + 1 \in 1..n
            <4> HIDE DEF n
            <4> QED
                BY <2>4
        <3> HIDE DEF n
        <3> QED
            BY <2>6, <3>1
    <2> HIDE DEF f, t, group, n, x
    <2>8. ASSUME NEW s \in keptTo'
          PROVE  /\ Good(p) /\ OwnTo(p.journal, s, lo[Next1], hi[Next1])
                 /\ digests'[s.digest] = WholeOf(s)
        <3>1. /\ s \in Statements /\ Honest(s) /\ digests[s.digest] = WholeOf(s)
              /\ \A i \in 1..Len(proved) : Good(proved[i]) /\ OwnTo(proved[i].journal, s, lo[i], hi[i])
            BY <2>1, <2>2 DEF KeptWith
        <3>2. ASSUME NEW i \in 1..Len(Children)
              PROVE  /\ Good(Children[i]) /\ Sound(Children[i].journal, digests)
                     /\ OwnTo(Children[i].journal, s, f[i], t[i])
            <4>1. Children[i] = proved[group[i]] /\ group[i] \in 1..Len(proved)
                  /\ f[i] = lo[group[i]] /\ t[i] = hi[group[i]]
                BY <2>5, <2>7
            <4>2. Good(proved[group[i]]) /\ OwnTo(proved[group[i]].journal, s, f[i], t[i])
                BY <3>1, <4>1
            <4>3. Sound(proved[group[i]].journal, digests)
                BY <4>1, <4>2 DEF TreeInv
            <4> QED
                BY <4>1, <4>2, <4>3
        <3>3. Len(Children) \in 2..4 /\ \A i \in 1..Len(Children) - 1 : t[i] = f[i + 1]
            BY <2>4, <2>5, <2>7
        <3>4. /\ InternalHolds(Children, Programs)
              /\ OwnTo(InternalJournal(Children, Programs), s, f[1], t[Len(Children)])
            BY <3>1, <3>2, <3>3, OwnInternal
        <3>5. /\ p.exit = 0 /\ p.program = "node" /\ p.journal = InternalJournal(Children, Programs)
            BY <3>4 DEF NodeProof
        <3>6. InternalJournal(Children, Programs).identities = Programs
            BY DEF InternalJournal
        <3> HIDE DEF p
        <3>7. Good(p)
            BY <3>5, <3>6 DEF Good
        <3> QED
            BY <1>1, <2>5, <2>7, <3>1, <3>4, <3>5, <3>7
    <2> HIDE DEF p
    <2>9. KeptWith(lo, hi)'
        BY <1>1, <2>1, <2>2, <2>8, KeptOneMore
    <2>10. WellSized(tree, 4)' /\ (keptTo' # {} => token' = "own" /\ decided' # "refused")
        BY <1>1, <2>1 DEF KeptInv
    <2> QED
        BY <2>9, <2>10 DEF KeptInv
<1> QED
    BY <1>3, <1>4

LEMMA KeptDecide ==
    ASSUME TreeInv, KeptInv, Decide
    PROVE  KeptInv'
<1>1. /\ Len(proved) = Len(tree)
      /\ decided' = IF TopHolds(Last(proved)) THEN "accepted" ELSE "refused"
      /\ tree' = tree /\ proved' = proved /\ digests' = digests /\ token' = token /\ keptTo' = keptTo
    BY DEF Decide
<1>2. PICK lo, hi : KeptWith(lo, hi)
    BY DEF KeptInv
<1>3. KeptWith(lo, hi)'
    BY <1>1, <1>2 DEF KeptWith
<1>4. ASSUME NEW s \in keptTo
      PROVE  TopHolds(Last(proved))
    <2> DEFINE n == Len(tree)
               root == proved[n]
    <2>1. n \in Nat /\ n > 0 /\ Last(proved) = root
        BY <1>1 DEF TreeInv, Ordered, Last
    <2>2. n \in 1..Len(proved)
        BY <1>1, <2>1
    <2> HIDE DEF n
    <2>3. /\ s \in Statements /\ Honest(s) /\ Good(root) /\ OwnTo(root.journal, s, lo[n], hi[n])
          /\ lo[n] = 0 /\ hi[n] = Total(s.counts)
        BY <1>2, <2>2 DEF KeptWith, n
    <2>4. Sound(root.journal, digests)
        BY <2>2, <2>3 DEF TreeInv
    <2> HIDE DEF root
    <2>5. TopHolds(root)
        BY <2>3, <2>4, OwnTopHolds
    <2> QED
        BY <2>1, <2>5
<1>5. keptTo # {} => decided' = "accepted"
    BY <1>1, <1>4
<1> QED
    BY <1>1, <1>3, <1>5 DEF KeptInv

LEMMA KeptNext == TreeInv /\ KeptInv /\ [TreeNext]_treeVars => KeptInv'
<1> SUFFICES ASSUME TreeInv, KeptInv, [TreeNext]_treeVars PROVE KeptInv'
    OBVIOUS
<1>1. CASE UNCHANGED treeVars
    BY <1>1 DEF treeVars, KeptInv, KeptWith
<1>2. CASE TreeDone
    BY <1>2 DEF TreeDone, treeVars, KeptInv, KeptWith
<1>3. CASE DepartingLeaf
    <2>1. keptTo' = {} /\ tree' = tree
        BY <1>3, Zenon DEF DepartingLeaf, Publish
    <2> QED
        BY <2>1, KeptToNone
<1>4. CASE ForgedNode
    <2>1. keptTo' = {} /\ tree' = tree
        BY <1>4 DEF ForgedNode
    <2> QED
        BY <2>1, KeptToNone
<1> QED
    BY <1>1, <1>2, <1>3, <1>4, KeptLeaf, KeptNode, KeptDecide DEF TreeNext

\* A prover that proves the plan with an honest statement's own proofs is never
\* refused, at a node or at the contract, for every plan of at most four children
\* a node and every statement (recursion.rs; node.rs; decider.rs).
THEOREM PlannedTreesPass == TreeSpec => []PlannedTreesAreAccepted
<1>1. TreeInv /\ KeptInv /\ [TreeNext]_treeVars => KeptInv'
    BY KeptNext
<1> QED
    BY <1>1, TreeInvariance, KeptBegins, KeptImpliesAccepted, PTL DEF TreeSpec
=============================================================================
