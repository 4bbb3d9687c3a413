--------------------------- MODULE CeremonyProofs ---------------------------
(***************************************************************************)
(* Theorems about Ceremony, for every group of odd prime order, every      *)
(* circuit and every choice of factors.                                    *)
(*                                                                         *)
(* The first part is arithmetic modulo the order: what is not zero has an  *)
(* inverse.  From it, a state that verifies is the circuit's under the     *)
(* product of its records, whoever made it; a contribution and a seal keep *)
(* a state verifying; and so do the files, whatever is cut short.          *)
(***************************************************************************)
EXTENDS Ceremony, FiniteSetTheorems, SequenceTheorems, WellFoundedInduction, TLAPS

-----------------------------------------------------------------------------
(* Arithmetic modulo Q *)

\* A set of naturals that is not empty has a least element.
LEMMA LeastOf ==
    ASSUME NEW S \in SUBSET Nat, S # {}
    PROVE  \E m \in S : \A x \in S : m <= x
<1> DEFINE R == {ss \in Nat \X Nat : ss[1] < ss[2]}
<1>1. IsWellFoundedOn(R, Nat)
    BY NatLessThanWellFounded DEF OpToRel
<1>2. \A x, y \in Nat : x < y => <<x, y>> \in R
    OBVIOUS
<1> HIDE DEF R
<1>3. PICK m \in S : \A x \in S : ~(<<x, m>> \in R)
    BY <1>1, WFMin
<1>4. \A x \in S : ~(x < m)
    BY <1>2, <1>3
<1> QED
    BY <1>4

LEMMA Order == Q \in Nat /\ Q > 2 /\ 0 \in Elements /\ 1 \in Elements /\ Elements \subseteq Nat
BY CeremonyAssumption DEF Elements

LEMMA Remainder ==
    ASSUME NEW x \in Int
    PROVE  /\ x % Q \in Elements /\ x \div Q \in Int
           /\ x = Q * (x \div Q) + (x % Q)
BY Order DEF Elements

\* Numbers with one remainder.
Same(x, y) == \E k \in Int : x - y = Q * k

LEMMA SameRemainder ==
    ASSUME NEW x \in Elements, NEW y \in Elements, Same(x, y)
    PROVE  x = y
<1>0. x \in 0..Q - 1 /\ y \in 0..Q - 1 /\ Q \in Nat /\ Q > 2
    BY Order DEF Elements
<1>1. PICK k \in Int : x - y = Q * k
    BY DEF Same
<1>2. CASE k >= 1
    <2>1. Q * k >= Q
        BY <1>0, <1>2
    <2> QED
        BY <1>0, <1>1, <2>1
<1>3. CASE k <= -1
    <2>1. Q * k <= -Q
        BY <1>0, <1>3
    <2> QED
        BY <1>0, <1>1, <2>1
<1>4. CASE k = 0
    BY <1>0, <1>1, <1>4
<1> QED
    BY <1>2, <1>3, <1>4

LEMMA SameAsRemainder ==
    ASSUME NEW x \in Int
    PROVE  Same(x, x % Q) /\ Same(x % Q, x)
<1>1. /\ x - (x % Q) = Q * (x \div Q) /\ (x % Q) - x = Q * (-(x \div Q))
      /\ x \div Q \in Int /\ -(x \div Q) \in Int
    BY Remainder, Order DEF Elements
<1> QED
    BY <1>1 DEF Same

LEMMA SameTransitive ==
    ASSUME NEW x \in Int, NEW y \in Int, NEW z \in Int, Same(x, y), Same(y, z)
    PROVE  Same(x, z)
<1>1. PICK k \in Int : x - y = Q * k
    BY DEF Same
<1>2. PICK l \in Int : y - z = Q * l
    BY DEF Same
<1>3. x - z = Q * (k + l) /\ k + l \in Int
    BY <1>1, <1>2, Order
<1> QED
    BY <1>3 DEF Same

LEMMA SameTimes ==
    ASSUME NEW x \in Int, NEW y \in Int, NEW z \in Int, Same(x, y)
    PROVE  Same(x * z, y * z) /\ Same(z * x, z * y)
<1>1. PICK k \in Int : x - y = Q * k
    BY DEF Same
<1>2. (x * z) - (y * z) = (x - y) * z /\ z * x = x * z /\ z * y = y * z
    OBVIOUS
<1>3. (Q * k) * z = Q * (k * z) /\ k * z \in Int
    BY Order
<1>4. (x * z) - (y * z) = Q * (k * z) /\ (z * x) - (z * y) = Q * (k * z)
    BY <1>1, <1>2, <1>3
<1> QED
    BY <1>3, <1>4 DEF Same

LEMMA SamePlus ==
    ASSUME NEW x \in Int, NEW y \in Int, NEW z \in Int, NEW u \in Int, Same(x, y), Same(z, u)
    PROVE  Same(x + z, y + u)
<1>1. PICK k \in Int : x - y = Q * k
    BY DEF Same
<1>2. PICK l \in Int : z - u = Q * l
    BY DEF Same
<1>3. (x + z) - (y + u) = Q * (k + l) /\ k + l \in Int
    BY <1>1, <1>2, Order
<1> QED
    BY <1>3 DEF Same

\* Equal remainders.
LEMMA SameMeans ==
    ASSUME NEW x \in Int, NEW y \in Int, Same(x, y)
    PROVE  x % Q = y % Q
<1>1. x % Q \in Elements /\ y % Q \in Elements /\ x % Q \in Int /\ y % Q \in Int
    BY Remainder, Order
<1>2. Same(x % Q, x) /\ Same(y, y % Q)
    BY SameAsRemainder
<1> HIDE DEF Same
<1>3. Same(x % Q, y)
    BY <1>1, <1>2, SameTransitive
<1>4. Same(x % Q, y % Q)
    BY <1>1, <1>2, <1>3, SameTransitive
<1> QED
    BY <1>1, <1>4, SameRemainder

LEMMA TimesType ==
    ASSUME NEW x \in Int, NEW y \in Int
    PROVE  Times(x, y) \in Elements
<1>1. x * y \in Int
    OBVIOUS
<1> QED
    BY <1>1, Remainder DEF Times

LEMMA TimesOne ==
    ASSUME NEW x \in Elements
    PROVE  Times(x, 1) = x /\ Times(1, x) = x
<1>1. x \in Nat /\ x < Q
    BY Order DEF Elements
<1>2. x * 1 = x /\ 1 * x = x /\ x % Q = x
    BY <1>1, Order
<1> QED
    BY <1>2 DEF Times

LEMMA TimesCommutes ==
    ASSUME NEW x \in Int, NEW y \in Int
    PROVE  Times(x, y) = Times(y, x)
<1>1. x * y = y * x
    OBVIOUS
<1> QED
    BY <1>1 DEF Times

LEMMA TimesAssociates ==
    ASSUME NEW x \in Int, NEW y \in Int, NEW z \in Int
    PROVE  Times(Times(x, y), z) = Times(x, Times(y, z))
<1> DEFINE p == x * y
           q == y * z
<1>1. p \in Int /\ q \in Int /\ p % Q \in Int /\ q % Q \in Int
    BY Remainder, Order
<1>2. Same(p % Q, p) /\ Same(q, q % Q)
    BY <1>1, SameAsRemainder
<1>3. p * z = x * q
    OBVIOUS
<1> HIDE DEF p, q
<1>4. Same((p % Q) * z, p * z) /\ Same(x * q, x * (q % Q))
    BY <1>1, <1>2, SameTimes
<1>5. (p % Q) * z \in Int /\ p * z \in Int /\ x * (q % Q) \in Int
    BY <1>1
<1>6. Same((p % Q) * z, x * (q % Q))
    BY <1>3, <1>4, <1>5, SameTransitive
<1>7. ((p % Q) * z) % Q = (x * (q % Q)) % Q
    BY <1>5, <1>6, SameMeans
<1> QED
    BY <1>7 DEF Times, p, q

\* Euclid's: the order divides no product of two that are less.
LEMMA NotZero ==
    ASSUME NEW x \in 1..Q - 1, NEW y \in 1..Q - 1
    PROVE  Times(x, y) \in 1..Q - 1
<1> DEFINE S == {d \in 1..Q - 1 : Times(x, d) = 0}
<1>0. x \in Nat /\ y \in Nat /\ \A d \in 1..Q - 1 : d \in Nat /\ d > 0 /\ d < Q
    BY Order
<1>1. ASSUME S # {} PROVE FALSE
    <2>1. S \subseteq Nat
        BY <1>0
    <2> HIDE DEF S
    <2>2. PICK d \in S : \A e \in S : d <= e
        BY <1>1, <2>1, LeastOf
    <2> USE DEF S
    <2>3. /\ d \in 1..Q - 1 /\ d \in Nat /\ d > 0 /\ d < Q /\ Times(x, d) = 0
          /\ \A e \in S : d <= e
        BY <2>2, <1>0
    <2> HIDE DEF S
    <2>4. d # 1
        <3>1. x \in Elements /\ x # 0
            BY Order DEF Elements
        <3> QED
            BY <3>1, <2>3, TimesOne
    <2> DEFINE r == Q % d
               k == Q \div d
    <2>5. r \in 0..d - 1 /\ k \in Int /\ Q = d * k + r
        BY <2>3, Order
    <2>6. r # 0
        <3>1. d \in 2..Q - 1
            BY <2>3, <2>4, Order
        <3> QED
            BY <3>1, CeremonyAssumption
    <2>7. r \in 1..Q - 1 /\ r \in Int /\ r < d
        BY <2>3, <2>5, <2>6, Order
    <2> HIDE DEF r, k
    <2>8. x * r = x * Q - (x * d) * k
        <3>1. r = Q - d * k
            BY <2>3, <2>5, <2>7, Order
        <3>2. x * (Q - d * k) = x * Q - x * (d * k)
            BY <1>0, <2>3, <2>5, Order
        <3>3. x * (d * k) = (x * d) * k
            BY <1>0, <2>3, <2>5
        <3> QED
            BY <3>1, <3>2, <3>3
    <2>9. PICK l \in Int : x * d = Q * l
        <3>1. x * d \in Int /\ (x * d) % Q = 0
            BY <1>0, <2>3 DEF Times
        <3>2. x * d = Q * ((x * d) \div Q) /\ (x * d) \div Q \in Int
            <4> DEFINE p == x * d
            <4>1. p = Q * (p \div Q) + (p % Q) /\ p \div Q \in Int /\ p % Q = 0
                BY <3>1, Remainder
            <4> HIDE DEF p
            <4>2. Q * (p \div Q) \in Int
                BY <4>1, Order
            <4>3. p = Q * (p \div Q) /\ p \div Q \in Int
                BY <4>1, <4>2
            <4> QED
                BY <4>3 DEF p
        <3> QED
            BY <3>2
    <2>10. x * r = Q * (x - l * k)
        <3>1. (Q * l) * k = Q * (l * k) /\ l * k \in Int
            BY <2>5, Order
        <3>2. x * Q - Q * (l * k) = Q * (x - l * k)
            BY <3>1, <1>0, Order
        <3> QED
            BY <2>8, <2>9, <3>1, <3>2
    <2>11. x * r \in Int /\ x - l * k \in Int /\ (x * r) - 0 = Q * (x - l * k)
        BY <2>5, <2>7, <2>9, <2>10, <1>0
    <2>12. Same(x * r, 0)
        BY <2>11 DEF Same
    <2>13. Times(x, r) = 0
        <3>1. (x * r) % Q = 0 % Q
            BY <2>11, <2>12, SameMeans
        <3>2. 0 % Q = 0
            BY Order
        <3> QED
            BY <3>1, <3>2 DEF Times
    <2>14. r \in S
        BY <2>7, <2>13 DEF S
    <2> QED
        BY <2>3, <2>7, <2>14
<1>2. Times(x, y) \in Elements
    BY <1>0, TimesType
<1>3. Times(x, y) # 0
    BY <1>1
<1> QED
    BY <1>2, <1>3, Order DEF Elements

\* What is not zero has one inverse.
LEMMA InverseMod ==
    ASSUME NEW x \in 1..Q - 1
    PROVE  Reciprocal(x) \in 1..Q - 1 /\ Times(x, Reciprocal(x)) = 1
<1> DEFINE N == 1..Q - 1
           f == [y \in N |-> Times(x, y)]
<1>0. /\ x \in Nat /\ \A y \in N : y \in Nat
      /\ Q - 1 \in Int /\ 1 \in Int /\ 1 \in N
    BY Order
<1>1. f \in [N -> N]
    BY NotZero
<1>2. IsFiniteSet(N)
    BY <1>0, FS_Interval
<1>3. ASSUME NEW y \in N, NEW z \in N, y < z, f[y] = f[z] PROVE FALSE
    <2>1. Times(x, y) = Times(x, z) /\ z - y \in N /\ y \in Nat /\ z \in Nat
        BY <1>0, <1>3, Order
    <2>2. Same(x * z, x * y)
        <3>1. x * z \in Int /\ x * y \in Int
            BY <1>0, <2>1
        <3>2. Same(x * z, (x * z) % Q) /\ Same((x * y) % Q, x * y)
            BY <3>1, SameAsRemainder
        <3>3. (x * z) % Q = (x * y) % Q /\ (x * z) % Q \in Int
            BY <2>1, <3>1, Remainder, Order DEF Times
        <3> HIDE DEF Same
        <3> QED
            BY <3>1, <3>2, <3>3, SameTransitive
    <2>3. PICK k \in Int : x * z - x * y = Q * k
        BY <2>2 DEF Same
    <2>4. x * (z - y) = x * z - x * y
        BY <1>0, <2>1
    <2>5. Same(x * (z - y), 0) /\ x * (z - y) \in Int
        <3>1. x * (z - y) \in Int
            BY <1>0, <2>1
        <3>2. x * (z - y) - 0 = Q * k
            BY <3>1, <2>3, <2>4
        <3> QED
            BY <3>1, <3>2 DEF Same
    <2>6. Times(x, z - y) = 0
        <3>1. (x * (z - y)) % Q = 0 % Q
            BY <2>5, SameMeans
        <3>2. 0 % Q = 0
            BY Order
        <3> QED
            BY <3>1, <3>2 DEF Times
    <2>7. Times(x, z - y) \in 1..Q - 1
        BY <2>1, NotZero
    <2> QED
        BY <2>6, <2>7
<1>4. \A y, z \in N : f[y] = f[z] => y = z
    <2> SUFFICES ASSUME NEW y \in N, NEW z \in N, f[y] = f[z] PROVE y = z
        OBVIOUS
    <2>1. ~(y < z) /\ ~(z < y)
        BY <1>3
    <2> QED
        BY <1>0, <2>1
<1>5. f \in Injection(N, N)
    <2> HIDE DEF f
    <2> QED
        BY <1>1, <1>4 DEF Injection, IsInjective
<1>6. f \in Surjection(N, N)
    <2> HIDE DEF f, N
    <2> QED
        BY <1>2, <1>5, FS_Injection
<1>7. \E y \in N : f[y] = 1
    <2> HIDE DEF f
    <2> QED
        BY <1>0, <1>6 DEF Surjection
<1>8. \E y \in N : Times(x, y) = 1
    BY <1>7
<1>9. Reciprocal(x) \in N /\ Times(x, Reciprocal(x)) = 1
    <2> HIDE DEF f
    <2>1. PICK y \in N : Times(x, y) = 1
        BY <1>8
    <2> QED
        BY <2>1 DEF Reciprocal
<1> QED
    BY <1>9

LEMMA Numbers ==
    /\ \A x \in Elements : x \in Int
    /\ \A x \in 1..Q - 1 : x \in Elements /\ x # 0
    /\ \A x \in Elements : x # 0 => x \in 1..Q - 1
BY Order DEF Elements

\* A factor multiplied in on one side and divided by on the other is nothing.
LEMMA FactorsCancel ==
    ASSUME NEW x \in Elements, NEW o \in Elements, NEW t \in Elements, NEW f \in Elements,
           Times(o, f) = 1
    PROVE  Times(Times(x, o), Times(t, f)) = Times(x, t)
<1>1. x \in Int /\ o \in Int /\ t \in Int /\ f \in Int
    BY Numbers
<1>2. Times(t, f) \in Int /\ Times(x, t) \in Elements
    BY <1>1, TimesType, Numbers
<1>3. Times(Times(x, o), Times(t, f)) = Times(x, Times(o, Times(t, f)))
    BY <1>1, <1>2, TimesAssociates
<1>4. Times(t, f) = Times(f, t)
    BY <1>1, TimesCommutes
<1>5. Times(o, Times(f, t)) = Times(Times(o, f), t)
    BY <1>1, TimesAssociates
<1>6. Times(1, t) = t
    BY TimesOne
<1> QED
    BY <1>3, <1>4, <1>5, <1>6

LEMMA Divided ==
    ASSUME NEW x \in 1..Q - 1, NEW e \in Elements, NEW s, Times(e, x) = s
    PROVE  e = Times(s, Reciprocal(x))
<1>1. /\ Reciprocal(x) \in 1..Q - 1 /\ Times(x, Reciprocal(x)) = 1
    BY InverseMod
<1>2. x \in Int /\ e \in Int /\ Reciprocal(x) \in Int
    BY <1>1, Numbers
<1>3. Times(Times(e, x), Reciprocal(x)) = Times(e, Times(x, Reciprocal(x)))
    BY <1>2, TimesAssociates
<1> QED
    BY <1>1, <1>3, TimesOne

LEMMA SumType ==
    ASSUME NEW w \in Wires, NEW b \in Elements, NEW a \in Elements
    PROVE  Sum(w, b, a) \in Elements
<1>1. A[w] \in Int /\ B[w] \in Int /\ C[w] \in Int /\ b \in Int /\ a \in Int
    BY CeremonyAssumption, Numbers
<1> DEFINE x == A[w] * b + B[w] * a + C[w]
<1>2. x \in Int
    BY <1>1
<1> HIDE DEF x
<1>3. x % Q \in Elements
    BY <1>2, Remainder
<1> QED
    BY <1>3 DEF Sum, x

\* The sum of a wire's terms, each reduced, is its sum.
LEMMA SumOfReduced ==
    ASSUME NEW w \in Wires, NEW b \in Elements, NEW a \in Elements
    PROVE  (Times(A[w], b) + Times(B[w], a) + C[w]) % Q = Sum(w, b, a)
<1> DEFINE p == A[w] * b
           q == B[w] * a
           r == p % Q
           s == q % Q
           c == C[w]
<1>1. /\ p \in Int /\ q \in Int /\ c \in Int
    BY CeremonyAssumption, Numbers
<1> HIDE DEF p, q, c
<1>2. r \in Int /\ s \in Int /\ Same(r, p) /\ Same(s, q)
    BY <1>1, Remainder, SameAsRemainder, Numbers
<1>3. Same(c, c)
    <2>1. c - c = Q * 0
        BY <1>1, Order
    <2> QED
        BY <2>1 DEF Same
<1> HIDE DEF r, s
<1>4. r + s \in Int /\ p + q \in Int /\ Same(r + s, p + q)
    BY <1>1, <1>2, SamePlus
<1>5. r + s + c \in Int /\ p + q + c \in Int /\ Same(r + s + c, p + q + c)
    <2> DEFINE u == r + s
               v == p + q
    <2>1. u \in Int /\ v \in Int /\ Same(u, v)
        BY <1>4
    <2> HIDE DEF u, v
    <2>2. u + c \in Int /\ v + c \in Int /\ Same(u + c, v + c)
        BY <1>1, <1>3, <2>1, SamePlus
    <2> QED
        BY <2>2 DEF u, v
<1>6. (r + s + c) % Q = (p + q + c) % Q
    BY <1>5, SameMeans
<1> QED
    BY <1>6 DEF p, q, r, s, c, Times, Sum

-----------------------------------------------------------------------------
(* States *)

ContextSet == Seq(Trapdoors \X Elements \X Elements)
RecordSet ==
    [trapdoor : Trapdoors, factor : Elements, after : Elements,
     proof : ContextSet \X Trapdoors \X Elements \X Elements]
StateSet ==
    [round : {1, 2}, alpha : Elements, trapdoors : [Trapdoors -> Elements],
     records : Seq(RecordSet), terms : Seq([Wires -> Elements]), h : Elements]

\* What can be read from the files verifies, and so does what the command holds.
CeremonyInv ==
    /\ StateReadable(file) => StateIn(file) \in StateSet /\ Verifies(StateIn(file))
    /\ at \in {"idle", "write state", "write key"}
    /\ at # "idle" => held \in StateSet /\ Verifies(held)
    /\ at = "write key" => Complete(held)
    /\ KeyReadable(key) =>
          \E s \in finished : /\ s \in StateSet /\ Verifies(s) /\ Complete(s)
                             /\ KeyIn(key) = KeyOf(s)

LEMMA RecordType ==
    ASSUME NEW s \in StateSet, NEW t \in Trapdoors, NEW factor \in Elements, NEW after \in Elements
    PROVE  /\ Record(s.records, t, factor, after) \in RecordSet
           /\ Append(s.records, Record(s.records, t, factor, after)) \in Seq(RecordSet)
<1> DEFINE R == s.records
           x == [k \in DOMAIN R |-> <<R[k].trapdoor, R[k].factor, R[k].after>>]
<1>1. R \in Seq(RecordSet)
    BY DEF StateSet
<1> HIDE DEF R
<1>2. DOMAIN R = 1..Len(R) /\ Len(R) \in Nat /\ \A k \in DOMAIN R : R[k] \in RecordSet
    BY <1>1
<1>3. \A k \in DOMAIN R : <<R[k].trapdoor, R[k].factor, R[k].after>> \in Trapdoors \X Elements \X Elements
    BY <1>2 DEF RecordSet
<1>4. x \in Seq(Trapdoors \X Elements \X Elements)
    BY <1>2, <1>3
<1>5. Proof(R, t, factor, after) \in ContextSet \X Trapdoors \X Elements \X Elements
    BY <1>4 DEF Proof, Context, ContextSet
<1>6. Record(R, t, factor, after) \in RecordSet
    BY <1>5 DEF Record, RecordSet
<1> QED
    BY <1>1, <1>6 DEF R

-----------------------------------------------------------------------------
(* Records and the trapdoors they make *)

LEMMA RecordsOf ==
    ASSUME NEW s \in StateSet
    PROVE  /\ s.records \in Seq(RecordSet) /\ Len(s.records) \in Nat
           /\ DOMAIN s.records = 1..Len(s.records)
           /\ \A k \in 1..Len(s.records) : /\ s.records[k].trapdoor \in Trapdoors
                                           /\ s.records[k].factor \in Elements
                                           /\ s.records[k].after \in Elements
<1>1. s.records \in Seq(RecordSet)
    BY DEF StateSet
<1>2. \A k \in 1..Len(s.records) : s.records[k] \in RecordSet
    BY <1>1
<1> QED
    BY <1>1, <1>2 DEF RecordSet

\* A trapdoor moves at its own records, to where they leave it.
LEMMA TrapdoorStep ==
    ASSUME NEW s, NEW t
    PROVE  /\ TrapdoorAt(s, 0, t) = 1
           /\ \A k \in Nat \ {0} :
                 TrapdoorAt(s, k, t) = IF s.records[k].trapdoor = t THEN s.records[k].after
                                       ELSE TrapdoorAt(s, k - 1, t)
<1> DEFINE to(k) == {j \in 1..k : s.records[j].trapdoor = t}
           last(S) == CHOOSE j \in S : \A i \in S : i <= j
<1>1. \A k : TrapdoorAt(s, k, t) = IF to(k) = {} THEN 1 ELSE s.records[last(to(k))].after
    BY DEF TrapdoorAt
<1>2. to(0) = {}
    OBVIOUS
<1>3. ASSUME NEW k \in Nat \ {0}, s.records[k].trapdoor = t
      PROVE  TrapdoorAt(s, k, t) = s.records[k].after
    <2>1. k \in to(k) /\ \A i \in to(k) : i <= k
        BY <1>3
    <2>2. \A j \in to(k) : (\A i \in to(k) : i <= j) => j = k
        <3> TAKE j \in to(k)
        <3>1. j \in 1..k
            OBVIOUS
        <3> QED
            BY <2>1, <3>1
    <2>3. to(k) # {}
        BY <2>1
    <2> HIDE DEF to
    <2>4. last(to(k)) = k
        BY <2>1, <2>2
    <2> QED
        BY <1>1, <2>3, <2>4
<1>4. ASSUME NEW k \in Nat \ {0}, s.records[k].trapdoor # t
      PROVE  TrapdoorAt(s, k, t) = TrapdoorAt(s, k - 1, t)
    <2>1. to(k) = to(k - 1)
        <3>1. \A j \in 1..k : j = k \/ j \in 1..k - 1
            OBVIOUS
        <3>2. \A j \in 1..k - 1 : j \in 1..k
            OBVIOUS
        <3> QED
            BY <1>4, <3>1, <3>2
    <2> HIDE DEF to
    <2> QED
        BY <1>1, <2>1
<1> HIDE DEF to
<1> QED
    BY <1>1, <1>2, <1>3, <1>4

LEMMA TrapdoorMoves ==
    ASSUME NEW s, NEW t, NEW k \in Nat, k # 0
    PROVE  TrapdoorAt(s, k, t) = IF s.records[k].trapdoor = t THEN s.records[k].after
                                 ELSE TrapdoorAt(s, k - 1, t)
<1>1. k \in Nat \ {0}
    OBVIOUS
<1> QED
    BY <1>1, TrapdoorStep

\* Two states whose first records are the same, and so the trapdoors then.
SameRecords(s, m, n) == \A j \in 1..n : m.records[j] = s.records[j]

LEMMA SameRecordsSameTrapdoors ==
    ASSUME NEW s, NEW m, NEW n \in Nat, SameRecords(s, m, n), NEW t
    PROVE  \A i \in 0..n : TrapdoorAt(m, i, t) = TrapdoorAt(s, i, t)
<1> DEFINE S == {k \in 0..n : TrapdoorAt(m, k, t) # TrapdoorAt(s, k, t)}
<1>1. SUFFICES ASSUME S # {} PROVE FALSE
    OBVIOUS
<1>2. PICK k \in S : \A x \in S : k <= x
    <2>1. S \subseteq Nat
        OBVIOUS
    <2> HIDE DEF S
    <2> QED
        BY <1>1, <2>1, LeastOf
<1>3. k # 0
    BY TrapdoorStep
<1>4. k \in Nat \ {0} /\ k \in 1..n /\ k - 1 \in 0..n /\ ~(k <= k - 1)
    BY <1>3
<1>5. TrapdoorAt(m, k - 1, t) = TrapdoorAt(s, k - 1, t)
    <2>1. k - 1 \notin S
        <3> HIDE DEF S
        <3> QED
            BY <1>2, <1>4
    <2> QED
        BY <1>4, <2>1
<1>6. TrapdoorAt(m, k, t) = TrapdoorAt(s, k, t)
    <2>1. TrapdoorAt(m, k, t) = IF m.records[k].trapdoor = t THEN m.records[k].after
                                ELSE TrapdoorAt(m, k - 1, t)
        BY <1>4, TrapdoorMoves
    <2>2. TrapdoorAt(s, k, t) = IF s.records[k].trapdoor = t THEN s.records[k].after
                                ELSE TrapdoorAt(s, k - 1, t)
        BY <1>4, TrapdoorMoves
    <2>3. m.records[k] = s.records[k]
        BY <1>4 DEF SameRecords
    <2> HIDE DEF S
    <2> QED
        BY <1>5, <2>1, <2>2, <2>3
<1> QED
    BY <1>6

\* The records hold, and the trapdoors are where they leave them.
RecordsHold(s) ==
    /\ \A k \in DOMAIN s.records : RecordHolds(s, k)
    /\ \A t \in Trapdoors : s.trapdoors[t] = TrapdoorAt(s, Len(s.records), t)

LEMMA RecordToMeans ==
    ASSUME NEW s \in StateSet, NEW t \in Trapdoors, NEW factor \in Elements, NEW m,
           m = RecordTo(s, t, factor)
    PROVE  /\ m \in StateSet
           /\ m.round = s.round /\ m.alpha = s.alpha /\ m.terms = s.terms /\ m.h = s.h
           /\ m.trapdoors = [s.trapdoors EXCEPT ![t] = Times(s.trapdoors[t], factor)]
           /\ Len(m.records) = Len(s.records) + 1
           /\ \A k \in 1..Len(s.records) : m.records[k] = s.records[k]
           /\ m.records[Len(s.records) + 1]
                = Record(s.records, t, factor, Times(s.trapdoors[t], factor))
<1> DEFINE after == Times(s.trapdoors[t], factor)
           r == Record(s.records, t, factor, after)
<1>1. after \in Elements
    <2>1. s.trapdoors[t] \in Elements
        BY DEF StateSet
    <2> QED
        BY <2>1, TimesType, Numbers
<1> HIDE DEF after
<1>2. r \in RecordSet /\ Append(s.records, r) \in Seq(RecordSet)
    BY <1>1, RecordType
<1> HIDE DEF r
<1>3. m = [s EXCEPT !.trapdoors[t] = after, !.records = Append(s.records, r)]
    BY DEF RecordTo, after, r
<1>4. [s.trapdoors EXCEPT ![t] = after] \in [Trapdoors -> Elements]
    BY <1>1 DEF StateSet
<1>5. m \in StateSet
    BY <1>2, <1>3, <1>4 DEF StateSet
<1>6. /\ m.round = s.round /\ m.alpha = s.alpha /\ m.terms = s.terms /\ m.h = s.h
      /\ m.trapdoors = [s.trapdoors EXCEPT ![t] = after] /\ m.records = Append(s.records, r)
    BY <1>3 DEF StateSet
<1>7. /\ Len(m.records) = Len(s.records) + 1 /\ m.records[Len(s.records) + 1] = r
      /\ \A k \in 1..Len(s.records) : m.records[k] = s.records[k]
    BY <1>2, <1>6, RecordsOf
<1> QED
    BY <1>5, <1>6, <1>7 DEF after, r

LEMMA SamePrefix ==
    ASSUME NEW r \in Seq(RecordSet), NEW q \in Seq(RecordSet), NEW n \in Nat,
           n <= Len(r), n <= Len(q), \A k \in 1..n : r[k] = q[k]
    PROVE  SubSeq(r, 1, n) = SubSeq(q, 1, n)
<1>1. /\ SubSeq(r, 1, n) \in Seq(RecordSet) /\ SubSeq(q, 1, n) \in Seq(RecordSet)
      /\ Len(SubSeq(r, 1, n)) = n /\ Len(SubSeq(q, 1, n)) = n
      /\ \A k \in 1..n : SubSeq(r, 1, n)[k] = r[k] /\ SubSeq(q, 1, n)[k] = q[k]
    OBVIOUS
<1> QED
    BY <1>1, SeqEqual

LEMMA WholePrefix ==
    ASSUME NEW r \in Seq(RecordSet)
    PROVE  SubSeq(r, 1, Len(r)) = r
<1>1. /\ SubSeq(r, 1, Len(r)) \in Seq(RecordSet) /\ Len(SubSeq(r, 1, Len(r))) = Len(r)
      /\ \A k \in 1..Len(r) : SubSeq(r, 1, Len(r))[k] = r[k]
    OBVIOUS
<1> QED
    BY <1>1, SeqEqual

\* A record in the order of the rounds, of a factor that is not zero, holds, and
\* those before it hold as they did.
LEMMA RecordToKeeps ==
    ASSUME NEW s \in StateSet, RecordsHold(s), NEW t \in Trapdoors, NEW factor \in 1..Q - 1,
           t \in First => s.round = 1, t \in Second => s.round = 2,
           NEW m, m = RecordTo(s, t, factor)
    PROVE  m \in StateSet /\ RecordsHold(m)
<1> DEFINE n == Len(s.records)
           after == Times(s.trapdoors[t], factor)
<1>0. factor \in Elements /\ factor # 0 /\ factor \in Int
    BY Numbers
<1>1. /\ m \in StateSet /\ m.round = s.round
      /\ m.trapdoors = [s.trapdoors EXCEPT ![t] = after]
      /\ Len(m.records) = n + 1
      /\ \A k \in 1..n : m.records[k] = s.records[k]
      /\ m.records[n + 1] = Record(s.records, t, factor, after)
    BY <1>0, RecordToMeans
<1>2. /\ s.records \in Seq(RecordSet) /\ m.records \in Seq(RecordSet) /\ n \in Nat
      /\ DOMAIN s.records = 1..n /\ DOMAIN m.records = 1..n + 1
      /\ s.trapdoors \in [Trapdoors -> Elements]
    BY <1>1, RecordsOf DEF StateSet
<1> HIDE DEF n, after
<1>3. ASSUME NEW u
      PROVE  \A k \in 0..n : TrapdoorAt(m, k, u) = TrapdoorAt(s, k, u)
    <2>1. SameRecords(s, m, n)
        BY <1>1 DEF SameRecords
    <2>2. n \in Nat
        BY <1>2
    <2> QED
        BY <2>1, <2>2, SameRecordsSameTrapdoors
<1>4. m.records[n + 1] = [trapdoor |-> t, factor |-> factor, after |-> after,
                          proof |-> Proof(s.records, t, factor, after)]
    BY <1>1 DEF Record
<1>5. ASSUME NEW k \in 1..n
      PROVE  RecordHolds(m, k)
    <2>1. RecordHolds(s, k)
        BY <1>2 DEF RecordsHold
    <2>2. m.records[k] = s.records[k] /\ \A j \in 1..k - 1 : m.records[j] = s.records[j]
        BY <1>1, <1>2
    <2>3. SubSeq(m.records, 1, k - 1) = SubSeq(s.records, 1, k - 1)
        <3>1. k - 1 \in Nat /\ k - 1 <= n /\ k - 1 <= n + 1
            BY <1>2
        <3> QED
            BY <1>1, <1>2, <2>2, <3>1, SamePrefix DEF n
    <2>4. \A u : TrapdoorAt(m, k - 1, u) = TrapdoorAt(s, k - 1, u)
        <3>1. k - 1 \in 0..n
            BY <1>2
        <3> QED
            BY <1>3, <3>1
    <2>5. Ordered(m, k)
        BY <1>1, <2>1, <2>2 DEF RecordHolds, Ordered
    <2> QED
        BY <2>1, <2>2, <2>3, <2>4, <2>5 DEF RecordHolds
<1>6. RecordHolds(m, n + 1)
    <2>1. \A j \in 1..n : s.records[j].trapdoor \in Second => s.round = 2
        BY <1>2 DEF RecordsHold, RecordHolds, Ordered
    <2>2. (n + 1) - 1 = n
        BY <1>2
    <2>3. Ordered(m, n + 1)
        <3>1. m.records[n + 1].trapdoor = t
            BY <1>4
        <3>2. t \in First => \A j \in 1..n : m.records[j].trapdoor \notin Second
            BY <1>1, <2>1
        <3> QED
            BY <1>1, <2>2, <3>1, <3>2 DEF Ordered
    <2>4. SubSeq(m.records, 1, (n + 1) - 1) = s.records
        <3>1. SubSeq(m.records, 1, n) = SubSeq(s.records, 1, n)
            BY <1>1, <1>2, SamePrefix DEF n
        <3> QED
            BY <1>2, <2>2, <3>1, WholePrefix DEF n
    <2>5. Times(factor, TrapdoorAt(m, (n + 1) - 1, t)) = after
        <3>1. TrapdoorAt(m, n, t) = TrapdoorAt(s, n, t) /\ TrapdoorAt(s, n, t) = s.trapdoors[t]
            BY <1>2, <1>3 DEF RecordsHold, n
        <3>2. s.trapdoors[t] \in Int
            BY <1>2, Numbers
        <3> QED
            BY <1>0, <2>2, <3>1, <3>2, TimesCommutes DEF after
    <2>6. /\ m.records[n + 1].trapdoor = t /\ m.records[n + 1].factor = factor
          /\ m.records[n + 1].after = after
          /\ m.records[n + 1].proof = Proof(s.records, t, factor, after)
        BY <1>4
    <2> QED
        BY <1>0, <2>3, <2>4, <2>5, <2>6 DEF RecordHolds
<1>7. \A u \in Trapdoors : m.trapdoors[u] = TrapdoorAt(m, n + 1, u)
    <2> TAKE u \in Trapdoors
    <2>1. n + 1 \in Nat \ {0} /\ (n + 1) - 1 = n
        BY <1>2
    <2>2. TrapdoorAt(m, n + 1, u) = IF t = u THEN after ELSE TrapdoorAt(s, n, u)
        <3>1. TrapdoorAt(m, n + 1, u) = IF m.records[n + 1].trapdoor = u THEN m.records[n + 1].after
                                        ELSE TrapdoorAt(m, n, u)
            BY <2>1, TrapdoorMoves
        <3>2. TrapdoorAt(m, n, u) = TrapdoorAt(s, n, u)
            BY <1>2, <1>3
        <3> QED
            BY <1>4, <3>1, <3>2
    <2>3. s.trapdoors[u] = TrapdoorAt(s, n, u)
        BY DEF RecordsHold, n
    <2> QED
        BY <1>1, <1>2, <2>2, <2>3
<1>8. \A k \in DOMAIN m.records : RecordHolds(m, k)
    <2> TAKE k \in DOMAIN m.records
    <2>1. k \in 1..n \/ k = n + 1
        BY <1>2
    <2> QED
        BY <2>1, <1>5, <1>6
<1> QED
    BY <1>1, <1>7, <1>8 DEF RecordsHold

-----------------------------------------------------------------------------
(* Contributions and the seal keep a state verifying *)

LEMMA VerifiesMeans ==
    ASSUME NEW s
    PROVE  Verifies(s) <=> /\ Len(s.terms) = (IF s.round = 1 THEN 3 ELSE 1)
                           /\ RecordsHold(s) /\ s.alpha = s.trapdoors["alpha"]
                           /\ ElementsHold(s)
BY DEF Verifies, RecordsHold, TrapdoorsHold

LEMMA SameRecordsHold ==
    ASSUME NEW s, NEW m, RecordsHold(s), m.records = s.records, m.round = s.round,
           m.trapdoors = s.trapdoors
    PROVE  RecordsHold(m)
<1>1. \A k, t : TrapdoorAt(m, k, t) = TrapdoorAt(s, k, t)
    BY DEF TrapdoorAt
<1>2. \A k : Ordered(m, k) <=> Ordered(s, k)
    BY DEF Ordered
<1>3. \A k : RecordHolds(m, k) <=> RecordHolds(s, k)
    BY <1>1, <1>2 DEF RecordHolds
<1> QED
    BY <1>1, <1>3 DEF RecordsHold

LEMMA ScaledType ==
    ASSUME NEW p \in [Wires -> Elements], NEW by \in [Wires -> Elements]
    PROVE  /\ Scaled(p, by) \in [Wires -> Elements]
           /\ \A w \in Wires : Scaled(p, by)[w] = Times(p[w], by[w])
<1>1. \A w \in Wires : Times(p[w], by[w]) \in Elements
    <2> TAKE w \in Wires
    <2>1. p[w] \in Int /\ by[w] \in Int
        BY Numbers
    <2> QED
        BY <2>1, TimesType
<1> QED
    BY <1>1 DEF Scaled

LEMMA ContributionToRoundOne ==
    ASSUME NEW s \in StateSet, Verifies(s), s.round = 1, NEW f \in [Trapdoors -> 1..Q - 1],
           NEW r, r = Contributed(s, f)
    PROVE  r \in StateSet /\ Verifies(r)
<1> DEFINE one == RecordTo(s, "alpha", f["alpha"])
           made == RecordTo(one, "beta", f["beta"])
           first == Scaled(s.terms[1], [w \in Wires |-> f["beta"]])
           second == Scaled(s.terms[2], [w \in Wires |-> f["alpha"]])
           alpha == Times(s.alpha, f["alpha"])
           x == s.trapdoors
<1>1. /\ "alpha" \in Trapdoors /\ "beta" \in Trapdoors /\ "alpha" \in First /\ "beta" \in First
      /\ "alpha" \notin Second /\ "beta" \notin Second
    BY DEF Trapdoors, First, Second
<1>2. /\ f["alpha"] \in 1..Q - 1 /\ f["beta"] \in 1..Q - 1
      /\ f["alpha"] \in Elements /\ f["beta"] \in Elements
    BY <1>1, Numbers
<1>3. /\ Len(s.terms) = 3 /\ RecordsHold(s) /\ s.alpha = x["alpha"]
      /\ \A w \in Wires : /\ s.terms[1][w] = Times(A[w], x["beta"])
                          /\ s.terms[2][w] = Times(B[w], x["alpha"])
                          /\ s.terms[3][w] = C[w]
      /\ s.h = H
    BY VerifiesMeans DEF ElementsHold
<1>4. /\ s.terms \in Seq([Wires -> Elements]) /\ x \in [Trapdoors -> Elements]
      /\ s.terms[1] \in [Wires -> Elements] /\ s.terms[2] \in [Wires -> Elements]
      /\ s.terms[3] \in [Wires -> Elements]
    <2>1. s.terms \in Seq([Wires -> Elements]) /\ x \in [Trapdoors -> Elements]
        BY DEF StateSet
    <2>2. 1 \in 1..3 /\ 2 \in 1..3 /\ 3 \in 1..3
        OBVIOUS
    <2> QED
        BY <1>3, <2>1, <2>2
<1>5. /\ one \in StateSet /\ RecordsHold(one) /\ one.round = 1
      /\ one.terms = s.terms /\ one.h = s.h /\ one.alpha = s.alpha
      /\ one.trapdoors = [x EXCEPT !["alpha"] = Times(x["alpha"], f["alpha"])]
    <2>1. one \in StateSet /\ RecordsHold(one)
        BY <1>1, <1>2, <1>3, RecordToKeeps
    <2> QED
        BY <1>1, <1>2, <2>1, RecordToMeans
<1>6. /\ made \in StateSet /\ RecordsHold(made) /\ made.round = 1
      /\ made.terms = s.terms /\ made.h = s.h /\ made.alpha = s.alpha
      /\ made.trapdoors = [one.trapdoors EXCEPT !["beta"] = Times(one.trapdoors["beta"], f["beta"])]
    <2> HIDE DEF one
    <2>1. made \in StateSet /\ RecordsHold(made)
        BY <1>1, <1>2, <1>5, RecordToKeeps
    <2>2. /\ made.round = one.round /\ made.alpha = one.alpha /\ made.terms = one.terms
          /\ made.h = one.h
          /\ made.trapdoors = [one.trapdoors EXCEPT !["beta"] = Times(one.trapdoors["beta"], f["beta"])]
        <3>1. one \in StateSet /\ "beta" \in Trapdoors /\ f["beta"] \in Elements
              /\ made = RecordTo(one, "beta", f["beta"])
            BY <1>1, <1>2, <1>5
        <3> HIDE DEF made
        <3> QED
            BY <3>1, RecordToMeans
    <2> QED
        BY <1>5, <2>1, <2>2
<1>7. r = [made EXCEPT !.alpha = Times(@, f["alpha"]), !.terms = <<first, second, s.terms[3]>>]
    BY DEF Contributed, Recorded
<1> HIDE DEF one, made
<1>8. made.trapdoors["alpha"] = alpha /\ made.trapdoors["beta"] = Times(x["beta"], f["beta"])
    BY <1>1, <1>3, <1>4, <1>5, <1>6
<1>9. alpha \in Elements
    <2>1. x["alpha"] \in Int /\ f["alpha"] \in Int
        BY <1>1, <1>2, <1>4, Numbers
    <2> QED
        BY <1>3, <2>1, TimesType
<1>10. /\ first \in [Wires -> Elements] /\ second \in [Wires -> Elements]
       /\ \A w \in Wires : /\ first[w] = Times(s.terms[1][w], f["beta"])
                           /\ second[w] = Times(s.terms[2][w], f["alpha"])
    <2>1. [w \in Wires |-> f["beta"]] \in [Wires -> Elements]
        BY <1>2
    <2>2. [w \in Wires |-> f["alpha"]] \in [Wires -> Elements]
        BY <1>2
    <2>3. /\ first \in [Wires -> Elements]
          /\ \A w \in Wires : first[w] = Times(s.terms[1][w], [v \in Wires |-> f["beta"]][w])
        BY <1>4, <2>1, ScaledType
    <2>4. /\ second \in [Wires -> Elements]
          /\ \A w \in Wires : second[w] = Times(s.terms[2][w], [v \in Wires |-> f["alpha"]][w])
        BY <1>4, <2>2, ScaledType
    <2> HIDE DEF first, second
    <2> QED
        BY <2>3, <2>4
<1> DEFINE terms == <<first, second, s.terms[3]>>
<1> HIDE DEF first, second
<1>11. /\ terms \in Seq([Wires -> Elements]) /\ Len(terms) = 3
       /\ terms[1] = first /\ terms[2] = second /\ terms[3] = s.terms[3]
    BY <1>4, <1>10
<1> HIDE DEF terms, alpha
<1>12. r = [made EXCEPT !.alpha = alpha, !.terms = terms]
    BY <1>6, <1>7 DEF terms, alpha, StateSet
<1>13. /\ r \in StateSet /\ r.round = 1 /\ r.records = made.records /\ r.h = H
       /\ r.trapdoors = made.trapdoors /\ r.alpha = alpha /\ r.terms = terms
    BY <1>3, <1>6, <1>9, <1>11, <1>12 DEF StateSet
<1>14. RecordsHold(r)
    BY <1>6, <1>13, SameRecordsHold
<1>15. ElementsHold(r)
    <2>1. ASSUME NEW w \in Wires
          PROVE  /\ first[w] = Times(A[w], Times(x["beta"], f["beta"]))
                 /\ second[w] = Times(B[w], Times(x["alpha"], f["alpha"]))
        <3>1. /\ A[w] \in Int /\ B[w] \in Int /\ x["alpha"] \in Int /\ x["beta"] \in Int
              /\ f["alpha"] \in Int /\ f["beta"] \in Int
            BY <1>1, <1>2, <1>4, CeremonyAssumption, Numbers
        <3> QED
            BY <1>3, <1>10, <3>1, TimesAssociates
    <2> QED
        BY <1>3, <1>8, <1>11, <1>13, <2>1 DEF ElementsHold, alpha
<1> QED
    BY <1>8, <1>11, <1>13, <1>14, <1>15, VerifiesMeans

\* One record of a round's.
LEMMA RoundTwoRecord ==
    ASSUME NEW s \in StateSet, RecordsHold(s), s.round = 2, NEW t \in Second,
           NEW factor \in 1..Q - 1, NEW m, m = RecordTo(s, t, factor)
    PROVE  /\ m \in StateSet /\ RecordsHold(m) /\ m.round = 2
           /\ m.terms = s.terms /\ m.h = s.h /\ m.alpha = s.alpha
           /\ m.trapdoors = [s.trapdoors EXCEPT ![t] = Times(s.trapdoors[t], factor)]
<1>1. t \in Trapdoors /\ t \notin First /\ factor \in Elements
    BY Numbers DEF Trapdoors, First, Second
<1>2. m \in StateSet /\ RecordsHold(m)
    BY <1>1, RecordToKeeps
<1> QED
    BY <1>1, <1>2, RecordToMeans

LEMMA ContributionToRoundTwo ==
    ASSUME NEW s \in StateSet, Verifies(s), s.round = 2, NEW f \in [Trapdoors -> 1..Q - 1],
           NEW r, r = Contributed(s, f)
    PROVE  r \in StateSet /\ Verifies(r)
<1> DEFINE one == RecordTo(s, "gamma", f["gamma"])
           two == RecordTo(one, "delta", f["delta"])
           made == RecordTo(two, "eta", f["eta"])
           by == [w \in Wires |-> Reciprocal(f[Class[w]])]
           sum == Scaled(s.terms[1], by)
           h == Times(s.h, Reciprocal(f["delta"]))
           x == s.trapdoors
<1>1. /\ "gamma" \in Second /\ "delta" \in Second /\ "eta" \in Second /\ Second \subseteq Trapdoors
      /\ "alpha" \in Trapdoors /\ "beta" \in Trapdoors /\ "alpha" \notin Second /\ "beta" \notin Second
      /\ Second = {"gamma", "delta", "eta"}
    BY DEF Trapdoors, First, Second
<1>2. \A t \in Trapdoors : /\ f[t] \in 1..Q - 1 /\ f[t] \in Elements
                           /\ Reciprocal(f[t]) \in Elements /\ Times(f[t], Reciprocal(f[t])) = 1
                           /\ Times(Reciprocal(f[t]), f[t]) = 1
    <2> TAKE t \in Trapdoors
    <2>1. f[t] \in 1..Q - 1
        OBVIOUS
    <2>2. Reciprocal(f[t]) \in 1..Q - 1 /\ Times(f[t], Reciprocal(f[t])) = 1
        BY <2>1, InverseMod
    <2>3. f[t] \in Elements /\ Reciprocal(f[t]) \in Elements
        BY <2>1, <2>2, Numbers
    <2> QED
        BY <2>1, <2>2, <2>3, Numbers, TimesCommutes
<1>3. /\ Len(s.terms) = 1 /\ RecordsHold(s) /\ s.alpha = x["alpha"]
      /\ \A w \in Wires : Times(s.terms[1][w], x[Class[w]]) = Sum(w, x["beta"], x["alpha"])
      /\ Times(s.h, x["delta"]) = H
    <2>1. Len(s.terms) = 1 /\ RecordsHold(s) /\ s.alpha = x["alpha"] /\ ElementsHold(s)
        BY VerifiesMeans
    <2> HIDE DEF h, sum, by, one, two, made
    <2> QED
        BY <2>1 DEF ElementsHold
<1>4. /\ s.terms \in Seq([Wires -> Elements]) /\ x \in [Trapdoors -> Elements] /\ s.h \in Elements
      /\ s.terms[1] \in [Wires -> Elements]
    <2>1. s.terms \in Seq([Wires -> Elements]) /\ x \in [Trapdoors -> Elements] /\ s.h \in Elements
        BY DEF StateSet
    <2>2. 1 \in 1..1
        OBVIOUS
    <2> QED
        BY <1>3, <2>1, <2>2
<1>5. /\ one \in StateSet /\ RecordsHold(one) /\ one.round = 2
      /\ one.terms = s.terms /\ one.h = s.h /\ one.alpha = s.alpha
      /\ one.trapdoors = [x EXCEPT !["gamma"] = Times(x["gamma"], f["gamma"])]
    BY <1>1, <1>2, <1>3, RoundTwoRecord
<1>6. made = RecordTo(two, "eta", f["eta"]) /\ two = RecordTo(one, "delta", f["delta"])
    OBVIOUS
<1>7. r = [made EXCEPT !.terms = <<sum>>, !.h = Times(@, Reciprocal(f["delta"]))]
    BY DEF Contributed, Recorded
<1> HIDE DEF one, two, made
<1>8. /\ two \in StateSet /\ RecordsHold(two) /\ two.round = 2
      /\ two.terms = s.terms /\ two.h = s.h /\ two.alpha = s.alpha
      /\ two.trapdoors = [one.trapdoors EXCEPT !["delta"] = Times(one.trapdoors["delta"], f["delta"])]
    <2>1. f["delta"] \in 1..Q - 1
        BY <1>1, <1>2
    <2>2. /\ two \in StateSet /\ RecordsHold(two) /\ two.round = 2
          /\ two.terms = one.terms /\ two.h = one.h /\ two.alpha = one.alpha
          /\ two.trapdoors = [one.trapdoors EXCEPT !["delta"] = Times(one.trapdoors["delta"], f["delta"])]
        <3>1. /\ one \in StateSet /\ RecordsHold(one) /\ one.round = 2 /\ "delta" \in Second
              /\ two = RecordTo(one, "delta", f["delta"])
            BY <1>1, <1>5, <1>6
        <3> QED
            BY <2>1, <3>1, RoundTwoRecord
    <2> QED
        BY <1>5, <2>2
<1>9. /\ made \in StateSet /\ RecordsHold(made) /\ made.round = 2
      /\ made.terms = s.terms /\ made.h = s.h /\ made.alpha = s.alpha
      /\ made.trapdoors = [two.trapdoors EXCEPT !["eta"] = Times(two.trapdoors["eta"], f["eta"])]
    <2>1. f["eta"] \in 1..Q - 1
        BY <1>1, <1>2
    <2>2. /\ made \in StateSet /\ RecordsHold(made) /\ made.round = 2
          /\ made.terms = two.terms /\ made.h = two.h /\ made.alpha = two.alpha
          /\ made.trapdoors = [two.trapdoors EXCEPT !["eta"] = Times(two.trapdoors["eta"], f["eta"])]
        BY <1>1, <1>6, <1>8, <2>1, RoundTwoRecord
    <2> QED
        BY <1>8, <2>2
<1>10. /\ \A t \in Second : made.trapdoors[t] = Times(x[t], f[t])
       /\ made.trapdoors["alpha"] = x["alpha"] /\ made.trapdoors["beta"] = x["beta"]
    <2>1. /\ DOMAIN x = Trapdoors /\ DOMAIN one.trapdoors = Trapdoors
          /\ DOMAIN two.trapdoors = Trapdoors
        BY <1>4, <1>5, <1>8
    <2>2. made.trapdoors["gamma"] = Times(x["gamma"], f["gamma"])
        BY <1>1, <1>5, <1>8, <1>9, <2>1
    <2>3. made.trapdoors["delta"] = Times(x["delta"], f["delta"])
        BY <1>1, <1>5, <1>8, <1>9, <2>1
    <2>4. made.trapdoors["eta"] = Times(x["eta"], f["eta"])
        BY <1>1, <1>5, <1>8, <1>9, <2>1
    <2>5. made.trapdoors["alpha"] = x["alpha"] /\ made.trapdoors["beta"] = x["beta"]
        BY <1>1, <1>5, <1>8, <1>9, <2>1
    <2> QED
        BY <1>1, <2>2, <2>3, <2>4, <2>5
<1>11. h \in Elements /\ Times(h, Times(x["delta"], f["delta"])) = H
    <2>1. /\ x["delta"] \in Elements /\ s.h \in Elements /\ f["delta"] \in Elements
          /\ Reciprocal(f["delta"]) \in Elements /\ Times(Reciprocal(f["delta"]), f["delta"]) = 1
        BY <1>1, <1>2, <1>4
    <2>2. Times(h, Times(x["delta"], f["delta"])) = Times(s.h, x["delta"])
        BY <2>1, FactorsCancel
    <2> QED
        BY <1>3, <2>1, <2>2, TimesType, Numbers
<1>12. \A w \in Wires : Class[w] \in Second /\ Class[w] \in Trapdoors
    BY <1>1, CeremonyAssumption
<1>13. /\ sum \in [Wires -> Elements]
       /\ \A w \in Wires : sum[w] = Times(s.terms[1][w], Reciprocal(f[Class[w]]))
    <2>1. by \in [Wires -> Elements]
        BY <1>2, <1>12
    <2>2. \A w \in Wires : by[w] = Reciprocal(f[Class[w]])
        OBVIOUS
    <2> HIDE DEF by
    <2> QED
        BY <1>4, <2>1, <2>2, ScaledType
<1> HIDE DEF sum
<1>14. \A w \in Wires : Times(sum[w], made.trapdoors[Class[w]]) = Sum(w, x["beta"], x["alpha"])
    <2> TAKE w \in Wires
    <2>1. /\ s.terms[1][w] \in Elements /\ x[Class[w]] \in Elements /\ f[Class[w]] \in Elements
          /\ Reciprocal(f[Class[w]]) \in Elements
          /\ Times(Reciprocal(f[Class[w]]), f[Class[w]]) = 1
        BY <1>2, <1>4, <1>12
    <2>2. Times(Times(s.terms[1][w], Reciprocal(f[Class[w]])), Times(x[Class[w]], f[Class[w]]))
            = Times(s.terms[1][w], x[Class[w]])
        BY <2>1, FactorsCancel
    <2> QED
        BY <1>3, <1>10, <1>12, <1>13, <2>2
<1> DEFINE terms == <<sum>>
<1>15. terms \in Seq([Wires -> Elements]) /\ Len(terms) = 1 /\ terms[1] = sum
    BY <1>13
<1> HIDE DEF terms, h
<1>16. r = [made EXCEPT !.terms = terms, !.h = h]
    BY <1>7, <1>9 DEF terms, h, StateSet
<1>17. /\ r \in StateSet /\ r.round = 2 /\ r.records = made.records /\ r.h = h
       /\ r.trapdoors = made.trapdoors /\ r.alpha = s.alpha /\ r.terms = terms
    BY <1>9, <1>11, <1>15, <1>16 DEF StateSet
<1>18. RecordsHold(r)
    BY <1>9, <1>17, SameRecordsHold
<1>19. ElementsHold(r)
    <2>1. Times(r.h, r.trapdoors["delta"]) = H
        BY <1>1, <1>10, <1>11, <1>17
    <2> QED
        BY <1>10, <1>14, <1>15, <1>17, <2>1 DEF ElementsHold
<1> QED
    BY <1>3, <1>10, <1>15, <1>17, <1>18, <1>19, VerifiesMeans

LEMMA SealVerifies ==
    ASSUME NEW s \in StateSet, Verifies(s), Sealable(s), NEW r, r = Sealed(s)
    PROVE  r \in StateSet /\ Verifies(r)
<1> DEFINE sum == [w \in Wires |-> (s.terms[1][w] + s.terms[2][w] + s.terms[3][w]) % Q]
           terms == <<sum>>
           x == s.trapdoors
<1>1. /\ s.round = 1 /\ Len(s.terms) = 3 /\ RecordsHold(s) /\ s.alpha = x["alpha"]
      /\ \A w \in Wires : /\ s.terms[1][w] = Times(A[w], x["beta"])
                          /\ s.terms[2][w] = Times(B[w], x["alpha"])
                          /\ s.terms[3][w] = C[w]
      /\ s.h = H
    BY VerifiesMeans DEF ElementsHold, Sealable
<1>2. x \in [Trapdoors -> Elements] /\ "alpha" \in Trapdoors /\ "beta" \in Trapdoors
    BY DEF StateSet, Trapdoors, First
<1>3. \A w \in Wires : /\ sum[w] = Sum(w, x["beta"], x["alpha"])
                       /\ sum[w] \in Elements
    <2> TAKE w \in Wires
    <2>1. sum[w] = (Times(A[w], x["beta"]) + Times(B[w], x["alpha"]) + C[w]) % Q
        BY <1>1
    <2>2. x["beta"] \in Elements /\ x["alpha"] \in Elements
        BY <1>2
    <2> QED
        BY <2>1, <2>2, SumOfReduced, SumType
<1>4. sum \in [Wires -> Elements]
    BY <1>3
<1>5. r = [s EXCEPT !.round = 2, !.terms = terms]
    BY DEF Sealed
<1> HIDE DEF sum
<1>6. terms \in Seq([Wires -> Elements]) /\ Len(terms) = 1 /\ terms[1] = sum
    BY <1>4
<1> HIDE DEF terms
<1>7. /\ r \in StateSet /\ r.round = 2 /\ r.records = s.records /\ r.h = s.h
      /\ r.trapdoors = x /\ r.alpha = s.alpha /\ r.terms = terms
    BY <1>5, <1>6 DEF StateSet
\* No record is to a trapdoor of the second round, so each is as it was made.
<1>8. \A t \in Second : x[t] = 1
    <2> TAKE t \in Second
    <2>1. \A k \in DOMAIN s.records : s.records[k].trapdoor # t
        BY <1>1 DEF RecordsHold, RecordHolds, Ordered
    <2>2. \A k \in 1..Len(s.records) : s.records[k].trapdoor # t
        BY <2>1, RecordsOf
    <2>3. TrapdoorAt(s, Len(s.records), t) = 1
        BY <2>2 DEF TrapdoorAt
    <2> QED
        BY <1>1, <2>3 DEF RecordsHold, Trapdoors
<1>9. RecordsHold(r)
    <2>1. \A k, t : TrapdoorAt(r, k, t) = TrapdoorAt(s, k, t)
        BY <1>7 DEF TrapdoorAt
    <2>2. \A k : Ordered(s, k) => Ordered(r, k)
        BY <1>7 DEF Ordered
    <2>3. \A k : RecordHolds(s, k) => RecordHolds(r, k)
        BY <1>7, <2>1, <2>2 DEF RecordHolds
    <2> QED
        BY <1>1, <1>7, <2>1, <2>3 DEF RecordsHold
<1>10. ElementsHold(r)
    <2>1. \A w \in Wires : Times(sum[w], x[Class[w]]) = Sum(w, x["beta"], x["alpha"])
        <3> TAKE w \in Wires
        <3>1. Class[w] \in Second
            BY CeremonyAssumption
        <3> QED
            BY <1>3, <1>8, <3>1, TimesOne
    <2>2. Times(r.h, x["delta"]) = H
        <3>1. H \in Elements /\ x["delta"] = 1
            BY <1>8, CeremonyAssumption DEF Second
        <3> QED
            BY <1>1, <1>7, <3>1, TimesOne
    <2> QED
        BY <1>6, <1>7, <2>1, <2>2 DEF ElementsHold
<1> QED
    BY <1>1, <1>6, <1>7, <1>9, <1>10, VerifiesMeans

-----------------------------------------------------------------------------
(* A state that verifies is the circuit's under its contributions *)

LEMMA TrapdoorType ==
    ASSUME NEW s \in StateSet, NEW t, NEW k \in 0..Len(s.records)
    PROVE  TrapdoorAt(s, k, t) \in Elements
<1> DEFINE n == Len(s.records)
           S == {i \in 0..n : TrapdoorAt(s, i, t) \notin Elements}
<1>0. n \in Nat /\ \A i \in 1..n : s.records[i].after \in Elements
    BY RecordsOf
<1> HIDE DEF n
<1>1. SUFFICES ASSUME S # {} PROVE FALSE
    BY DEF n
<1>2. PICK i \in S : \A x \in S : i <= x
    <2>1. S \subseteq Nat
        BY <1>0
    <2> HIDE DEF S
    <2> QED
        BY <1>1, <2>1, LeastOf
<1>3. i # 0
    BY TrapdoorStep, Order
<1>4. i \in Nat /\ i \in 1..n /\ i - 1 \in 0..n /\ ~(i <= i - 1)
    BY <1>0, <1>3
<1>5. TrapdoorAt(s, i - 1, t) \in Elements
    <2>1. i - 1 \notin S
        <3> HIDE DEF S
        <3> QED
            BY <1>2, <1>4
    <2> QED
        BY <1>4, <2>1
<1>6. TrapdoorAt(s, i, t) = IF s.records[i].trapdoor = t THEN s.records[i].after
                            ELSE TrapdoorAt(s, i - 1, t)
    BY <1>3, <1>4, TrapdoorMoves
<1>7. TrapdoorAt(s, i, t) \in Elements
    BY <1>0, <1>4, <1>5, <1>6
<1> QED
    BY <1>7

\* One step of a product over records.
Multiplied(s, t, k, x) ==
    IF s.records[k].trapdoor # t THEN x ELSE Times(x, s.records[k].factor)

\* The product of the records' factors is what their trapdoor comes to.
LEMMA ProductIsTheTrapdoor ==
    ASSUME NEW s \in StateSet, \A k \in DOMAIN s.records : RecordHolds(s, k), NEW t
    PROVE  Product(s, t) = TrapdoorAt(s, Len(s.records), t)
<1> DEFINE n == Len(s.records)
           g == [k \in 0..n |-> TrapdoorAt(s, k, t)]
           Is(f) == f = [k \in 0..n |-> IF k = 0 THEN 1 ELSE Multiplied(s, t, k, f[k - 1])]
<1>0. n \in Nat /\ DOMAIN s.records = 1..n
    BY RecordsOf
<1>1. Product(s, t) = (CHOOSE f : Is(f))[n]
    BY DEF Product, Multiplied
<1>2. ASSUME NEW k \in 1..n
      PROVE  TrapdoorAt(s, k, t) = Multiplied(s, t, k, TrapdoorAt(s, k - 1, t))
    <2> DEFINE u == s.records[k].trapdoor
    <2>1. k \in Nat /\ k # 0 /\ k - 1 \in 0..n
        BY <1>0
    <2>2. TrapdoorAt(s, k, t) = IF u = t THEN s.records[k].after ELSE TrapdoorAt(s, k - 1, t)
        BY <2>1, TrapdoorMoves
    <2>3. Times(s.records[k].factor, TrapdoorAt(s, k - 1, u)) = s.records[k].after
        BY <1>0 DEF RecordHolds
    <2>4. s.records[k].factor \in Int /\ TrapdoorAt(s, k - 1, u) \in Int
        BY <2>1, RecordsOf, TrapdoorType, Numbers
    <2>5. Times(TrapdoorAt(s, k - 1, u), s.records[k].factor) = s.records[k].after
        BY <2>3, <2>4, TimesCommutes
    <2> QED
        BY <2>2, <2>5 DEF Multiplied
<1> HIDE DEF n
<1>3. Is(g)
    <2> DEFINE step(k) == IF k = 0 THEN 1 ELSE Multiplied(s, t, k, g[k - 1])
    <2>1. ASSUME NEW k \in 0..n PROVE TrapdoorAt(s, k, t) = step(k)
        <3>1. CASE k = 0
            BY <3>1, TrapdoorStep
        <3>2. CASE k # 0
            <4>1. k \in 1..n /\ k - 1 \in 0..n
                BY <1>0, <3>2
            <4>2. g[k - 1] = TrapdoorAt(s, k - 1, t)
                BY <4>1
            <4> HIDE DEF g
            <4> QED
                BY <1>2, <3>2, <4>1, <4>2
        <3> QED
            BY <3>1, <3>2
    <2> QED
        BY <2>1
<1>4. ASSUME NEW f, Is(f)
      PROVE  f = g
    <2> DEFINE S == {k \in 0..n : f[k] # g[k]}
    <2>1. SUFFICES ASSUME S # {} PROVE FALSE
        <3>1. DOMAIN f = 0..n /\ DOMAIN g = 0..n
            BY <1>4
        <3>2. f = [k \in 0..n |-> f[k]] /\ g = [k \in 0..n |-> g[k]]
            BY <1>4
        <3> HIDE DEF g, Is
        <3> QED
            BY <3>1, <3>2
    <2>2. PICK k \in S : \A x \in S : k <= x
        <3>1. S \subseteq Nat
            BY <1>0
        <3> HIDE DEF S
        <3> QED
            BY <2>1, <3>1, LeastOf
    <2>3. \A i \in 0..n : /\ f[i] = IF i = 0 THEN 1 ELSE Multiplied(s, t, i, f[i - 1])
                          /\ g[i] = IF i = 0 THEN 1 ELSE Multiplied(s, t, i, g[i - 1])
        <3> TAKE i \in 0..n
        <3>1. f[i] = IF i = 0 THEN 1 ELSE Multiplied(s, t, i, f[i - 1])
            BY <1>4
        <3>2. g[i] = IF i = 0 THEN 1 ELSE Multiplied(s, t, i, g[i - 1])
            <4> HIDE DEF g
            <4> QED
                BY <1>3
        <3> QED
            BY <3>1, <3>2
    <2> HIDE DEF g, Is
    <2>4. k \in 0..n /\ f[k] # g[k]
        OBVIOUS
    <2>5. k # 0
        BY <2>3, <2>4
    <2>6. k - 1 \in 0..n /\ ~(k <= k - 1)
        BY <1>0, <2>4, <2>5
    <2>7. f[k - 1] = g[k - 1]
        <3>1. k - 1 \notin S
            <4> HIDE DEF S
            <4> QED
                BY <2>2, <2>6
        <3> QED
            BY <2>6, <3>1
    <2> QED
        BY <2>3, <2>4, <2>5, <2>7
<1>5. (CHOOSE f : Is(f)) = g
    <2> HIDE DEF g, Is
    <2> QED
        BY <1>3, <1>4
<1>6. g[n] = TrapdoorAt(s, n, t)
    BY <1>0
<1> HIDE DEF g
<1> QED
    BY <1>1, <1>5, <1>6 DEF n

\* A factor is not zero, so no trapdoor ever is.
LEMMA TrapdoorNotZero ==
    ASSUME NEW s \in StateSet, \A k \in DOMAIN s.records : RecordHolds(s, k), NEW t
    PROVE  \A k \in 0..Len(s.records) : TrapdoorAt(s, k, t) \in 1..Q - 1
<1> DEFINE n == Len(s.records)
           S == {i \in 0..n : TrapdoorAt(s, i, t) \notin 1..Q - 1}
<1>0. n \in Nat /\ DOMAIN s.records = 1..n
    BY RecordsOf
<1> HIDE DEF n
<1>1. SUFFICES ASSUME S # {} PROVE FALSE
    BY DEF n
<1>2. PICK i \in S : \A x \in S : i <= x
    <2>1. S \subseteq Nat
        BY <1>0
    <2> HIDE DEF S
    <2> QED
        BY <1>1, <2>1, LeastOf
<1>3. i # 0
    BY TrapdoorStep, Order
<1>4. i \in Nat /\ i \in 1..n /\ i - 1 \in 0..n /\ ~(i <= i - 1)
    BY <1>0, <1>3
<1>5. TrapdoorAt(s, i - 1, t) \in 1..Q - 1
    <2>1. i - 1 \notin S
        <3> HIDE DEF S
        <3> QED
            BY <1>2, <1>4
    <2> QED
        BY <1>4, <2>1
<1>6. TrapdoorAt(s, i, t) = IF s.records[i].trapdoor = t THEN s.records[i].after
                            ELSE TrapdoorAt(s, i - 1, t)
    BY <1>3, <1>4, TrapdoorMoves
<1>7. s.records[i].trapdoor = t => s.records[i].after \in 1..Q - 1
    <2>1. /\ s.records[i].factor # 0
          /\ Times(s.records[i].factor, TrapdoorAt(s, i - 1, s.records[i].trapdoor))
               = s.records[i].after
        BY <1>0, <1>4 DEF RecordHolds
    <2>2. s.records[i].factor \in 1..Q - 1
        BY <1>4, <2>1, RecordsOf, Numbers DEF n
    <2>3. s.records[i].trapdoor = t => Times(s.records[i].factor, TrapdoorAt(s, i - 1, t)) \in 1..Q - 1
        BY <1>5, <2>2, NotZero
    <2> QED
        BY <2>1, <2>3
<1>8. TrapdoorAt(s, i, t) \in 1..Q - 1
    BY <1>5, <1>6, <1>7
<1> QED
    BY <1>8

\* Whoever made it, a state that verifies is the circuit's under trapdoors that
\* are the product of the contributions on record, round 1's before round 2's
\* (`verify`, phase2.rs:338).
THEOREM VerifyIsSound ==
    ASSUME NEW s \in StateSet, Verifies(s)
    PROVE  IsOfTheContributions(s)
<1> DEFINE x == [t \in Trapdoors |-> Product(s, t)]
<1>1. /\ Len(s.terms) = (IF s.round = 1 THEN 3 ELSE 1)
      /\ RecordsHold(s) /\ s.alpha = s.trapdoors["alpha"] /\ ElementsHold(s)
    BY VerifiesMeans
<1>2. /\ s.trapdoors \in [Trapdoors -> Elements] /\ s.terms \in Seq([Wires -> Elements])
      /\ s.h \in Elements /\ s.round \in {1, 2}
      /\ "alpha" \in Trapdoors /\ "beta" \in Trapdoors /\ "delta" \in Trapdoors
      /\ Second \subseteq Trapdoors
    BY DEF StateSet, Trapdoors, First, Second
<1>3. s.trapdoors = x
    <2>1. \A t \in Trapdoors : s.trapdoors[t] = x[t]
        BY <1>1, ProductIsTheTrapdoor DEF RecordsHold
    <2> HIDE DEF x
    <2> QED
        <3>1. DOMAIN x = Trapdoors /\ x = [t \in Trapdoors |-> x[t]]
            BY DEF x
        <3>2. s.trapdoors = [t \in Trapdoors |-> s.trapdoors[t]]
            BY <1>2
        <3> QED
            BY <2>1, <3>1, <3>2
<1>4. \A t \in Trapdoors : s.trapdoors[t] \in 1..Q - 1
    <2> TAKE t \in Trapdoors
    <2>1. Len(s.records) \in 0..Len(s.records)
        BY RecordsOf
    <2> QED
        BY <1>1, <2>1, TrapdoorNotZero DEF RecordsHold
<1>5. \A j, k \in DOMAIN s.records :
          s.records[j].trapdoor \in Second /\ s.records[k].trapdoor \in First => k < j
    <2> SUFFICES ASSUME NEW j \in DOMAIN s.records, NEW k \in DOMAIN s.records,
                        s.records[j].trapdoor \in Second, s.records[k].trapdoor \in First
                 PROVE  k < j
        OBVIOUS
    <2>1. j \in Nat /\ k \in Nat /\ j >= 1
        BY RecordsOf
    <2>2. j \notin 1..k - 1
        BY <1>1 DEF RecordsHold, RecordHolds, Ordered
    <2>3. j # k
        BY DEF First, Second
    <2> QED
        BY <2>1, <2>2, <2>3
<1>6. CASE s.round = 1
    <2> DEFINE a == Scaled(A, [w \in Wires |-> x["beta"]])
               b == Scaled(B, [w \in Wires |-> x["alpha"]])
    <2>1. Len(s.terms) = 3 /\ 1 \in 1..3 /\ 2 \in 1..3 /\ 3 \in 1..3
        BY <1>1, <1>6
    <2>2. /\ s.terms[1] \in [Wires -> Elements] /\ s.terms[2] \in [Wires -> Elements]
          /\ s.terms[3] \in [Wires -> Elements]
        BY <1>2, <2>1
    <2>3. /\ \A w \in Wires : /\ s.terms[1][w] = Times(A[w], s.trapdoors["beta"])
                              /\ s.terms[2][w] = Times(B[w], s.trapdoors["alpha"])
                              /\ s.terms[3][w] = C[w]
          /\ s.h = H
        BY <1>1, <1>6 DEF ElementsHold
    <2> HIDE DEF x
    <2>4. s.terms[1] = a /\ s.terms[2] = b
        BY <1>3, <2>2, <2>3 DEF Scaled
    <2>5. s.terms[3] = C
        BY <2>2, <2>3, CeremonyAssumption
    <2>6. s.terms = <<s.terms[1], s.terms[2], s.terms[3]>>
        BY <1>2, <2>1
    <2>7. s.terms = <<a, b, C>>
        BY <2>4, <2>5, <2>6
    <2> QED
        BY <1>1, <1>3, <1>5, <1>6, <2>3, <2>7 DEF IsOfTheContributions, x
<1>7. CASE s.round = 2
    <2> DEFINE l == [w \in Wires |-> Times(Sum(w, x["beta"], x["alpha"]), Reciprocal(x[Class[w]]))]
    <2>1. Len(s.terms) = 1 /\ 1 \in 1..1
        BY <1>1, <1>7
    <2>2. s.terms[1] \in [Wires -> Elements]
        BY <1>2, <2>1
    <2>3. /\ \A w \in Wires : Times(s.terms[1][w], s.trapdoors[Class[w]])
                                = Sum(w, s.trapdoors["beta"], s.trapdoors["alpha"])
          /\ Times(s.h, s.trapdoors["delta"]) = H
        BY <1>1, <1>7 DEF ElementsHold
    <2> HIDE DEF x
    <2>4. \A w \in Wires : s.terms[1][w]
                             = Times(Sum(w, x["beta"], x["alpha"]), Reciprocal(x[Class[w]]))
        <3> TAKE w \in Wires
        <3>1. Class[w] \in Trapdoors
            BY <1>2, CeremonyAssumption
        <3>2. s.trapdoors[Class[w]] \in 1..Q - 1 /\ s.terms[1][w] \in Elements
            BY <1>4, <2>2, <3>1
        <3> QED
            BY <1>3, <2>3, <3>2, Divided
    <2>5. s.terms[1] = l
        BY <2>2, <2>4
    <2>6. s.terms = <<s.terms[1]>>
        BY <1>2, <2>1
    <2>7. s.terms = <<l>>
        BY <2>5, <2>6
    <2>8. s.h = Times(H, Reciprocal(x["delta"]))
        BY <1>2, <1>3, <1>4, <2>3, Divided
    <2> QED
        BY <1>1, <1>3, <1>5, <1>7, <2>7, <2>8 DEF IsOfTheContributions, x
<1> QED
    BY <1>2, <1>6, <1>7

-----------------------------------------------------------------------------
(* What a stranger makes is a state *)

LEMMA AlteredAreStates ==
    ASSUME NEW s \in StateSet, NEW m \in Altered(s)
    PROVE  m \in StateSet
<1>0. /\ s.trapdoors \in [Trapdoors -> Elements] /\ s.terms \in Seq([Wires -> Elements])
      /\ s.records \in Seq(RecordSet) /\ s.round \in {1, 2} /\ s.h \in Elements /\ s.alpha \in Elements
    BY DEF StateSet
<1>1. ASSUME NEW x \in Elements, m = [s EXCEPT !.alpha = x] PROVE m \in StateSet
    BY <1>1 DEF StateSet
<1>2. ASSUME NEW x \in Elements, m = [s EXCEPT !.h = x] PROVE m \in StateSet
    BY <1>2 DEF StateSet
<1>3. ASSUME NEW t \in Trapdoors, NEW x \in Elements, m = [s EXCEPT !.trapdoors[t] = x]
      PROVE  m \in StateSet
    <2>1. [s.trapdoors EXCEPT ![t] = x] \in [Trapdoors -> Elements]
        BY <1>0
    <2> QED
        BY <1>3, <2>1 DEF StateSet
<1>4. ASSUME NEW i \in DOMAIN s.terms, NEW w \in Wires, NEW x \in Elements,
             m = [s EXCEPT !.terms[i][w] = x]
      PROVE  m \in StateSet
    <2> DEFINE p == [s.terms[i] EXCEPT ![w] = x]
    <2>1. s.terms[i] \in [Wires -> Elements]
        BY <1>0
    <2>2. p \in [Wires -> Elements]
        BY <2>1
    <2>3. m = [s EXCEPT !.terms = [s.terms EXCEPT ![i] = p]]
        BY <1>4
    <2> HIDE DEF p
    <2>4. [s.terms EXCEPT ![i] = p] \in Seq([Wires -> Elements])
        BY <1>0, <2>2
    <2> QED
        BY <2>3, <2>4 DEF StateSet
<1>5. ASSUME m = [s EXCEPT !.round = 3 - @] PROVE m \in StateSet
    <2>1. 3 - s.round \in {1, 2}
        BY <1>0
    <2>2. m = [s EXCEPT !.round = 3 - s.round]
        BY <1>5 DEF StateSet
    <2> QED
        BY <2>1, <2>2 DEF StateSet
<1>6. ASSUME NEW k \in DOMAIN s.records, m = Without(s, k) PROVE m \in StateSet
    <2> DEFINE q == RemoveAt(s.records, k)
    <2>1. q \in Seq(RecordSet)
        <3>1. k \in 1..Len(s.records) /\ Len(s.records) \in Nat
            BY RecordsOf
        <3>2. /\ SubSeq(s.records, 1, k - 1) \in Seq(RecordSet)
              /\ SubSeq(s.records, k + 1, Len(s.records)) \in Seq(RecordSet)
            BY <1>0, <3>1
        <3> QED
            BY <3>2 DEF RemoveAt
    <2>2. m = [s EXCEPT !.records = q]
        BY <1>6 DEF Without, StateSet
    <2> HIDE DEF q
    <2> QED
        BY <2>1, <2>2 DEF StateSet
<1>7. ASSUME NEW k \in DOMAIN s.records, NEW x \in Elements, m = [s EXCEPT !.records[k].after = x]
      PROVE  m \in StateSet
    <2> DEFINE r == [s.records[k] EXCEPT !.after = x]
    <2>1. s.records[k] \in RecordSet
        BY <1>0
    <2>2. r \in RecordSet
        BY <2>1 DEF RecordSet
    <2>3. m = [s EXCEPT !.records = [s.records EXCEPT ![k] = r]]
        BY <1>7
    <2> HIDE DEF r
    <2>4. [s.records EXCEPT ![k] = r] \in Seq(RecordSet)
        BY <1>0, <2>2
    <2> QED
        BY <2>3, <2>4 DEF StateSet
<1> QED
    BY <1>1, <1>2, <1>3, <1>4, <1>5, <1>6, <1>7 DEF Altered

LEMMA MovedAreStates ==
    ASSUME NEW s \in StateSet, NEW t \in Trapdoors, NEW factor \in Elements,
           NEW m, m = Moved(s, t, factor)
    PROVE  /\ m \in StateSet /\ m.round = s.round /\ m.terms = s.terms /\ m.h = s.h
           /\ m.trapdoors = [s.trapdoors EXCEPT ![t] = Times(s.trapdoors[t], factor)]
<1> DEFINE made == RecordTo(s, t, factor)
           alpha == IF t = "alpha" THEN made.trapdoors[t] ELSE made.alpha
<1>1. /\ made \in StateSet /\ made.round = s.round /\ made.terms = s.terms /\ made.h = s.h
      /\ made.trapdoors = [s.trapdoors EXCEPT ![t] = Times(s.trapdoors[t], factor)]
    BY RecordToMeans
<1>2. m = [made EXCEPT !.alpha = IF t = "alpha" THEN made.trapdoors[t] ELSE @]
    BY DEF Moved
<1> HIDE DEF made
<1>3. alpha \in Elements
    BY <1>1 DEF StateSet
<1>4. m = [made EXCEPT !.alpha = alpha]
    BY <1>1, <1>2 DEF StateSet
<1> HIDE DEF alpha
<1> QED
    BY <1>1, <1>3, <1>4 DEF StateSet

LEMMA RescaledAreStates ==
    ASSUME NEW s \in StateSet, s.terms # <<>>, NEW t \in Trapdoors, NEW factor \in 2..Q - 1,
           NEW m, m = Rescaled(s, t, factor)
    PROVE  m \in StateSet
<1> DEFINE one == Scaled(s.terms[1], [w \in Wires |-> factor])
           terms == <<one>> \o Tail(s.terms)
           h == IF t = "delta" THEN Times(s.h, Reciprocal(factor)) ELSE s.h
<1>0. s.terms \in Seq([Wires -> Elements]) /\ s.h \in Elements
    BY DEF StateSet
<1>1. factor \in 1..Q - 1 /\ factor \in Elements
    BY Order DEF Elements
<1>2. one \in [Wires -> Elements]
    <2>1. s.terms[1] \in [Wires -> Elements]
        BY <1>0
    <2>2. [w \in Wires |-> factor] \in [Wires -> Elements]
        BY <1>1
    <2> QED
        BY <2>1, <2>2, ScaledType
<1>3. terms \in Seq([Wires -> Elements])
    <2> HIDE DEF one
    <2>1. Tail(s.terms) \in Seq([Wires -> Elements]) /\ <<one>> \in Seq([Wires -> Elements])
        BY <1>0, <1>2
    <2> QED
        BY <2>1
<1>4. h \in Elements
    <2>1. Reciprocal(factor) \in Int /\ s.h \in Int
        BY <1>0, <1>1, InverseMod, Numbers
    <2>2. Times(s.h, Reciprocal(factor)) \in Elements
        BY <2>1, TimesType
    <2> QED
        BY <1>0, <2>2
<1>5. m = [s EXCEPT !.terms = terms, !.h = h]
    BY DEF Rescaled, StateSet
<1> HIDE DEF terms, h
<1> QED
    BY <1>3, <1>4, <1>5 DEF StateSet

LEMMA SummedAreStates ==
    ASSUME NEW s \in StateSet, \A u \in Trapdoors : s.trapdoors[u] \in 1..Q - 1,
           NEW t \in Trapdoors, NEW m, m = Summed(s, t)
    PROVE  m \in StateSet
<1> DEFINE one == Moved(s, "gamma", 2)
           two == Moved(one, "delta", 2)
           three == Moved(two, "eta", 2)
           moved == Moved(three, t, 2)
           Nonzero(y) == \A u \in Trapdoors : y.trapdoors[u] \in 1..Q - 1
<1>0. /\ 2 \in 1..Q - 1 /\ 2 \in Elements
      /\ "gamma" \in Trapdoors /\ "delta" \in Trapdoors /\ "eta" \in Trapdoors
      /\ "alpha" \in Trapdoors /\ "beta" \in Trapdoors
    BY Order DEF Trapdoors, First, Second, Elements
<1>1. ASSUME NEW y \in StateSet, Nonzero(y), NEW u \in Trapdoors, NEW z, z = Moved(y, u, 2)
      PROVE  z \in StateSet /\ Nonzero(z)
    <2>1. /\ z \in StateSet
          /\ z.trapdoors = [y.trapdoors EXCEPT ![u] = Times(y.trapdoors[u], 2)]
        BY <1>0, <1>1, MovedAreStates
    <2>2. Times(y.trapdoors[u], 2) \in 1..Q - 1
        BY <1>0, <1>1, NotZero
    <2>3. y.trapdoors \in [Trapdoors -> Elements]
        BY DEF StateSet
    <2> QED
        BY <1>1, <2>1, <2>2, <2>3
<1>2. Nonzero(s)
    OBVIOUS
<1> HIDE DEF Nonzero
<1>3. one \in StateSet /\ Nonzero(one)
    BY <1>0, <1>1, <1>2
<1> HIDE DEF one
<1>4. two \in StateSet /\ Nonzero(two)
    BY <1>0, <1>1, <1>3
<1> HIDE DEF two
<1>5. three \in StateSet /\ Nonzero(three)
    BY <1>0, <1>1, <1>4
<1> HIDE DEF three
<1>6. moved \in StateSet /\ Nonzero(moved)
    BY <1>0, <1>1, <1>5
<1> DEFINE x == moved.trapdoors
           h == Times(H, Reciprocal(x["delta"]))
           l == [w \in Wires |-> Times(Sum(w, x["beta"], x["alpha"]), Reciprocal(x[Class[w]]))]
           terms == <<l>>
<1>7. m = [moved EXCEPT !.round = 2, !.h = h, !.terms = terms]
    BY DEF Summed, one, two, three
<1> HIDE DEF moved
<1>8. \A u \in Trapdoors : x[u] \in Elements /\ Reciprocal(x[u]) \in Int
    <2> TAKE u \in Trapdoors
    <2>1. x[u] \in 1..Q - 1
        BY <1>6 DEF Nonzero
    <2> QED
        BY <2>1, InverseMod, Numbers
<1> HIDE DEF x
<1>9. h \in Elements
    <2>1. H \in Int
        BY CeremonyAssumption, Numbers
    <2> QED
        BY <1>0, <1>8, <2>1, TimesType
<1>10. l \in [Wires -> Elements]
    <2>1. ASSUME NEW w \in Wires
          PROVE  Times(Sum(w, x["beta"], x["alpha"]), Reciprocal(x[Class[w]])) \in Elements
        <3>1. Class[w] \in Trapdoors
            BY CeremonyAssumption DEF Trapdoors
        <3>2. Sum(w, x["beta"], x["alpha"]) \in Elements
            BY <1>0, <1>8, SumType
        <3> QED
            BY <1>8, <3>1, <3>2, TimesType, Numbers
    <2> QED
        BY <2>1
<1> HIDE DEF h, l
<1>11. terms \in Seq([Wires -> Elements])
    BY <1>10
<1> HIDE DEF terms
<1> QED
    BY <1>6, <1>7, <1>9, <1>11 DEF StateSet

LEMMA RescaledMovedAreStates ==
    ASSUME NEW s \in StateSet, Len(s.terms) \in {1, 3}, NEW t \in Trapdoors, NEW x \in 2..Q - 1
    PROVE  Rescaled(Moved(s, t, x), t, x) \in StateSet
<1>1. s.terms # <<>>
    <2>1. Len(s.terms) # 0
        OBVIOUS
    <2>2. Len(<<>>) = 0
        OBVIOUS
    <2> QED
        BY <2>1, <2>2, Zenon
<1>2. x \in Elements
    BY Order DEF Elements
<1>3. SUFFICES ASSUME NEW y, y = Moved(s, t, x)
               PROVE  Rescaled(y, t, x) \in StateSet
    OBVIOUS
<1>4. /\ y \in StateSet /\ y.terms = s.terms
      /\ y.trapdoors = [s.trapdoors EXCEPT ![t] = Times(s.trapdoors[t], x)]
    BY <1>2, <1>3, MovedAreStates
<1>5. y.terms # <<>>
    BY <1>1, <1>4
<1>6. \A z : z = Rescaled(y, t, x) => z \in StateSet
    BY <1>4, <1>5, RescaledAreStates
<1> QED
    BY <1>6

LEMMA StrangersAreStates ==
    ASSUME NEW s \in StateSet, Verifies(s), NEW m \in Stranger(s)
    PROVE  m \in StateSet
<1>1. RecordsHold(s) /\ Len(s.terms) \in {1, 3}
    BY VerifiesMeans
<1>2. \A u \in Trapdoors : s.trapdoors[u] \in 1..Q - 1
    <2> TAKE u \in Trapdoors
    <2>1. Len(s.records) \in 0..Len(s.records)
        BY RecordsOf
    <2> QED
        BY <1>1, <2>1, TrapdoorNotZero DEF RecordsHold
<1>3. CASE m \in Altered(s)
    BY <1>3, AlteredAreStates
<1>4. CASE \E t \in Trapdoors : m = Summed(s, t)
    BY <1>2, <1>4, SummedAreStates
<1>5. CASE \E t \in Trapdoors, x \in Elements : m = Moved(s, t, x)
    BY <1>5, MovedAreStates
<1>6. CASE \E t \in Trapdoors, x \in 2..Q - 1 : m = Rescaled(Moved(s, t, x), t, x)
    BY <1>1, <1>6, RescaledMovedAreStates
<1>7. \/ m \in Altered(s)
      \/ \E t \in Trapdoors : m = Summed(s, t)
      \/ \E t \in Trapdoors, x \in Elements : m = Moved(s, t, x)
      \/ \E t \in Trapdoors, x \in 2..Q - 1 : m = Rescaled(Moved(s, t, x), t, x)
    BY DEF Stranger
<1> QED
    BY <1>3, <1>4, <1>5, <1>6, <1>7

-----------------------------------------------------------------------------
(* The files *)

LEMMA InitStateVerifies == InitState \in StateSet /\ Verifies(InitState)
<1> DEFINE s == InitState
           terms == <<A, B, C>>
<1>1. terms \in Seq([Wires -> Elements]) /\ Len(terms) = 3
      /\ terms[1] = A /\ terms[2] = B /\ terms[3] = C
    BY CeremonyAssumption
<1>2. /\ s.round = 1 /\ s.alpha = 1 /\ s.trapdoors = [t \in Trapdoors |-> 1]
      /\ s.records = <<>> /\ s.terms = terms /\ s.h = H
    BY DEF InitState
<1>3. s \in StateSet
    <2> HIDE DEF terms
    <2>1. <<>> \in Seq(RecordSet) /\ H \in Elements /\ 1 \in Elements
        BY CeremonyAssumption, Order
    <2> QED
        BY <1>1, <2>1 DEF InitState, StateSet, terms
<1> HIDE DEF s, terms
<1>4. RecordsHold(s)
    <2>1. DOMAIN s.records = {} /\ Len(s.records) = 0
        BY <1>2
    <2>2. \A t \in Trapdoors : s.trapdoors[t] = TrapdoorAt(s, 0, t)
        BY <1>2, TrapdoorStep
    <2> QED
        BY <2>1, <2>2 DEF RecordsHold
<1>5. ElementsHold(s)
    <2>1. s.trapdoors["beta"] = 1 /\ s.trapdoors["alpha"] = 1
        BY <1>2 DEF Trapdoors, First
    <2>2. \A w \in Wires : Times(A[w], 1) = A[w] /\ Times(B[w], 1) = B[w]
        BY CeremonyAssumption, TimesOne
    <2> QED
        BY <1>1, <1>2, <2>1, <2>2 DEF ElementsHold
<1>6. s.alpha = s.trapdoors["alpha"]
    BY <1>2 DEF Trapdoors, First
<1>7. Verifies(s)
    BY <1>1, <1>2, <1>4, <1>5, <1>6, VerifiesMeans
<1> QED
    BY <1>3, <1>7 DEF s

LEMMA ContributionVerifies ==
    ASSUME NEW s \in StateSet, Verifies(s), NEW factors \in Secrets
    PROVE  Contributed(s, factors) \in StateSet /\ Verifies(Contributed(s, factors))
<1>1. factors \in [Trapdoors -> 1..Q - 1]
    BY CeremonyAssumption
<1>2. s.round = 1 \/ s.round = 2
    BY DEF StateSet
<1> QED
    BY <1>1, <1>2, ContributionToRoundOne, ContributionToRoundTwo

\* What write wrote of a state, read gives back.
LEMMA WrittenStatesRead ==
    ASSUME NEW s \in StateSet, Verifies(s)
    PROVE  StateReadable(StateLists(s)) /\ StateIn(StateLists(s)) = s
<1> DEFINE R == s.records
           term(k) == IF k \in DOMAIN s.terms THEN <<s.terms[k]>> ELSE <<>>
           ts == [k \in DOMAIN R |-> R[k].trapdoor]
           fs == [k \in DOMAIN R |-> R[k].factor]
           ps == [k \in DOMAIN R |-> R[k].proof]
           as == [k \in DOMAIN R |-> R[k].after]
           x1 == term(1)
           x2 == term(2)
           x3 == term(3)
           f == <<"state of the circuit", s.round, s.alpha, s.trapdoors, ts, fs, ps, as,
                  x1, x2, x3, s.h>>
<1>1. /\ R \in Seq(RecordSet) /\ DOMAIN R = 1..Len(R) /\ Len(R) \in Nat
      /\ \A k \in DOMAIN R : R[k] \in RecordSet
    BY DEF StateSet
<1>2. s.terms \in Seq([Wires -> Elements]) /\ Len(s.terms) \in {1, 3} /\ s.round \in 1..2
    <2>1. Len(s.terms) \in {1, 3}
        BY VerifiesMeans
    <2>2. s.terms \in Seq([Wires -> Elements]) /\ s.round \in {1, 2}
        BY DEF StateSet
    <2> QED
        BY <2>1, <2>2
<1>3. StateLists(s) = f
    BY DEF StateLists
<1>4. Len(ts) = Len(R) /\ Len(fs) = Len(R) /\ Len(ps) = Len(R) /\ Len(as) = Len(R)
    BY <1>1
<1>5. [k \in DOMAIN ts |-> [trapdoor |-> ts[k], factor |-> fs[k], after |-> as[k], proof |-> ps[k]]]
         = R
    <2>1. \A k \in DOMAIN R : R[k] = [trapdoor |-> R[k].trapdoor, factor |-> R[k].factor,
                                     after |-> R[k].after, proof |-> R[k].proof]
        BY <1>1 DEF RecordSet
    <2>2. R = [k \in DOMAIN R |-> R[k]]
        BY <1>1
    <2> QED
        BY <2>1, <2>2
<1>6. x1 \o x2 \o x3 = s.terms
    <2>1. CASE Len(s.terms) = 1
        <3>1. x1 = <<s.terms[1]>> /\ x2 = <<>> /\ x3 = <<>>
            BY <1>2, <2>1
        <3>2. <<s.terms[1]>> = s.terms
            BY <1>2, <2>1
        <3> HIDE DEF x1, x2, x3
        <3> QED
            BY <3>1, <3>2
    <2>2. CASE Len(s.terms) = 3
        <3>1. x1 = <<s.terms[1]>> /\ x2 = <<s.terms[2]>> /\ x3 = <<s.terms[3]>>
            BY <1>2, <2>2
        <3>2. <<s.terms[1], s.terms[2], s.terms[3]>> = s.terms
            BY <1>2, <2>2
        <3> HIDE DEF x1, x2, x3
        <3> QED
            BY <3>1, <3>2
    <2> QED
        BY <1>2, <2>1, <2>2
<1> HIDE DEF R, ts, fs, ps, as, x1, x2, x3
<1>7. /\ Len(f) = 12 /\ f[1] = "state of the circuit" /\ f[2] = s.round /\ f[3] = s.alpha
      /\ f[4] = s.trapdoors /\ f[5] = ts /\ f[6] = fs /\ f[7] = ps /\ f[8] = as
      /\ f[9] = x1 /\ f[10] = x2 /\ f[11] = x3 /\ f[12] = s.h
    OBVIOUS
<1> HIDE DEF f
<1>8. StateReadable(f)
    <2>1. \A c \in 6..8 : c = 6 \/ c = 7 \/ c = 8
        OBVIOUS
    <2>2. \A c \in 6..8 : Len(f[c]) = Len(f[5]) /\ Len(f[5]) \in Nat
        BY <1>1, <1>4, <1>7, <2>1
    <2>3. Len(f) >= 12 /\ \A c \in 6..8 : Len(f[c]) >= Len(f[5])
        <3>1. (\A n : n = 12 => n >= 12) /\ \A m \in Nat : \A n : n = m => n >= m
            OBVIOUS
        <3> QED
            BY <1>7, <2>2, <3>1
    <2>4. f[2] \in 1..2
        BY <1>2, <1>7
    <2> QED
        BY <1>7, <2>3, <2>4 DEF StateReadable
<1>9. StateIn(f) = s
    <2>1. StateIn(f) = [round |-> s.round, alpha |-> s.alpha, trapdoors |-> s.trapdoors,
                        records |-> R, terms |-> s.terms, h |-> s.h]
        BY <1>5, <1>6, <1>7 DEF StateIn
    <2>2. s = [round |-> s.round, alpha |-> s.alpha, trapdoors |-> s.trapdoors,
               records |-> s.records, terms |-> s.terms, h |-> s.h]
        BY DEF StateSet
    <2> QED
        BY <2>1, <2>2 DEF R
<1> QED
    BY <1>3, <1>8, <1>9

\* What finish wrote of a key, read gives back.
LEMMA WrittenKeysRead ==
    ASSUME NEW s \in StateSet
    PROVE  KeyReadable(KeyLists(KeyOf(s))) /\ KeyIn(KeyLists(KeyOf(s))) = KeyOf(s)
<1> DEFINE k == KeyOf(s)
           x == k.trapdoors
           g1 == <<x["alpha"], k.ic>>
           g2 == <<x["beta"], x["gamma"], x["delta"], x["eta"]>>
           f == <<"key of the circuit", g1, g2, "Lagrange in G1", "Lagrange in G2", k.l, k.h>>
<1>1. KeyLists(k) = f
    BY DEF KeyLists
<1>2. /\ k = [trapdoors |-> x, ic |-> k.ic, l |-> k.l, h |-> k.h]
      /\ x = [s.trapdoors EXCEPT !["alpha"] = s.alpha]
    BY DEF KeyOf
<1>3. x = [t \in Trapdoors |-> x[t]]
    BY <1>2 DEF StateSet
<1> HIDE DEF k, x
<1>4. /\ Len(g1) = 2 /\ g1[1] = x["alpha"] /\ g1[2] = k.ic
      /\ Len(g2) = 4 /\ g2[1] = x["beta"] /\ g2[2] = x["gamma"]
      /\ g2[3] = x["delta"] /\ g2[4] = x["eta"]
    OBVIOUS
<1> HIDE DEF g1, g2
<1>5. /\ Len(f) = 7 /\ f[1] = "key of the circuit" /\ f[2] = g1 /\ f[3] = g2
      /\ f[6] = k.l /\ f[7] = k.h
    OBVIOUS
<1> HIDE DEF f
<1>6. KeyReadable(f)
    <2>1. \A n : n = 7 => n >= 7
        OBVIOUS
    <2> QED
        BY <1>4, <1>5, <2>1 DEF KeyReadable
<1>7. [t \in Trapdoors |-> CASE t = "alpha" -> f[2][1] [] t = "beta" -> f[3][1]
                            [] t = "gamma" -> f[3][2] [] t = "delta" -> f[3][3]
                            [] t = "eta" -> f[3][4]] = x
    <2>1. \A t \in Trapdoors : (CASE t = "alpha" -> f[2][1] [] t = "beta" -> f[3][1]
                            [] t = "gamma" -> f[3][2] [] t = "delta" -> f[3][3]
                            [] t = "eta" -> f[3][4]) = x[t]
        BY <1>4, <1>5 DEF Trapdoors, First, Second
    <2> QED
        BY <1>3, <2>1
<1>8. KeyIn(f) = k
    BY <1>2, <1>4, <1>5, <1>7 DEF KeyIn
<1> QED
    BY <1>1, <1>6, <1>8 DEF k

\* A file that was cut short is refused.
LEMMA CutFilesAreRefused ==
    /\ \A s, old, f : f \in Cut(old, StateLists(s)) => ~StateReadable(f)
    /\ \A k, old, f : f \in Cut(old, KeyLists(k)) => ~KeyReadable(f)
<1>1. ASSUME NEW lists, NEW old, NEW m \in Nat, Len(lists) = m, NEW f \in Cut(old, lists)
      PROVE  Len(f) \in Nat /\ Len(f) < m
    <2>1. PICK n \in 0..m - 1 : f = SubSeq(lists, 1, n)
        BY <1>1 DEF Cut
    <2>2. Len(f) = n
        BY <2>1
    <2> QED
        BY <2>1, <2>2
<1>2. \A s : Len(StateLists(s)) = 12
    BY DEF StateLists
<1>3. \A k : Len(KeyLists(k)) = 7
    BY DEF KeyLists
<1>4. ASSUME NEW s, NEW old, NEW f \in Cut(old, StateLists(s))
      PROVE  ~StateReadable(f)
    <2>1. Len(f) \in Nat /\ Len(f) < 12
        BY <1>1, <1>2
    <2>2. StateReadable(f) => Len(f) >= 12
        BY DEF StateReadable
    <2> QED
        BY <2>1, <2>2
<1>5. ASSUME NEW k, NEW old, NEW f \in Cut(old, KeyLists(k))
      PROVE  ~KeyReadable(f)
    <2>1. Len(f) \in Nat /\ Len(f) < 7
        BY <1>1, <1>3
    <2>2. KeyReadable(f) => Len(f) >= 7
        BY DEF KeyReadable
    <2> QED
        BY <2>1, <2>2
<1> QED
    BY <1>4, <1>5

LEMMA CeremonyBegins == Init => CeremonyInv
BY DEF Init, CeremonyInv, StateReadable, KeyReadable

LEMMA CeremonyNextKeeps ==
    ASSUME CeremonyInv, [Next]_vars
    PROVE  CeremonyInv'
<1> DEFINE Whole(lists, of) ==
               KeyReadable(lists) =>
                   \E s \in of : /\ s \in StateSet /\ Verifies(s) /\ Complete(s)
                                /\ KeyIn(lists) = KeyOf(s)
<1>0. /\ StateReadable(file) => StateIn(file) \in StateSet /\ Verifies(StateIn(file))
      /\ at # "idle" => held \in StateSet /\ Verifies(held)
      /\ at = "write key" => Complete(held)
      /\ at \in {"idle", "write state", "write key"}
      /\ Whole(key, finished)
    BY DEF CeremonyInv
<1>a. SUFFICES /\ StateReadable(file') => StateIn(file') \in StateSet /\ Verifies(StateIn(file'))
               /\ at' # "idle" => held' \in StateSet /\ Verifies(held')
               /\ at' = "write key" => Complete(held')
               /\ at' \in {"idle", "write state", "write key"}
               /\ Whole(key', finished')
    BY DEF CeremonyInv
<1> HIDE DEF Whole
<1>1. CASE Begin
    BY <1>0, <1>1, InitStateVerifies DEF Begin
<1>2. CASE Contribute
    <2>1. PICK factors \in Secrets : held' = Contributed(StateIn(file), factors)
        BY <1>2 DEF Contribute
    <2>2. /\ StateIn(file) \in StateSet /\ Verifies(StateIn(file))
          /\ at' = "write state" /\ UNCHANGED <<file, key, finished>>
        BY <1>0, <1>2 DEF Contribute
    <2>3. held' \in StateSet /\ Verifies(held')
        BY <2>1, <2>2, ContributionVerifies
    <2> QED
        BY <1>0, <2>2, <2>3
<1>3. CASE Seal
    <2>1. /\ StateIn(file) \in StateSet /\ Verifies(StateIn(file)) /\ Sealable(StateIn(file))
          /\ held' = Sealed(StateIn(file))
          /\ at' = "write state" /\ UNCHANGED <<file, key, finished>>
        BY <1>0, <1>3 DEF Seal
    <2>2. held' \in StateSet /\ Verifies(held')
        BY <2>1, SealVerifies
    <2> QED
        BY <1>0, <2>1, <2>2
<1>4. CASE Finish
    BY <1>0, <1>4 DEF Finish
<1>5. CASE WriteState
    <2>1. /\ held \in StateSet /\ Verifies(held) /\ file' = StateLists(held)
          /\ at' = "idle" /\ UNCHANGED <<key, finished>>
        BY <1>0, <1>5 DEF WriteState
    <2>2. StateIn(file') = held
        BY <2>1, WrittenStatesRead
    <2> QED
        BY <1>0, <2>1, <2>2
<1>6. CASE WriteKey
    <2>1. /\ held \in StateSet /\ Verifies(held) /\ Complete(held)
          /\ key' = KeyLists(KeyOf(held)) /\ finished' = {held}
          /\ at' = "idle" /\ UNCHANGED file
        BY <1>0, <1>6 DEF WriteKey
    <2>2. Whole(key', finished')
        BY <2>1, WrittenKeysRead DEF Whole
    <2> QED
        BY <1>0, <2>1, <2>2
<1>7. CASE Stop
    <2>1. CASE UNCHANGED <<file, key, finished>>
        BY <1>0, <1>7, <2>1 DEF Stop
    <2>2. CASE file' \in Cut(file, StateLists(held)) /\ UNCHANGED <<key, finished>>
        <3>1. ~StateReadable(file')
            BY <2>2, CutFilesAreRefused
        <3> QED
            BY <1>0, <1>7, <2>2, <3>1 DEF Stop
    <2>3. CASE key' \in KeyCut /\ finished' = {} /\ UNCHANGED file
        <3>1. ~KeyReadable(key')
            BY <2>3, CutFilesAreRefused DEF KeyCut
        <3>2. Whole(key', finished')
            BY <3>1 DEF Whole
        <3> QED
            BY <1>0, <1>7, <2>3, <3>2 DEF Stop
    <2> QED
        BY <1>7, <2>1, <2>2, <2>3 DEF Stop
<1>8. CASE UNCHANGED vars
    BY <1>0, <1>8 DEF vars
<1> QED
    BY <1>1, <1>2, <1>3, <1>4, <1>5, <1>6, <1>7, <1>8 DEF Next

-----------------------------------------------------------------------------
(* The theorems *)

\* A state that can be read, and the one the command holds, verifies; and a key that
\* can be read is one's, whatever the command did and wherever a write was cut short.
THEOREM CeremonyInvariance == Spec => []CeremonyInv
<1>1. Init => CeremonyInv
    BY CeremonyBegins
<1>2. CeremonyInv /\ [Next]_vars => CeremonyInv'
    BY CeremonyNextKeeps
<1> QED
    BY <1>1, <1>2, PTL DEF Spec

\* What can be read back verifies: a contribution and a seal keep a state
\* verifying, and a file that is cut short cannot be read.
THEOREM ReadableStates == Spec => []ReadableStatesVerify
<1>1. CeremonyInv => ReadableStatesVerify
    BY DEF CeremonyInv, ReadableStatesVerify
<1> QED
    BY <1>1, CeremonyInvariance, PTL

\* Whatever a stranger makes of the file's state, if it verifies it is the
\* circuit's under the product of the contributions on its record.
THEOREM StrangersAreFound == Spec => []VerifiedStatesAreOfTheContributions
<1>1. CeremonyInv => VerifiedStatesAreOfTheContributions
    <2> SUFFICES ASSUME CeremonyInv, StateReadable(file), NEW own, own = StateIn(file),
                        NEW m \in Stranger(own) \cup {own}, Verifies(m)
                 PROVE  IsOfTheContributions(m)
        BY DEF VerifiedStatesAreOfTheContributions
    <2>1. own \in StateSet /\ Verifies(own)
        BY DEF CeremonyInv
    <2>2. m \in StateSet
        BY <2>1, StrangersAreStates
    <2> QED
        BY <2>2, VerifyIsSound
<1> QED
    BY <1>1, CeremonyInvariance, PTL

\* A key that can be read is of a state that verifies and has a contribution to
\* each trapdoor: its trapdoors are their products, and its elements the
\* circuit's under them.
THEOREM KeysAreTheCircuits == Spec => []KeysAreOfTheCircuit
<1>1. CeremonyInv => KeysAreOfTheCircuit
    <2> SUFFICES ASSUME CeremonyInv, KeyReadable(key)
                 PROVE  KeysAreOfTheCircuit
        BY DEF KeysAreOfTheCircuit
    <2>1. PICK s \in finished : /\ s \in StateSet /\ Verifies(s) /\ Complete(s)
                               /\ KeyIn(key) = KeyOf(s)
        BY DEF CeremonyInv
    <2>2. RecordsHold(s) /\ s.alpha = s.trapdoors["alpha"] /\ ElementsHold(s)
        BY <2>1, VerifiesMeans
    <2>3. s.round = 2 /\ s.trapdoors \in [Trapdoors -> Elements]
        BY <2>1 DEF Complete, StateSet
    <2>4. [s.trapdoors EXCEPT !["alpha"] = s.alpha] = s.trapdoors
        BY <2>2, <2>3
    <2> DEFINE k == KeyIn(key)
    <2>5. /\ k.trapdoors = s.trapdoors /\ k.l = s.terms[1] /\ k.h = s.h
          /\ \A w \in Public : k.ic[w] = s.terms[1][w]
        BY <2>1, <2>4 DEF KeyOf
    <2>6. ASSUME NEW t \in Trapdoors
          PROVE  /\ k.trapdoors[t] = Product(s, t)
                 /\ \E j \in DOMAIN s.records : s.records[j].trapdoor = t
        <3>1. Product(s, t) = TrapdoorAt(s, Len(s.records), t)
            BY <2>1, <2>2, ProductIsTheTrapdoor DEF RecordsHold
        <3>2. s.trapdoors[t] = TrapdoorAt(s, Len(s.records), t)
            BY <2>2 DEF RecordsHold
        <3>3. \E j \in DOMAIN s.records : s.records[j].trapdoor = t
            BY <2>1 DEF Complete, HasRecords
        <3> QED
            BY <2>5, <3>1, <3>2, <3>3
    <2>7. /\ \A w \in Wires : Times(s.terms[1][w], s.trapdoors[Class[w]])
                                 = Sum(w, s.trapdoors["beta"], s.trapdoors["alpha"])
          /\ Times(s.h, s.trapdoors["delta"]) = H
        BY <2>2, <2>3 DEF ElementsHold
    <2> HIDE DEF k
    <2>8. /\ \A w \in Wires : Times(k.l[w], k.trapdoors[Class[w]])
                                 = Sum(w, k.trapdoors["beta"], k.trapdoors["alpha"])
          /\ \A w \in Public : k.ic[w] = k.l[w]
          /\ Times(k.h, k.trapdoors["delta"]) = H
        BY <2>5, <2>7
    <2> QED
        BY <2>1, <2>6, <2>8 DEF KeysAreOfTheCircuit, k
<1> QED
    BY <1>1, CeremonyInvariance, PTL
=============================================================================
