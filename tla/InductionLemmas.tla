--------------------------- MODULE InductionLemmas ---------------------------
(***************************************************************************)
(* What the proofs need of numbers and recursive functions.  Induction     *)
(* over the naturals is stated with the set of the numbers that have the   *)
(* property, and follows from the least element of its complement.         *)
(***************************************************************************)
EXTENDS SequencesExt, SequenceTheorems, FiniteSetTheorems, WellFoundedInduction, TLAPS

LEMMA InductionAlong ==
    ASSUME NEW R, IsWellFoundedOn(R, Nat), \A x, y \in Nat : y < x => <<y, x>> \in R,
           NEW S \in SUBSET Nat, 0 \in S, \A n \in S : n + 1 \in S
    PROVE  S = Nat
<1>1. SUFFICES ASSUME Nat \ S # {} PROVE FALSE
  OBVIOUS
<1>2. PICK m \in Nat \ S : \A k \in Nat \ S : ~ (<<k, m>> \in R)
  BY <1>1, WFMin
<1>3. m - 1 \in Nat \ S
  BY <1>2
<1>4. m - 1 \in Nat /\ m \in Nat /\ m - 1 < m
  BY <1>3
<1>5. <<m - 1, m>> \in R
  BY <1>4
<1>6. QED
  BY <1>2, <1>3, <1>5

LEMMA SetInduction ==
    ASSUME NEW S \in SUBSET Nat, 0 \in S, \A n \in S : n + 1 \in S
    PROVE  S = Nat
<1>1. \A x, y \in Nat : y < x => <<y, x>> \in OpToRel(<, Nat)
  BY DEF OpToRel
<1>2. QED
  BY <1>1, NatLessThanWellFounded, InductionAlong

-----------------------------------------------------------------------------
(* FlattenSeq concatenates: f[i] is the first i sequences put together. *)

IsFlat(seqs, f) ==
    f = [i \in 1 .. Len(seqs) |-> IF i = 1 THEN seqs[i] ELSE f[i - 1] \o seqs[i]]

LEMMA PrefixType ==
    ASSUME NEW T, NEW s \in Seq(T), NEW n \in 0 .. Len(s)
    PROVE  /\ SubSeq(s, 1, n) \in Seq(T)
           /\ Len(SubSeq(s, 1, n)) = n
           /\ \A i \in 1 .. n : SubSeq(s, 1, n)[i] = s[i] /\ s[i] \in T
<1>1. n \in Nat /\ \A i \in 1 .. n : s[i] \in T
  BY ElementOfSeq, LenProperties
<1>2. QED
  BY <1>1, SubSeqProperties

Agree(n, p, q) == \A i \in 1 .. n : p[i] = q[i]

(* The equations of a flattening determine it. *)
LEMMA FlatEquation ==
    ASSUME NEW seqs, NEW f, IsFlat(seqs, f), NEW i \in 1 .. Len(seqs)
    PROVE  f[i] = IF i = 1 THEN seqs[i] ELSE f[i - 1] \o seqs[i]
BY DEF IsFlat

LEMMA FlatAgree ==
    ASSUME NEW n \in Nat, NEW p, NEW q, NEW f, NEW g, IsFlat(p, f), IsFlat(q, g),
           Len(p) \in Nat, Len(q) \in Nat, n <= Len(p), n <= Len(q), Agree(n, p, q)
    PROVE  Agree(n, f, g)
<1> USE DEF Agree
<1>5. ASSUME NEW i \in 1 .. n
      PROVE  /\ f[i] = IF i = 1 THEN p[i] ELSE f[i - 1] \o p[i]
             /\ g[i] = IF i = 1 THEN q[i] ELSE g[i - 1] \o q[i]
  <2>1. i \in 1 .. Len(p) /\ i \in 1 .. Len(q)
    OBVIOUS
  <2>2. QED
    BY <2>1, FlatEquation
<1> DEFINE S == {i \in Nat : i \in 1 .. n => f[i] = g[i]}
<1>1. 0 \in S
  OBVIOUS
<1>2. ASSUME NEW i \in S PROVE i + 1 \in S
  <2>1. SUFFICES ASSUME i + 1 \in 1 .. n PROVE f[i + 1] = g[i + 1]
    OBVIOUS
  <2>2. CASE i = 0
    BY <1>5, <2>1, <2>2
  <2>3. CASE i # 0
    <3>1. i \in 1 .. n /\ i + 1 # 1 /\ (i + 1) - 1 = i
      BY <2>1, <2>3
    <3>2. f[i + 1] = f[i] \o p[i + 1] /\ g[i + 1] = g[i] \o q[i + 1]
      BY <1>5, <2>1, <3>1
    <3>3. f[i] = g[i] /\ p[i + 1] = q[i + 1]
      BY <2>1, <3>1
    <3>4. QED
      BY <3>2, <3>3
  <2>4. QED
    BY <2>2, <2>3
<1>3. S = Nat
  <2> HIDE DEF S
  <2>1. S \in SUBSET Nat
    BY DEF S
  <2>2. QED
    BY <1>1, <1>2, <2>1, SetInduction
<1>4. QED
  BY <1>3

(* One more sequence. *)
LEMMA FlatGrows ==
    ASSUME NEW T, NEW n \in Nat, NEW seqs \in Seq(Seq(T)), Len(seqs) = n + 1,
           NEW g \in [1 .. n -> Seq(T)], IsFlat(SubSeq(seqs, 1, n), g)
    PROVE  \E h \in [1 .. n + 1 -> Seq(T)] : IsFlat(seqs, h)
<1> DEFINE before == SubSeq(seqs, 1, n)
           last == IF n = 0 THEN seqs[1] ELSE g[n] \o seqs[n + 1]
           h == [i \in 1 .. n + 1 |-> IF i = n + 1 THEN last ELSE g[i]]
<1>1. /\ Len(before) = n
      /\ \A i \in 1 .. n : before[i] = seqs[i]
  BY PrefixType
<1>2. \A i \in 1 .. n + 1 : seqs[i] \in Seq(T)
  BY ElementOfSeq
<1>3. last \in Seq(T)
  <2>1. CASE n = 0
    BY <1>2, <2>1
  <2>2. CASE n # 0
    BY <1>2, <2>2, ConcatProperties
  <2>3. QED
    BY <2>1, <2>2
<1>4. h \in [1 .. n + 1 -> Seq(T)]
  BY <1>3
<1>5. \A i \in 1 .. n : g[i] = IF i = 1 THEN seqs[i] ELSE g[i - 1] \o seqs[i]
  BY <1>1 DEF IsFlat
<1>6. ASSUME NEW i \in 1 .. n + 1
      PROVE  h[i] = IF i = 1 THEN seqs[i] ELSE h[i - 1] \o seqs[i]
  <2>1. CASE i = n + 1 /\ n = 0
    BY <2>1
  <2>2. CASE i = n + 1 /\ n # 0
    <3>1. n \in 1 .. n + 1 /\ n # n + 1 /\ i - 1 = n /\ i # 1
      BY <2>2
    <3>2. h[n] = g[n] /\ h[i] = last
      BY <2>2, <3>1
    <3>3. last = g[n] \o seqs[n + 1]
      BY <2>2
    <3>4. QED
      BY <2>2, <3>1, <3>2, <3>3
  <2>3. CASE i # n + 1
    <3>1. i \in 1 .. n /\ i \in 1 .. n + 1
      BY <2>3
    <3>2. h[i] = g[i]
      BY <2>3, <3>1
    <3>3. CASE i = 1
      BY <1>5, <3>1, <3>2, <3>3
    <3>4. CASE i # 1
      <4>1. i - 1 \in 1 .. n + 1 /\ i - 1 # n + 1
        BY <3>1, <3>4
      <4>2. h[i - 1] = g[i - 1]
        BY <4>1
      <4>3. g[i] = g[i - 1] \o seqs[i]
        BY <1>5, <3>1, <3>4
      <4>4. QED
        BY <3>2, <3>4, <4>2, <4>3
    <3>5. QED
      BY <3>3, <3>4
  <2>4. QED
    BY <2>1, <2>2, <2>3
<1>7. IsFlat(seqs, h)
  BY <1>6 DEF IsFlat
<1>8. QED
  BY <1>4, <1>7

LEMMA FlatExists ==
    ASSUME NEW T, NEW seqs \in Seq(Seq(T))
    PROVE  \E g \in [1 .. Len(seqs) -> Seq(T)] : IsFlat(seqs, g)
<1> DEFINE S == {n \in Nat : \A q \in Seq(Seq(T)) :
                     Len(q) = n => \E g \in [1 .. n -> Seq(T)] : IsFlat(q, g)}
<1>1. 0 \in S
  <2>1. SUFFICES ASSUME NEW q \in Seq(Seq(T)), Len(q) = 0
                 PROVE  \E g \in [1 .. 0 -> Seq(T)] : IsFlat(q, g)
    OBVIOUS
  <2> DEFINE g == [i \in 1 .. 0 |-> <<>>]
  <2>2. g \in [1 .. 0 -> Seq(T)] /\ IsFlat(q, g)
    BY <2>1 DEF IsFlat
  <2>3. QED
    BY <2>2
<1>2. ASSUME NEW n \in S PROVE n + 1 \in S
  <2>1. SUFFICES ASSUME NEW q \in Seq(Seq(T)), Len(q) = n + 1
                 PROVE  \E g \in [1 .. n + 1 -> Seq(T)] : IsFlat(q, g)
    OBVIOUS
  <2>2. n \in 0 .. Len(q)
    BY <2>1
  <2>3. SubSeq(q, 1, n) \in Seq(Seq(T)) /\ Len(SubSeq(q, 1, n)) = n
    BY <2>2, PrefixType
  <2>4. PICK g \in [1 .. n -> Seq(T)] : IsFlat(SubSeq(q, 1, n), g)
    BY <2>3
  <2>5. QED
    BY <2>1, <2>4, FlatGrows
<1>3. S = Nat
  <2> HIDE DEF S
  <2>1. S \in SUBSET Nat
    BY DEF S
  <2>2. QED
    BY <1>1, <1>2, <2>1, SetInduction
<1>4. QED
  BY <1>3, LenProperties

LEMMA FlattenIs ==
    ASSUME NEW T, NEW seqs \in Seq(Seq(T)), Len(seqs) # 0
    PROVE  \E f \in [1 .. Len(seqs) -> Seq(T)] :
               IsFlat(seqs, f) /\ FlattenSeq(seqs) = f[Len(seqs)]
<1> DEFINE P(f) == f = [i \in 1 .. Len(seqs) |->
                            IF i = 1 THEN seqs[i] ELSE f[i - 1] \o seqs[i]]
           flat == CHOOSE f : P(f)
<1>1. PICK g \in [1 .. Len(seqs) -> Seq(T)] : IsFlat(seqs, g)
  BY FlatExists
<1>2. P(g)
  BY <1>1 DEF IsFlat
<1>3. P(flat)
  BY <1>2
<1>4. FlattenSeq(seqs) = flat[Len(seqs)]
  BY DEF FlattenSeq
<1>5. IsFlat(seqs, flat)
  BY <1>3 DEF IsFlat
<1> HIDE DEF flat
<1>6. flat = g
  <2>2. Len(seqs) \in Nat
    BY LenProperties
  <2>4. \A n \in 1 .. Len(seqs) : flat[n] = g[n]
    <3>1. Agree(Len(seqs), seqs, seqs)
      BY DEF Agree
    <3>2. Agree(Len(seqs), flat, g)
      BY <1>1, <1>5, <2>2, <3>1, FlatAgree
    <3>3. QED
      BY <3>2 DEF Agree
  <2>5. flat = [n \in 1 .. Len(seqs) |-> flat[n]] /\ g = [n \in 1 .. Len(seqs) |-> g[n]]
    BY <1>1, <1>5 DEF IsFlat
  <2>6. QED
    BY <2>4, <2>5
<1>7. QED
  BY <1>1, <1>4, <1>6

(* What the recursion is for. *)
LEMMA FlattenEmpty == FlattenSeq(<<>>) = <<>>
BY DEF FlattenSeq

LEMMA FlattenType ==
    ASSUME NEW T, NEW seqs \in Seq(Seq(T))
    PROVE  FlattenSeq(seqs) \in Seq(T)
<1>1. CASE Len(seqs) = 0
  <2>1. seqs = <<>>
    BY <1>1, EmptySeq
  <2>2. QED
    BY <2>1, FlattenEmpty, EmptySeq
<1>2. CASE Len(seqs) # 0
  <2>1. PICK f \in [1 .. Len(seqs) -> Seq(T)] : FlattenSeq(seqs) = f[Len(seqs)]
    BY <1>2, FlattenIs
  <2>2. Len(seqs) \in 1 .. Len(seqs)
    BY <1>2, LenProperties
  <2>3. f[Len(seqs)] \in Seq(T)
    BY <2>2
  <2>4. QED
    BY <2>1, <2>3
<1>3. QED
  BY <1>1, <1>2

LEMMA FlattenSnoc ==
    ASSUME NEW T, NEW seqs \in Seq(Seq(T)), NEW n \in 1 .. Len(seqs)
    PROVE  FlattenSeq(SubSeq(seqs, 1, n)) = FlattenSeq(SubSeq(seqs, 1, n - 1)) \o seqs[n]
<1> DEFINE p == SubSeq(seqs, 1, n)
           q == SubSeq(seqs, 1, n - 1)
<1>1. n \in 0 .. Len(seqs) /\ n - 1 \in 0 .. Len(seqs)
  BY LenProperties
<1>2. /\ p \in Seq(Seq(T)) /\ Len(p) = n /\ \A i \in 1 .. n : p[i] = seqs[i] /\ seqs[i] \in Seq(T)
      /\ q \in Seq(Seq(T)) /\ Len(q) = n - 1 /\ \A i \in 1 .. n - 1 : q[i] = seqs[i]
  BY <1>1, PrefixType
<1> HIDE DEF p, q
<1>7. Len(p) # 0 /\ (n # 1 => Len(q) # 0)
  BY <1>2
<1>3. PICK f \in [1 .. n -> Seq(T)] : IsFlat(p, f) /\ FlattenSeq(p) = f[n]
  <2>1. \E f \in [1 .. Len(p) -> Seq(T)] : IsFlat(p, f) /\ FlattenSeq(p) = f[Len(p)]
    BY <1>2, <1>7, FlattenIs
  <2>2. QED
    BY <1>2, <2>1
<1>4. CASE n = 1
  <2>1. q = <<>>
    BY <1>2, <1>4, EmptySeq
  <2>2. f[1] = seqs[1]
    BY <1>2, <1>3, <1>4 DEF IsFlat
  <2>3. seqs[1] = <<>> \o seqs[1]
    BY <1>2, <1>4, ConcatEmptySeq
  <2>4. QED
    BY <1>3, <1>4, <2>1, <2>2, <2>3, FlattenEmpty DEF p, q
<1>5. CASE n # 1
  <2>1. PICK g \in [1 .. n - 1 -> Seq(T)] : IsFlat(q, g) /\ FlattenSeq(q) = g[n - 1]
    <3>1. \E g \in [1 .. Len(q) -> Seq(T)] : IsFlat(q, g) /\ FlattenSeq(q) = g[Len(q)]
      BY <1>2, <1>5, <1>7, FlattenIs
    <3>2. QED
      BY <1>2, <3>1
  <2>2. n - 1 \in Nat /\ n - 1 \in 1 .. n - 1 /\ n \in 1 .. n /\ n \in Nat
    BY <1>5
  <2>3. \A i \in 1 .. n - 1 : p[i] = q[i]
    <3>1. \A i \in 1 .. n - 1 : i \in 1 .. n
      BY <2>2
    <3>2. QED
      BY <1>2, <3>1
  <2>4. \A i \in 1 .. n - 1 : f[i] = g[i]
    <3>1. PICK m \in Nat : m = n - 1
      BY <2>2
    <3>2. IsFlat(p, f) /\ IsFlat(q, g)
      BY <1>3, <2>1
    <3>3. Len(p) \in Nat /\ m <= Len(p) /\ Len(q) \in Nat /\ m <= Len(q)
      BY <1>2, <2>2, <3>1
    <3>4. Agree(m, p, q)
      BY <2>3, <3>1 DEF Agree
    <3>5. Agree(m, f, g)
      BY <3>2, <3>3, <3>4, FlatAgree
    <3>6. QED
      BY <3>1, <3>5 DEF Agree
  <2>5. n \in 1 .. Len(p)
    BY <1>2, <2>2
  <2>6. f[n] = f[n - 1] \o p[n]
    BY <1>3, <1>5, <2>5, FlatEquation
  <2>7. f[n - 1] = g[n - 1] /\ p[n] = seqs[n]
    BY <1>2, <2>2, <2>4
  <2>8. QED
    BY <1>3, <2>1, <2>6, <2>7 DEF p, q
<1>6. QED
  BY <1>4, <1>5

-----------------------------------------------------------------------------
(* The least of some numbers. *)
LEMMA LeastAlong ==
    ASSUME NEW R, IsWellFoundedOn(R, Nat), \A x, y \in Nat : y < x => <<y, x>> \in R,
           NEW S \in SUBSET Nat, S # {}
    PROVE  \E m \in S : \A y \in S : m <= y
<1>1. PICK m \in S : \A k \in S : ~ (<<k, m>> \in R)
  BY WFMin
<1>2. ASSUME NEW y \in S PROVE m <= y
  <2>1. m \in Nat /\ y \in Nat
    OBVIOUS
  <2>2. y < m => <<y, m>> \in R
    BY <2>1
  <2>3. ~ (y < m)
    BY <1>1, <2>2
  <2>4. QED
    BY <2>1, <2>3
<1>3. QED
  BY <1>2

LEMMA LeastElement ==
    ASSUME NEW S \in SUBSET Nat, S # {}
    PROVE  Min(S) \in S /\ \A y \in S : Min(S) <= y
<1>1. \A x, y \in Nat : y < x => <<y, x>> \in OpToRel(<, Nat)
  BY DEF OpToRel
<1>2. \E m \in S : \A y \in S : m <= y
  BY <1>1, NatLessThanWellFounded, LeastAlong
<1>3. QED
  BY <1>2 DEF Min

LEMMA LessOfTwo ==
    ASSUME NEW a \in Nat \ {0}, NEW b \in Nat \ {0}
    PROVE  Min({a, b}) = (IF a <= b THEN a ELSE b) /\ Min({a, b}) \in 1 .. b /\ Min({a, b}) <= a
<1>1. Min({a, b}) \in {a, b} /\ \A y \in {a, b} : Min({a, b}) <= y
  BY LeastElement
<1>2. QED
  BY <1>1

-----------------------------------------------------------------------------
(* Quotient and remainder. *)

LEMMA Division ==
    ASSUME NEW a \in Nat, NEW q \in Nat, NEW r \in Nat, NEW p \in Nat \ {0},
           a = q * p + r, r < p
    PROVE  a \div p = q /\ a % p = r
OBVIOUS

LEMMA Remainder ==
    ASSUME NEW a \in Nat, NEW p \in Nat \ {0}
    PROVE  \E q, r \in Nat : /\ q = a \div p /\ r = a % p
                            /\ a = q * p + r /\ r < p
<1> DEFINE S == {n \in Nat : \E q, r \in Nat : n = q * p + r /\ r < p}
<1>1. 0 \in S
  <2>1. 0 = 0 * p + 0 /\ 0 < p
    OBVIOUS
  <2>2. QED
    BY <2>1
<1>2. ASSUME NEW n \in S PROVE n + 1 \in S
  <2>1. PICK q \in Nat, r \in Nat : n = q * p + r /\ r < p
    OBVIOUS
  <2>2. q * p \in Nat /\ (q + 1) * p = q * p + p /\ q + 1 \in Nat /\ r + 1 \in Nat
    OBVIOUS
  <2>3. CASE r + 1 < p
    <3>1. n + 1 = q * p + (r + 1)
      BY <2>1, <2>2
    <3>2. \E b, c \in Nat : n + 1 = b * p + c /\ c < p
      <4>1. WITNESS q \in Nat, r + 1 \in Nat
      <4>2. QED
        BY <2>3, <3>1
    <3>3. QED
      BY <3>2
  <2>4. CASE r + 1 = p
    <3>1. n + 1 = (q + 1) * p + 0 /\ 0 < p
      BY <2>1, <2>2, <2>4
    <3>2. \E b, c \in Nat : n + 1 = b * p + c /\ c < p
      <4>1. WITNESS q + 1 \in Nat, 0 \in Nat
      <4>2. QED
        BY <3>1
    <3>3. QED
      BY <3>2
  <2>5. QED
    BY <2>1, <2>3, <2>4
<1>3. a \in S
  <2> HIDE DEF S
  <2>1. S \in SUBSET Nat
    BY DEF S
  <2>2. QED
    BY <1>1, <1>2, <2>1, SetInduction
<1>4. PICK q \in Nat, r \in Nat : a = q * p + r /\ r < p
  BY <1>3
<1>5. a \div p = q /\ a % p = r
  BY <1>4, Division
<1>6. QED
  BY <1>4, <1>5

-----------------------------------------------------------------------------
(* What is left is cut into pieces: take[left] is the size of the next     *)
(* one, piece[left] what becomes of it, f[left] all of them.               *)
IsCut(total, take, piece, f) ==
    f = [left \in 0 .. total |->
            <<piece[left]>> \o IF left = take[left] THEN <<>> ELSE f[left - take[left]]]

Takes(total, take) ==
    \A left \in 0 .. total : take[left] \in 0 .. left /\ (left > 0 => take[left] > 0)

LEMMA CutGrows ==
    ASSUME NEW n \in Nat, NEW take, NEW piece, Takes(n + 1, take), NEW f, IsCut(n, take, piece, f)
    PROVE  \E g : IsCut(n + 1, take, piece, g)
<1> DEFINE Whole(left) == <<piece[left]>> \o
                          IF left = take[left] THEN <<>> ELSE f[left - take[left]]
           g == [left \in 0 .. n + 1 |-> IF left = n + 1 THEN Whole(left) ELSE f[left]]
<1>1. ASSUME NEW left \in 0 .. n + 1
      PROVE  g[left] = <<piece[left]>> \o
                       IF left = take[left] THEN <<>> ELSE g[left - take[left]]
  <2>1. /\ left \in Nat /\ take[left] \in Nat
        /\ left # take[left] => left - take[left] \in 0 .. n /\ left - take[left] # n + 1
    <3>1. take[left] \in 0 .. left /\ (left > 0 => take[left] > 0)
      BY DEF Takes
    <3>2. QED
      BY <3>1
  <2>2. left # take[left] => g[left - take[left]] = f[left - take[left]]
    BY <2>1
  <2>3. CASE left = n + 1
    <3>1. g[left] = Whole(left)
      BY <2>3
    <3>2. QED
      BY <2>2, <3>1
  <2>4. CASE left # n + 1
    <3>1. left \in 0 .. n
      BY <2>4
    <3>2. g[left] = f[left]
      BY <2>4
    <3>3. f[left] = <<piece[left]>> \o IF left = take[left] THEN <<>> ELSE f[left - take[left]]
      BY <3>1 DEF IsCut
    <3>4. QED
      BY <2>2, <3>2, <3>3
  <2>5. QED
    BY <2>3, <2>4
<1>2. IsCut(n + 1, take, piece, g)
  BY <1>1 DEF IsCut
<1>3. QED
  BY <1>2

LEMMA CutExists ==
    ASSUME NEW total \in Nat, NEW take, NEW piece, Takes(total, take)
    PROVE  \E f : IsCut(total, take, piece, f)
<1> DEFINE S == {n \in Nat : n <= total => \E f : IsCut(n, take, piece, f)}
<1>1. 0 \in S
  <2> DEFINE f == [left \in 0 .. 0 |-> <<piece[0]>> \o <<>>]
  <2>1. take[0] = 0
    BY DEF Takes
  <2>2. \A left \in 0 .. 0 : left = 0
    OBVIOUS
  <2>3. IsCut(0, take, piece, f)
    BY <2>1, <2>2 DEF IsCut
  <2>4. QED
    BY <2>3
<1>2. ASSUME NEW n \in S PROVE n + 1 \in S
  <2>1. SUFFICES ASSUME n + 1 <= total PROVE \E g : IsCut(n + 1, take, piece, g)
    OBVIOUS
  <2>2. PICK f : IsCut(n, take, piece, f)
    BY <2>1
  <2>3. Takes(n + 1, take)
    BY <2>1 DEF Takes
  <2>4. QED
    BY <2>2, <2>3, CutGrows
<1>3. S = Nat
  <2> HIDE DEF S
  <2>1. S \in SUBSET Nat
    BY DEF S
  <2>2. QED
    BY <1>1, <1>2, <2>1, SetInduction
<1>4. QED
  BY <1>3

-----------------------------------------------------------------------------
(* SumFunction adds element by element: F[s] is the sum over the subset s. *)
AnElement(s) == CHOOSE x \in s : TRUE

IsSum(w, F) ==
    F = [s \in SUBSET (DOMAIN w) |-> IF s = {} THEN 0 ELSE w[AnElement(s)] + F[s \ {AnElement(s)}]]

LEMMA SumUnfolds ==
    ASSUME NEW w
    PROVE  SumFunction(w) = (CHOOSE F : IsSum(w, F))[DOMAIN w]
BY DEF SumFunction, SumFunctionOnSet, FoldFunctionOnSet, MapThenFoldSet, IsSum, AnElement


(* F adds up the subsets of at most n elements. *)
SumsTo(w, n, F) ==
    \A s \in SUBSET (DOMAIN w) :
        Cardinality(s) <= n => F[s] = IF s = {} THEN 0 ELSE w[AnElement(s)] + F[s \ {AnElement(s)}]

LEMMA OneLess ==
    ASSUME NEW D, IsFiniteSet(D), NEW s \in SUBSET D, s # {}
    PROVE  /\ AnElement(s) \in D /\ s \ {AnElement(s)} \in SUBSET D
           /\ Cardinality(s) \in Nat /\ Cardinality(s \ {AnElement(s)}) = Cardinality(s) - 1
<1>1. AnElement(s) \in s
  BY DEF AnElement
<1>2. IsFiniteSet(s)
  BY FS_Subset
<1>3. QED
  BY <1>1, <1>2, FS_RemoveElement, FS_CardinalityType

LEMMA NoneLeft ==
    ASSUME NEW D, IsFiniteSet(D), NEW s \in SUBSET D, Cardinality(s) <= 0
    PROVE  s = {}
<1>1. IsFiniteSet(s)
  BY FS_Subset
<1>2. Cardinality(s) \in Nat
  BY <1>1, FS_CardinalityType
<1>3. Cardinality(s) = 0
  BY <1>2
<1>4. QED
  BY <1>1, <1>3, FS_EmptySet

LEMMA SumGrows ==
    ASSUME NEW D, IsFiniteSet(D), NEW w \in [D -> Nat], NEW n \in Nat,
           NEW F \in [SUBSET D -> Nat], SumsTo(w, n, F)
    PROVE  \E G \in [SUBSET D -> Nat] : SumsTo(w, n + 1, G)
<1> DEFINE Body(s) == IF s = {} THEN 0 ELSE w[AnElement(s)] + F[s \ {AnElement(s)}]
           G == [s \in SUBSET D |-> Body(s)]
<1>1. ASSUME NEW s \in SUBSET D PROVE Body(s) \in Nat
  <2>1. CASE s = {}
    BY <2>1
  <2>2. CASE s # {}
    <3>1. AnElement(s) \in D /\ s \ {AnElement(s)} \in SUBSET D
      BY <2>2, OneLess
    <3>2. w[AnElement(s)] \in Nat /\ F[s \ {AnElement(s)}] \in Nat
      BY <3>1
    <3>3. QED
      BY <2>2, <3>2
  <2>3. QED
    BY <2>1, <2>2
<1>2. G \in [SUBSET D -> Nat]
  BY <1>1
<1>3. ASSUME NEW s \in SUBSET D, Cardinality(s) <= n + 1, s # {}
      PROVE  G[s \ {AnElement(s)}] = F[s \ {AnElement(s)}]
  <2> DEFINE r == s \ {AnElement(s)}
  <2>1. r \in SUBSET D /\ Cardinality(r) <= n
    BY <1>3, OneLess
  <2>2. F[r] = Body(r)
    BY <2>1 DEF SumsTo
  <2>3. QED
    BY <2>1, <2>2
<1>4. SumsTo(w, n + 1, G)
  <2>1. SUFFICES ASSUME NEW s \in SUBSET D, Cardinality(s) <= n + 1
                 PROVE  G[s] = IF s = {} THEN 0 ELSE w[AnElement(s)] + G[s \ {AnElement(s)}]
    BY DEF SumsTo
  <2>2. G[s] = Body(s)
    OBVIOUS
  <2> HIDE DEF G
  <2>3. QED
    BY <2>1, <2>2, <1>3
<1>5. QED
  BY <1>2, <1>4

LEMMA SumExists ==
    ASSUME NEW D, IsFiniteSet(D), NEW w \in [D -> Nat]
    PROVE  \E F \in [SUBSET D -> Nat] : IsSum(w, F)
<1> DEFINE S == {n \in Nat : \E F \in [SUBSET D -> Nat] : SumsTo(w, n, F)}
<1>1. 0 \in S
  <2> DEFINE F == [s \in SUBSET D |-> 0]
  <2>1. ASSUME NEW s \in SUBSET D, Cardinality(s) <= 0 PROVE s = {}
    BY <2>1, NoneLeft
  <2>2. SumsTo(w, 0, F)
    BY <2>1 DEF SumsTo
  <2>3. QED
    BY <2>2
<1>2. ASSUME NEW n \in S PROVE n + 1 \in S
  <2>1. PICK F \in [SUBSET D -> Nat] : SumsTo(w, n, F)
    OBVIOUS
  <2>2. \E G \in [SUBSET D -> Nat] : SumsTo(w, n + 1, G)
    BY <2>1, SumGrows
  <2>3. QED
    BY <2>2
<1> HIDE DEF S
<1>3. S = Nat
  <2>1. S \in SUBSET Nat
    BY DEF S
  <2>2. QED
    BY <1>1, <1>2, <2>1, SetInduction
<1>4. Cardinality(D) \in S
  BY <1>3, FS_CardinalityType
<1>5. PICK F \in [SUBSET D -> Nat] : SumsTo(w, Cardinality(D), F)
  BY <1>4 DEF S
<1>6. ASSUME NEW s \in SUBSET D PROVE Cardinality(s) <= Cardinality(D)
  BY FS_Subset
<1>7. F = [s \in SUBSET D |-> IF s = {} THEN 0 ELSE w[AnElement(s)] + F[s \ {AnElement(s)}]]
  BY <1>5, <1>6 DEF SumsTo
<1>8. QED
  BY <1>7 DEF IsSum

LEMMA SumIs ==
    ASSUME NEW D, IsFiniteSet(D), NEW w \in [D -> Nat]
    PROVE  \E F \in [SUBSET D -> Nat] : IsSum(w, F) /\ SumFunction(w) = F[D]
<1> DEFINE sum == CHOOSE F : IsSum(w, F)
<1>1. \E F : IsSum(w, F)
  BY SumExists
<1>2. IsSum(w, sum)
  BY <1>1
<1> HIDE DEF sum
<1>3. DOMAIN w = D
  OBVIOUS
<1>4. sum = [s \in SUBSET D |-> sum[s]]
  BY <1>2, <1>3 DEF IsSum
<1>5. PICK F \in [SUBSET D -> Nat] : IsSum(w, F)
  BY SumExists
<1> DEFINE S == {n \in Nat : \A s \in SUBSET D : Cardinality(s) <= n => sum[s] = F[s]}
<1>6. ASSUME NEW s \in SUBSET D
      PROVE  /\ sum[s] = IF s = {} THEN 0 ELSE w[AnElement(s)] + sum[s \ {AnElement(s)}]
             /\ F[s] = IF s = {} THEN 0 ELSE w[AnElement(s)] + F[s \ {AnElement(s)}]
  BY <1>2, <1>3, <1>5 DEF IsSum
<1>7. 0 \in S
  <2>1. ASSUME NEW s \in SUBSET D, Cardinality(s) <= 0 PROVE s = {}
    BY <2>1, NoneLeft
  <2>2. QED
    BY <2>1, <1>6
<1>8. ASSUME NEW n \in S PROVE n + 1 \in S
  <2>1. SUFFICES ASSUME NEW s \in SUBSET D, Cardinality(s) <= n + 1 PROVE sum[s] = F[s]
    OBVIOUS
  <2>2. CASE s = {}
    BY <2>2, <1>6
  <2>3. CASE s # {}
    <3>1. s \ {AnElement(s)} \in SUBSET D /\ Cardinality(s \ {AnElement(s)}) <= n
      BY <2>1, <2>3, OneLess
    <3>2. sum[s \ {AnElement(s)}] = F[s \ {AnElement(s)}]
      BY <3>1
    <3>3. QED
      BY <2>3, <3>2, <1>6
  <2>4. QED
    BY <2>2, <2>3
<1> HIDE DEF S
<1>9. Cardinality(D) \in S
  <2>1. S \in SUBSET Nat
    BY DEF S
  <2>2. S = Nat
    BY <1>7, <1>8, <2>1, SetInduction
  <2>3. QED
    BY <2>2, FS_CardinalityType
<1>10. sum[D] = F[D]
  BY <1>9 DEF S
<1>11. SumFunction(w) = sum[DOMAIN w]
  BY SumUnfolds DEF sum
<1>12. QED
  BY <1>3, <1>5, <1>10, <1>11

LEMMA SumType ==
    ASSUME NEW D, IsFiniteSet(D), NEW w \in [D -> Nat]
    PROVE  SumFunction(w) \in Nat
<1>1. PICK F \in [SUBSET D -> Nat] : IsSum(w, F) /\ SumFunction(w) = F[D]
  BY SumIs
<1>2. D \in SUBSET D
  OBVIOUS
<1>3. QED
  BY <1>1, <1>2

LEMMA SumNone ==
    ASSUME NEW w \in [{} -> Nat]
    PROVE  SumFunction(w) = 0
<1>1. PICK F \in [SUBSET {} -> Nat] : IsSum(w, F) /\ SumFunction(w) = F[{}]
  BY SumIs, FS_EmptySet
<1>2. QED
  BY <1>1 DEF IsSum

LEMMA SumOne ==
    ASSUME NEW d, NEW w \in [{d} -> Nat]
    PROVE  SumFunction(w) = w[d]
<1>1. PICK F \in [SUBSET {d} -> Nat] : IsSum(w, F) /\ SumFunction(w) = F[{d}]
  BY SumIs, FS_Singleton
<1>2. AnElement({d}) = d
  BY DEF AnElement
<1>3. DOMAIN w = {d} /\ {d} \in SUBSET {d} /\ {d} # {} /\ {d} \ {d} = {} /\ {} \in SUBSET {d}
  OBVIOUS
<1>4. F[{}] = 0
  BY <1>1, <1>3 DEF IsSum
<1>5. F[{d}] = w[d] + F[{}]
  BY <1>1, <1>2, <1>3 DEF IsSum
<1>6. QED
  BY <1>1, <1>4, <1>5, w[d] \in Nat

(* Any element may be the one that is added last. *)
AnyLast(D, w, F) == \A s \in SUBSET D : \A x \in s : F[s] = w[x] + F[s \ {x}]

LEMMA AddedInAnyOrder ==
    ASSUME NEW D, IsFiniteSet(D), NEW w \in [D -> Nat],
           NEW F \in [SUBSET D -> Nat], IsSum(w, F)
    PROVE  AnyLast(D, w, F)
<1> DEFINE S == {n \in Nat : \A s \in SUBSET D : Cardinality(s) <= n =>
                                 \A x \in s : F[s] = w[x] + F[s \ {x}]}
<1>1. ASSUME NEW s \in SUBSET D, s # {}
      PROVE  F[s] = w[AnElement(s)] + F[s \ {AnElement(s)}] /\ AnElement(s) \in s
  BY <1>1 DEF IsSum, AnElement
<1>2. 0 \in S
  BY NoneLeft
<1>3. ASSUME NEW n \in S PROVE n + 1 \in S
  <2>1. SUFFICES ASSUME NEW s \in SUBSET D, Cardinality(s) <= n + 1, NEW x \in s
                 PROVE  F[s] = w[x] + F[s \ {x}]
    OBVIOUS
  <2>2. PICK a : a = AnElement(s) /\ a \in s /\ F[s] = w[a] + F[s \ {a}]
    BY <1>1
  <2>3. CASE a = x
    BY <2>2, <2>3
  <2>4. CASE a # x
    <3>1. /\ IsFiniteSet(s) /\ Cardinality(s) \in Nat
          /\ Cardinality(s \ {a}) = Cardinality(s) - 1 /\ Cardinality(s \ {x}) = Cardinality(s) - 1
      BY <2>2, FS_Subset, FS_RemoveElement, FS_CardinalityType
    <3>2. Cardinality(s \ {a}) <= n /\ Cardinality(s \ {x}) <= n
      BY <2>1, <3>1
    <3>3. s \ {a} \in SUBSET D /\ s \ {x} \in SUBSET D /\ x \in s \ {a} /\ a \in s \ {x}
      BY <2>2, <2>4
    <3>4. F[s \ {a}] = w[x] + F[(s \ {a}) \ {x}]
      BY <3>2, <3>3
    <3>5. F[s \ {x}] = w[a] + F[(s \ {x}) \ {a}]
      BY <3>2, <3>3
    <3>6. PICK r \in SUBSET D : r = (s \ {a}) \ {x} /\ r = (s \ {x}) \ {a}
      OBVIOUS
    <3>7. w[a] \in Nat /\ w[x] \in Nat /\ F[r] \in Nat
      BY <2>2
    <3>8. F[s \ {a}] = w[x] + F[r]
      BY <3>4, <3>6
    <3>9. F[s \ {x}] = w[a] + F[r]
      BY <3>5, <3>6
    <3>10. QED
      BY <2>2, <3>7, <3>8, <3>9
  <2>5. QED
    BY <2>3, <2>4
<1> HIDE DEF S
<1>4. S = Nat
  <2>1. S \in SUBSET Nat
    BY DEF S
  <2>2. QED
    BY <1>2, <1>3, <2>1, SetInduction
<1>5. ASSUME NEW s \in SUBSET D PROVE \A x \in s : F[s] = w[x] + F[s \ {x}]
  <2>1. Cardinality(s) \in S /\ Cardinality(s) \in Nat
    BY <1>4, FS_Subset, FS_CardinalityType
  <2>2. QED
    BY <2>1 DEF S
<1>6. QED
  BY <1>5 DEF AnyLast

(* A sum over a subset is that of the function restricted to it. *)
LEMMA SumRestricted ==
    ASSUME NEW D, IsFiniteSet(D), NEW w \in [D -> Nat], NEW E \in SUBSET D,
           NEW F \in [SUBSET D -> Nat], IsSum(w, F),
           NEW u \in [E -> Nat], \A d \in E : u[d] = w[d]
    PROVE  SumFunction(u) = F[E]
<1>1. DOMAIN u = E
  OBVIOUS
<1>2. IsFiniteSet(E)
  BY FS_Subset
<1>3. PICK G \in [SUBSET E -> Nat] : IsSum(u, G) /\ SumFunction(u) = G[E]
  BY <1>2, SumIs
<1> DEFINE S == {n \in Nat : \A s \in SUBSET E : Cardinality(s) <= n => F[s] = G[s]}
<1>4. ASSUME NEW s \in SUBSET E
      PROVE  /\ F[s] = IF s = {} THEN 0 ELSE w[AnElement(s)] + F[s \ {AnElement(s)}]
             /\ G[s] = IF s = {} THEN 0 ELSE u[AnElement(s)] + G[s \ {AnElement(s)}]
  <2>1. s \in SUBSET DOMAIN w /\ s \in SUBSET DOMAIN u
    BY <1>1
  <2>2. QED
    BY <1>3, <2>1 DEF IsSum
<1>5. 0 \in S
  BY <1>2, <1>4, NoneLeft
<1>6. ASSUME NEW n \in S PROVE n + 1 \in S
  <2>1. SUFFICES ASSUME NEW s \in SUBSET E, Cardinality(s) <= n + 1 PROVE F[s] = G[s]
    OBVIOUS
  <2>2. CASE s = {}
    BY <2>2, <1>4
  <2>3. CASE s # {}
    <3>1. /\ s \ {AnElement(s)} \in SUBSET E /\ Cardinality(s \ {AnElement(s)}) <= n
          /\ AnElement(s) \in E
      BY <1>2, <2>1, <2>3, OneLess
    <3>2. F[s \ {AnElement(s)}] = G[s \ {AnElement(s)}]
      BY <3>1
    <3>3. w[AnElement(s)] = u[AnElement(s)]
      BY <1>1, <3>1
    <3>4. QED
      BY <2>3, <3>2, <3>3, <1>4
  <2>4. QED
    BY <2>2, <2>3
<1> HIDE DEF S
<1>7. Cardinality(E) \in S
  <2>1. S \in SUBSET Nat
    BY DEF S
  <2>2. S = Nat
    BY <1>5, <1>6, <2>1, SetInduction
  <2>3. QED
    BY <1>2, <2>2, FS_CardinalityType
<1>8. F[E] = G[E]
  BY <1>2, <1>7, FS_CardinalityType DEF S
<1>9. QED
  BY <1>1, <1>3, <1>8

LEMMA SumSplit ==
    ASSUME NEW D, IsFiniteSet(D), NEW w \in [D -> Nat], NEW x \in D
    PROVE  SumFunction(w) = w[x] + SumFunction([d \in D \ {x} |-> w[d]])
<1>1. PICK F \in [SUBSET D -> Nat] : IsSum(w, F) /\ SumFunction(w) = F[D]
  BY SumIs
<1>2. F[D] = w[x] + F[D \ {x}]
  <2>1. AnyLast(D, w, F)
    BY <1>1, AddedInAnyOrder
  <2>2. QED
    BY <2>1 DEF AnyLast
<1>3. SumFunction([d \in D \ {x} |-> w[d]]) = F[D \ {x}]
  <2>1. PICK E \in SUBSET D : E = D \ {x}
    OBVIOUS
  <2>2. PICK u \in [E -> Nat] : u = [d \in E |-> w[d]]
    OBVIOUS
  <2>3. SumFunction(u) = F[E]
    BY <1>1, <2>2, SumRestricted
  <2>4. QED
    BY <2>1, <2>2, <2>3
<1>4. QED
  BY <1>1, <1>2, <1>3
=============================================================================
