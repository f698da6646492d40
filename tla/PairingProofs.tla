--------------------------- MODULE PairingProofs ---------------------------
(***************************************************************************)
(* Proofs about the pairing algorithm: for every number of participants,   *)
(* K and seed the schedule repeats no pair within a cycle and gives every  *)
(* participant the same number of matches.  From the top: the permutation  *)
(* of the match indices is a bijection, each canonical index names a pair  *)
(* of its own, and PairingsInOrder relates the schedule so far to both.    *)
(***************************************************************************)
EXTENDS PairingGen, FiniteSetTheorems, WellFoundedInduction, TLAPS

(***************************************************************************)
(* Induction over the numbers, as a property of sets of numbers.           *)
(***************************************************************************)
LEMMA SetInduction ==
    ASSUME NEW S \in SUBSET Nat, 0 \in S, \A x \in S : x + 1 \in S
    PROVE  S = Nat
<1> SUFFICES ASSUME Nat \ S # {} PROVE FALSE
  OBVIOUS
<1>1. PICK x \in Nat \ S : \A y \in Nat \ S : ~(<<y, x>> \in OpToRel(<, Nat))
  BY NatLessThanWellFounded, WFMin
<1>2. x # 0 /\ x - 1 \in Nat
  OBVIOUS
<1>3. x - 1 \in S
  <2>1. SUFFICES ASSUME x - 1 \in Nat \ S PROVE FALSE
    BY <1>2
  <2>2. <<x - 1, x>> \in OpToRel(<, Nat)
    BY <1>2 DEF OpToRel
  <2> QED
    BY <1>1, <2>1, <2>2
<1> QED
  BY <1>2, <1>3

\* The same up to a bound.
LEMMA BoundedInduction ==
    ASSUME NEW m \in Nat, NEW S, 0 \in S,
           \A x \in 0..m : x \in S /\ x < m => x + 1 \in S
    PROVE  \A x \in 0..m : x \in S
<1> DEFINE G == {x \in Nat : x <= m => x \in S}
<1>1. G \in SUBSET Nat /\ 0 \in G
  OBVIOUS
<1>2. \A x \in G : x + 1 \in G
  OBVIOUS
<1>3. G = Nat
  <2> HIDE DEF G
  <2> QED BY <1>1, <1>2, SetInduction
<1> QED
  BY <1>3

\* What m applications of the functions in step make of a.
Iterates(f, m, a, step) ==
    /\ f[0] = a
    /\ \A r \in 1..m : f[r] = step[r][f[r - 1]]

\* Iteration is well defined: the recursive functions of the algorithm exist.
LEMMA Iteration ==
    ASSUME NEW m \in Nat, NEW S, NEW a \in S, NEW step \in [1..m -> [S -> S]]
    PROVE  \E f \in [0..m -> S] : Iterates(f, m, a, step)
<1> DEFINE G == {x \in 0..m : \E f \in [0..m -> S] : Iterates(f, x, a, step)}
<1>1. 0 \in G
  <2> DEFINE f == [r \in 0..m |-> a]
  <2>1. f \in [0..m -> S] /\ Iterates(f, 0, a, step)
    BY DEF Iterates
  <2> QED BY <2>1
<1>2. ASSUME NEW x \in 0..m, x \in G, x < m PROVE x + 1 \in G
  <2>1. PICK f \in [0..m -> S] : Iterates(f, x, a, step)
    BY <1>2
  <2> DEFINE v == step[x + 1][f[x]]
             g == [f EXCEPT ![x + 1] = v]
  <2>2. v \in S
    <3>1. x + 1 \in 1..m /\ f[x] \in S
      BY <1>2
    <3> QED BY <3>1
  <2>3. g \in [0..m -> S]
    BY <2>2
  <2>4. g[x + 1] = v /\ \A r \in 0..x : g[r] = f[r]
    BY <1>2
  <2> HIDE DEF g
  <2>5. ASSUME NEW r \in 1..(x + 1) PROVE g[r] = step[r][g[r - 1]]
    <3>1. CASE r = x + 1
      BY <2>4, <3>1
    <3>2. CASE r # x + 1
      <4>1. r \in 1..x /\ r \in 0..x /\ r - 1 \in 0..x
        BY <3>2
      <4> QED BY <4>1, <2>1, <2>4 DEF Iterates
    <3> QED BY <3>1, <3>2
  <2>6. g[0] = a
    BY <2>1, <2>4 DEF Iterates
  <2>7. Iterates(g, x + 1, a, step)
    BY <2>5, <2>6 DEF Iterates
  <2> QED
    BY <1>2, <2>3, <2>7
<1>3. m \in G
  <2> HIDE DEF G
  <2>1. \A x \in 0..m : x \in G
    BY <1>1, <1>2, BoundedInduction
  <2> QED BY <2>1
<1> QED
  BY <1>3

\* Division with remainder, and its uniqueness.
LEMMA DivMod ==
    ASSUME NEW a \in Nat, NEW b \in Nat, b > 0
    PROVE  /\ a \div b \in Nat /\ a % b \in 0..(b - 1)
           /\ a = (a \div b) * b + (a % b)
OBVIOUS

LEMMA DivModUnique ==
    ASSUME NEW b \in Nat, b > 0, NEW q \in Int, NEW r \in 0..(b - 1),
           NEW p \in Int, NEW s \in 0..(b - 1), q * b + r = p * b + s
    PROVE  q = p /\ r = s
<1>1. (q - p) * b = s - r
  OBVIOUS
<1> DEFINE d == q - p
<1>2. d \in Int /\ d * b = s - r
  BY <1>1
<1> HIDE DEF d
<1>3. ~(d >= 1)
  <2> SUFFICES ASSUME d >= 1 PROVE FALSE
    OBVIOUS
  <2>1. d * b >= b
    BY <1>2
  <2> QED BY <2>1, <1>2
<1>4. ~(d <= -1)
  <2> SUFFICES ASSUME d <= -1 PROVE FALSE
    OBVIOUS
  <2>1. d * b <= -b
    BY <1>2
  <2> QED BY <2>1, <1>2
<1>5. d = 0
  BY <1>2, <1>3, <1>4
<1>6. d * b = 0
  BY <1>5
<1> QED BY <1>2, <1>5, <1>6 DEF d

LEMMA IntervalSize ==
    ASSUME NEW a \in Int, NEW m \in Nat
    PROVE  IsFiniteSet(a..(a + m - 1)) /\ Cardinality(a..(a + m - 1)) = m
<1> DEFINE b == a + m - 1
<1>1. b \in Int /\ (IF a > b THEN 0 ELSE b - a + 1) = m
  OBVIOUS
<1> HIDE DEF b
<1>2. IsFiniteSet(a..b) /\ Cardinality(a..b) = IF a > b THEN 0 ELSE b - a + 1
  BY <1>1, FS_Interval
<1> QED BY <1>1, <1>2 DEF b

(***************************************************************************)
(* Integer square roots                                                    *)
(***************************************************************************)
IsRoot(r, x) == r \in Nat /\ r * r <= x /\ x < (r + 1) * (r + 1)

LEMMA RootExists ==
    ASSUME NEW x \in Nat
    PROVE  \E r \in Nat : IsRoot(r, x)
<1> DEFINE G == {y \in Nat : \E r \in Nat : IsRoot(r, y)}
<1>1. 0 \in G
  <2>1. IsRoot(0, 0)
    BY DEF IsRoot
  <2> QED BY <2>1
<1>2. ASSUME NEW y \in G PROVE y + 1 \in G
  <2>1. y \in Nat
    OBVIOUS
  <2>2. PICK r \in Nat : IsRoot(r, y)
    OBVIOUS
  <2>3. CASE y + 1 < (r + 1) * (r + 1)
    <3>1. IsRoot(r, y + 1)
      BY <2>1, <2>2, <2>3 DEF IsRoot
    <3> QED BY <3>1, <2>1
  <2>4. CASE ~(y + 1 < (r + 1) * (r + 1))
    <3> DEFINE q == r + 1
    <3>1. q \in Nat /\ q * q \in Nat
      OBVIOUS
    <3>2. y + 1 = q * q
      BY <2>1, <2>2, <2>4, <3>1 DEF IsRoot
    <3>3. (q + 1) * (q + 1) = q * q + 2 * q + 1
      BY <3>1
    <3>4. IsRoot(q, y + 1)
      BY <3>1, <3>2, <3>3 DEF IsRoot
    <3> QED BY <3>1, <3>4, <2>1
  <2> QED BY <2>3, <2>4
<1>3. G = Nat
  <2>1. G \in SUBSET Nat
    OBVIOUS
  <2> HIDE DEF G
  <2> QED BY <1>1, <1>2, <2>1, SetInduction
<1> QED
  BY <1>3

\* One Newton step from above the root stays at or above it and descends.
LEMMA NewtonStep ==
    ASSUME NEW x \in Nat, NEW y \in Nat, y > 0, NEW r \in Nat, IsRoot(r, x)
    PROVE  LET z == (y + x \div y) \div 2
           IN  /\ y * y <= x => z >= y
               /\ y * y > x => z \in Nat /\ z < y /\ z >= r
<1> DEFINE q == x \div y
           z == (y + q) \div 2
<1>1. q \in Nat /\ q * y <= x /\ x < (q + 1) * y
  <2>1. q \in Nat /\ x % y \in 0..(y - 1) /\ x = q * y + (x % y)
    BY DivMod
  <2>2. (q + 1) * y = q * y + y
    BY <2>1
  <2> QED BY <2>1, <2>2
<1> HIDE DEF q
<1>2. z \in Nat /\ 2 * z <= y + q /\ y + q < 2 * z + 2
  BY <1>1
<1> HIDE DEF z
<1>3. y * y <= x => q >= y
  <2> SUFFICES ASSUME y * y <= x, q + 1 <= y PROVE FALSE
    BY <1>1
  <2>1. (q + 1) * y <= y * y
    BY <1>1
  <2> QED BY <1>1, <2>1
<1>4. y * y > x => q < y
  <2> SUFFICES ASSUME y * y > x, q >= y PROVE FALSE
    BY <1>1
  <2>1. q * y >= y * y
    BY <1>1
  <2> QED BY <1>1, <2>1
<1>5. z >= r
  <2> SUFFICES ASSUME z + 1 <= r PROVE FALSE
    BY <1>2
  <2> DEFINE w == z + 1
  <2>1. w \in Nat /\ 2 * w >= y + q + 1
    BY <1>1, <1>2
  <2>2. w * w <= r * r
    BY <2>1
  <2>3. w * w <= x
    BY <2>1, <2>2 DEF IsRoot
  <2>4. (2 * w) * (2 * w) >= (y + q + 1) * (y + q + 1)
    BY <2>1, <1>1
  <2>5. (y + q + 1) * (y + q + 1) >= 4 * ((q + 1) * y)
    <3>1. (y - (q + 1)) * (y - (q + 1)) >= 0
      BY <1>1
    <3>2. (y + q + 1) * (y + q + 1) = (y - (q + 1)) * (y - (q + 1)) + 4 * ((q + 1) * y)
      BY <1>1
    <3> QED BY <3>1, <3>2, <1>1
  <2>6. (2 * w) * (2 * w) = 4 * (w * w)
    BY <2>1
  <2> QED BY <1>1, <2>1, <2>3, <2>4, <2>5, <2>6
<1>6. z = (y + x \div y) \div 2
  BY DEF z, q
<1> QED BY <1>1, <1>2, <1>3, <1>4, <1>5, <1>6

\* Newton's method computes the root.
LEMMA FloorSqrtIsRoot ==
    ASSUME NEW x \in Nat, x > 0
    PROVE  IsRoot(FloorSqrt(x), x)
<1>1. PICK r \in Nat : IsRoot(r, x)
  BY RootExists
<1>2. r \in 1..x /\ r * r <= x
  <2>1. r # 0
    BY <1>1 DEF IsRoot
  <2>2. r <= r * r
    BY <2>1
  <2> QED BY <1>1, <2>1, <2>2 DEF IsRoot
<1> DEFINE Step(f, y) == LET z == (y + x \div y) \div 2 IN IF z < y THEN f[z] ELSE y
           Eq(f) == f = [y \in 1..x |-> Step(f, y)]
           g == [y \in 1..x |-> IF y * y <= x THEN y ELSE r]
<1>3. Eq(g)
  <2> SUFFICES ASSUME NEW y \in 1..x PROVE g[y] = Step(g, y)
    OBVIOUS
  <2> DEFINE z == (y + x \div y) \div 2
  <2>1. /\ y * y <= x => z >= y
        /\ y * y > x => z \in Nat /\ z < y /\ z >= r
    BY NewtonStep, <1>1
  <2>0. z \in Int /\ y * y \in Int
    BY DivMod
  <2>2. Step(g, y) = IF z < y THEN g[z] ELSE y
    OBVIOUS
  <2> HIDE DEF z, Step
  <2>3. CASE y * y <= x
    BY <2>0, <2>1, <2>2, <2>3
  <2>4. CASE ~(y * y <= x)
    <3>1. z \in 1..x /\ z < y /\ z >= r
      BY <1>2, <2>0, <2>1, <2>4
    <3>2. z * z <= x => z = r
      <4> SUFFICES ASSUME z * z <= x, z >= r + 1 PROVE FALSE
        BY <3>1
      <4>1. z * z >= (r + 1) * (r + 1)
        BY <3>1
      <4> QED BY <1>1, <3>1, <4>1 DEF IsRoot
    <3>3. g[z] = r
      BY <3>1, <3>2
    <3>4. g[y] = r
      BY <2>4
    <3> QED BY <2>2, <3>1, <3>3, <3>4
  <2> QED BY <2>3, <2>4
<1> DEFINE h == CHOOSE f : Eq(f)
<1>4. Eq(h)
  <2> HIDE DEF g, Eq
  <2> QED BY <1>3, Zenon
<1>5. FloorSqrt(x) = h[x]
  BY Zenon DEF FloorSqrt
<1> DEFINE Same == {m \in Nat : \A y \in 1..x : y <= m => h[y] = g[y]}
<1>6. 0 \in Same
  OBVIOUS
<1>7. ASSUME NEW m \in Same PROVE m + 1 \in Same
  <2>0. m \in Nat /\ \A y \in 1..x : y <= m => h[y] = g[y]
    OBVIOUS
  <2> SUFFICES ASSUME NEW y \in 1..x, y <= m + 1 PROVE h[y] = g[y]
    BY <2>0
  <2> DEFINE z == (y + x \div y) \div 2
  <2>1. h[y] = (IF z < y THEN h[z] ELSE y) /\ g[y] = (IF z < y THEN g[z] ELSE y)
    <3>1. h[y] = Step(h, y) /\ g[y] = Step(g, y)
      <4> HIDE DEF Step, h, g
      <4> QED BY <1>3, <1>4
    <3> HIDE DEF h, g
    <3> QED BY <3>1
  <2> HIDE DEF h, g
  <2>2. z < y => z \in Nat /\ z >= r
    <3>1. /\ y * y <= x => z >= y
          /\ y * y > x => z \in Nat /\ z < y /\ z >= r
      BY NewtonStep, <1>1
    <3>2. z \in Int /\ y * y \in Int
      BY DivMod
    <3> HIDE DEF z
    <3> QED BY <3>1, <3>2
  <2> HIDE DEF z
  <2>3. z < y => z \in 1..x /\ z <= m
    BY <2>0, <2>2, <1>2
  <2> QED
    BY <2>0, <2>1, <2>3
<1>8. Same = Nat
  <2>1. Same \in SUBSET Nat
    OBVIOUS
  <2> HIDE DEF Same
  <2> QED BY <1>6, <1>7, <2>1, SetInduction
<1>9. h[x] = g[x]
  <2> HIDE DEF g, h
  <2> QED BY <1>8
<1>10. g[x] = r
  <2>1. x * x <= x => x = r
    <3> SUFFICES ASSUME x * x <= x, x # r PROVE FALSE
      OBVIOUS
    <3>1. x >= 2
      BY <1>2
    <3>2. x * x >= 2 * x
      BY <3>1
    <3> QED BY <3>1, <3>2
  <2> QED BY <2>1
<1> QED BY <1>1, <1>5, <1>9, <1>10

\* The smallest square that holds the domain: less than 2 * half values of it
\* are outside.
LEMMA IsqrtCeilBounds ==
    ASSUME NEW d \in Nat, d > 1
    PROVE  LET half == IsqrtCeil(d)
           IN  /\ half \in Nat /\ half > 1
               /\ d <= half * half
               /\ half * half - d <= 2 * half - 2
<1> DEFINE r == FloorSqrt(d)
           half == IsqrtCeil(d)
<1>1. r \in Nat /\ r * r <= d /\ d < (r + 1) * (r + 1)
  BY FloorSqrtIsRoot DEF IsRoot
<1>2. half = IF r * r = d THEN r ELSE r + 1
  BY DEF IsqrtCeil
<1> HIDE DEF r, half
<1>3. (r + 1) * (r + 1) = r * r + 2 * r + 1
  BY <1>1
<1>4. r # 0
  BY <1>1
<1>5. CASE r * r = d
  <2>1. r # 1
    BY <1>5
  <2> QED BY <1>1, <1>2, <1>4, <1>5, <2>1 DEF half
<1>6. CASE r * r # d
  <2>1. half = r + 1 /\ half * half = r * r + 2 * r + 1
    BY <1>2, <1>3, <1>6
  <2> QED BY <1>1, <1>4, <1>6, <2>1 DEF half
<1> QED BY <1>5, <1>6

(***************************************************************************)
(* The Feistel network                                                     *)
(***************************************************************************)
\* A seed offers values of the round functions on 0..half-1.
Rounds(sd, half) == \A r \in 1..6, x \in 1..half : sd.round[r][x] \in Nat

LEMMA RoundFnType ==
    ASSUME NEW half \in Nat, half > 0, NEW sd, Rounds(sd, half),
           NEW r \in 1..6, NEW x \in 0..(half - 1)
    PROVE  FeistelRoundFn(sd, r, x, half) \in 0..(half - 1)
<1>1. sd.round[r][x + 1] \in Nat
  BY DEF Rounds
<1> DEFINE v == sd.round[r][x + 1]
<1> HIDE DEF v
<1>2. v % half \in 0..(half - 1)
  BY <1>1, DivMod DEF v
<1> QED BY <1>2 DEF FeistelRoundFn, v

Halves(half) == (0..(half - 1)) \X (0..(half - 1))

\* One of the six rounds.
Round(r, lr, half, sd) ==
    IF r % 2 = 1
    THEN <<lr[1], (lr[2] + FeistelRoundFn(sd, r, lr[1], half)) % half>>
    ELSE <<(lr[1] + FeistelRoundFn(sd, r, lr[2], half)) % half, lr[2]>>

LEMMA AddModInjective ==
    ASSUME NEW half \in Nat, half > 0, NEW f \in 0..(half - 1),
           NEW x \in 0..(half - 1), NEW y \in 0..(half - 1),
           (x + f) % half = (y + f) % half
    PROVE  x = y
<1> DEFINE a == (x + f) \div half
           b == (y + f) \div half
           c == (x + f) % half
<1>1. a \in Nat /\ x + f = a * half + c /\ b \in Nat /\ y + f = b * half + c /\ c \in Nat
  BY DivMod
<1> HIDE DEF a, b, c
<1>2. x - y = (a - b) * half
  BY <1>1
<1>3. a - b \in Int /\ (a - b) * half + y = 0 * half + x
  BY <1>1, <1>2
<1>4. 0 \in Int
  OBVIOUS
<1> QED BY <1>3, <1>4, DivModUnique

LEMMA RoundType ==
    ASSUME NEW half \in Nat, half > 0, NEW sd, Rounds(sd, half),
           NEW r \in 1..6, NEW p \in Halves(half)
    PROVE  Round(r, p, half, sd) \in Halves(half)
<1>1. p[1] \in 0..(half - 1) /\ p[2] \in 0..(half - 1)
  BY DEF Halves
<1>2. /\ FeistelRoundFn(sd, r, p[1], half) \in Nat
      /\ FeistelRoundFn(sd, r, p[2], half) \in Nat
  BY <1>1, RoundFnType, SMTT(40)
<1>3. /\ (p[2] + FeistelRoundFn(sd, r, p[1], half)) % half \in 0..(half - 1)
      /\ (p[1] + FeistelRoundFn(sd, r, p[2], half)) % half \in 0..(half - 1)
  BY <1>1, <1>2, DivMod
<1> QED BY <1>1, <1>3 DEF Round, Halves

\* A round can be undone, whatever its function: it changes one half by a value
\* of the other.
LEMMA RoundInjective ==
    ASSUME NEW half \in Nat, half > 0, NEW sd, Rounds(sd, half),
           NEW r \in 1..6, NEW p \in Halves(half), NEW q \in Halves(half),
           Round(r, p, half, sd) = Round(r, q, half, sd)
    PROVE  p = q
<1>1. p = <<p[1], p[2]>> /\ q = <<q[1], q[2]>>
  BY DEF Halves
<1>2. /\ p[1] \in 0..(half - 1) /\ p[2] \in 0..(half - 1)
      /\ q[1] \in 0..(half - 1) /\ q[2] \in 0..(half - 1)
  BY DEF Halves
<1>3. CASE r % 2 = 1
  <2>1. /\ p[1] = q[1]
        /\ (p[2] + FeistelRoundFn(sd, r, p[1], half)) % half
             = (q[2] + FeistelRoundFn(sd, r, q[1], half)) % half
    BY <1>3 DEF Round
  <2>2. FeistelRoundFn(sd, r, p[1], half) \in 0..(half - 1)
    BY <1>2, RoundFnType
  <2>3. p[2] = q[2]
    BY <1>2, <2>1, <2>2, AddModInjective
  <2> QED BY <1>1, <2>1, <2>3
<1>4. CASE r % 2 # 1
  <2>1. /\ p[2] = q[2]
        /\ (p[1] + FeistelRoundFn(sd, r, p[2], half)) % half
             = (q[1] + FeistelRoundFn(sd, r, q[2], half)) % half
    BY <1>4 DEF Round
  <2>2. FeistelRoundFn(sd, r, p[2], half) \in 0..(half - 1)
    BY <1>2, RoundFnType
  <2>3. p[1] = q[1]
    BY <1>2, <2>1, <2>2, AddModInjective
  <2> QED BY <1>1, <2>1, <2>3
<1> QED BY <1>3, <1>4

\* The rounds of a pass over val, as the recursion that FeistelPass solves.
IsPass(lr, val, half, sd) ==
    /\ lr[0] = <<val \div half, val % half>>
    /\ \A r \in 0..6 : lr[r] \in Halves(half)
    /\ \A r \in 1..6 : lr[r] = Round(r, lr[r - 1], half, sd)

Square(half) == 0..(half * half - 1)

LEMMA SplitSquare ==
    ASSUME NEW half \in Nat, half > 0, NEW val \in Square(half)
    PROVE  /\ <<val \div half, val % half>> \in Halves(half)
           /\ val = (val \div half) * half + (val % half)
<1> DEFINE q == val \div half
<1>1. q \in Nat /\ val % half \in 0..(half - 1) /\ val = q * half + (val % half)
      /\ val \in Nat /\ val < half * half
  BY DivMod DEF Square
<1> HIDE DEF q
<1>2. q < half
  <2> SUFFICES ASSUME q >= half PROVE FALSE
    BY <1>1
  <2>1. q * half >= half * half
    BY <1>1
  <2> QED BY <1>1, <2>1
<1> QED BY <1>1, <1>2 DEF Halves, q

LEMMA JoinSquare ==
    ASSUME NEW half \in Nat, half > 0, NEW p \in Halves(half)
    PROVE  p[1] * half + p[2] \in Square(half)
<1>1. p[1] \in 0..(half - 1) /\ p[2] \in 0..(half - 1)
  BY DEF Halves
<1>2. p[1] * half <= (half - 1) * half /\ (half - 1) * half = half * half - half
  BY <1>1
<1>3. p[1] * half \in Nat
  BY <1>1
<1> QED BY <1>1, <1>2, <1>3 DEF Square

LEMMA FeistelPassRuns ==
    ASSUME NEW half \in Nat, half > 0, NEW sd, Rounds(sd, half), NEW val \in Square(half)
    PROVE  \E lr : /\ IsPass(lr, val, half, sd)
                   /\ FeistelPass(val, half, sd) = lr[6][1] * half + lr[6][2]
<1> DEFINE start == <<val \div half, val % half>>
           step == [r \in 1..6 |-> [p \in Halves(half) |-> Round(r, p, half, sd)]]
           Body(f, r) ==
              IF r = 0 THEN start
              ELSE LET left  == f[r - 1][1]
                       right == f[r - 1][2]
                   IN  IF r % 2 = 1
                       THEN <<left, (right + FeistelRoundFn(sd, r, left, half)) % half>>
                       ELSE <<(left + FeistelRoundFn(sd, r, right, half)) % half, right>>
           Eq(f) == f = [r \in 0..6 |-> Body(f, r)]
           h == CHOOSE f : Eq(f)
<1>1. step \in [1..6 -> [Halves(half) -> Halves(half)]]
  BY RoundType
<1>2. start \in Halves(half)
  BY SplitSquare
<1>3. PICK g \in [0..6 -> Halves(half)] : Iterates(g, 6, start, step)
  <2> HIDE DEF start, step
  <2> QED BY <1>1, <1>2, Iteration
<1>4. \A f, r : r # 0 => Body(f, r) = Round(r, f[r - 1], half, sd)
  BY DEF Round
<1>5. \A f : Body(f, 0) = start
  OBVIOUS
<1> HIDE DEF Body, start
<1>6. g[0] = start /\ \A r \in 1..6 : g[r] = Round(r, g[r - 1], half, sd)
  BY <1>3 DEF Iterates
<1>7. \A r \in 0..6 : g[r] = Body(g, r)
  BY <1>4, <1>5, <1>6
<1>8. Eq(g)
  BY <1>3, <1>7
<1>9. Eq(h)
  <2> HIDE DEF Eq
  <2> QED BY <1>8, Zenon
<1>10. FeistelPass(val, half, sd) = h[6][1] * half + h[6][2]
  BY Zenon DEF FeistelPass, Body, start
<1> HIDE DEF h
<1>11. h[0] = start /\ \A r \in 1..6 : h[r] = Round(r, h[r - 1], half, sd)
  BY <1>4, <1>5, <1>9
<1>12. h[0] \in Halves(half)
  BY <1>2, <1>11
<1>13. \A r \in 1..6 : h[r - 1] \in Halves(half) => h[r] \in Halves(half)
  BY <1>11, RoundType
<1>14. \A r \in 0..6 : h[r] \in Halves(half)
  <2>1. h[1] \in Halves(half)
    BY <1>12, <1>13
  <2>2. h[2] \in Halves(half)
    BY <2>1, <1>13
  <2>3. h[3] \in Halves(half)
    BY <2>2, <1>13
  <2>4. h[4] \in Halves(half)
    BY <2>3, <1>13
  <2>5. h[5] \in Halves(half)
    BY <2>4, <1>13
  <2>6. h[6] \in Halves(half)
    BY <2>5, <1>13
  <2> QED BY <1>12, <2>1, <2>2, <2>3, <2>4, <2>5, <2>6
<1> QED
  BY <1>10, <1>11, <1>14 DEF IsPass, start

\* feistel_permute, one pass: it stays in the square and no two values of
\* it are mapped to the same, whatever the six round functions are.
THEOREM PassIsInjective ==
    ASSUME NEW half \in Nat, half > 0, NEW sd, Rounds(sd, half)
    PROVE  /\ \A v \in Square(half) : FeistelPass(v, half, sd) \in Square(half)
           /\ \A v, w \in Square(half) :
                 FeistelPass(v, half, sd) = FeistelPass(w, half, sd) => v = w
<1>1. ASSUME NEW v \in Square(half) PROVE FeistelPass(v, half, sd) \in Square(half)
  <2>1. PICK a : IsPass(a, v, half, sd) /\ FeistelPass(v, half, sd) = a[6][1] * half + a[6][2]
    BY FeistelPassRuns
  <2>2. a[6] \in Halves(half)
    BY <2>1 DEF IsPass
  <2> QED BY <2>1, <2>2, JoinSquare
<1>2. ASSUME NEW v \in Square(half), NEW w \in Square(half),
             FeistelPass(v, half, sd) = FeistelPass(w, half, sd)
      PROVE  v = w
  <2>1. PICK a : IsPass(a, v, half, sd) /\ FeistelPass(v, half, sd) = a[6][1] * half + a[6][2]
    BY FeistelPassRuns
  <2>2. PICK b : IsPass(b, w, half, sd) /\ FeistelPass(w, half, sd) = b[6][1] * half + b[6][2]
    BY FeistelPassRuns
  <2>3. \A r \in 0..6 : a[r] \in Halves(half) /\ b[r] \in Halves(half)
    BY <2>1, <2>2 DEF IsPass
  <2>4. a[6] = b[6]
    <3>0. a[6] \in Halves(half) /\ b[6] \in Halves(half)
      BY <2>3
    <3>1. /\ a[6][1] \in Int /\ b[6][1] \in Int
          /\ a[6][2] \in 0..(half - 1) /\ b[6][2] \in 0..(half - 1)
          /\ a[6] = <<a[6][1], a[6][2]>> /\ b[6] = <<b[6][1], b[6][2]>>
      BY <3>0 DEF Halves
    <3>2. a[6][1] * half + a[6][2] = b[6][1] * half + b[6][2]
      BY <1>2, <2>1, <2>2
    <3>3. a[6][1] = b[6][1] /\ a[6][2] = b[6][2]
      BY <3>1, <3>2, DivModUnique, SMTT(40)
    <3> QED BY <3>1, <3>3
  <2>5. \A r \in 1..6 : a[r] = b[r] => a[r - 1] = b[r - 1]
    <3> SUFFICES ASSUME NEW r \in 1..6, a[r] = b[r] PROVE a[r - 1] = b[r - 1]
      OBVIOUS
    <3>1. a[r - 1] \in Halves(half) /\ b[r - 1] \in Halves(half)
      BY <2>3
    <3>2. Round(r, a[r - 1], half, sd) = Round(r, b[r - 1], half, sd)
      BY <2>1, <2>2 DEF IsPass
    <3> QED BY <3>1, <3>2, RoundInjective
  <2>6. a[0] = b[0]
    <3>1. a[5] = b[5]
      BY <2>4, <2>5
    <3>2. a[4] = b[4]
      BY <3>1, <2>5
    <3>3. a[3] = b[3]
      BY <3>2, <2>5
    <3>4. a[2] = b[2]
      BY <3>3, <2>5
    <3>5. a[1] = b[1]
      BY <3>4, <2>5
    <3> QED BY <3>5, <2>5
  <2>7. v \div half = w \div half /\ v % half = w % half
    BY <2>1, <2>2, <2>6 DEF IsPass
  <2>8. v = (v \div half) * half + (v % half) /\ w = (w \div half) * half + (w % half)
    BY SplitSquare
  <2> QED BY <2>7, <2>8
<1> QED BY <1>1, <1>2

(***************************************************************************)
(* Cycle walking                                                           *)
(***************************************************************************)
\* The values of the walk from idx, one per attempt.
IsWalk(att, idx, half, sd) ==
    /\ att[0] = idx
    /\ \A r \in 0..WalkLimit : att[r] \in Square(half)
    /\ \A r \in 1..WalkLimit : att[r] = FeistelPass(att[r - 1], half, sd)

\* The attempts from l on that are the first in the domain.
Hits(att, d, l) ==
    {j \in l..WalkLimit : att[j] < d /\ \A m \in l..(j - 1) : ~(att[m] < d)}

Found(att, d, l) == {att[j] : j \in Hits(att, d, l)}

LEMMA LimitType == WalkLimit \in Nat /\ WalkLimit > 0
BY DEF WalkLimit

LEMMA HitsStep ==
    ASSUME NEW att, NEW d, NEW l \in 1..WalkLimit
    PROVE  Found(att, d, l) =
              IF att[l] < d THEN {att[l]}
              ELSE IF l = WalkLimit THEN {} ELSE Found(att, d, l + 1)
<1> USE LimitType DEF Found
<1>1. CASE att[l] < d
  <2>1. \A j : j \in Hits(att, d, l) <=> j = l
    <3>1. l \in Hits(att, d, l)
      BY <1>1 DEF Hits
    <3>2. ASSUME NEW j \in Hits(att, d, l), j # l PROVE FALSE
      <4>1. j \in l..WalkLimit /\ \A m \in l..(j - 1) : ~(att[m] < d)
        BY DEF Hits
      <4>2. l \in l..(j - 1)
        BY <3>2, <4>1
      <4> QED BY <1>1, <4>1, <4>2
    <3> QED BY <3>1, <3>2
  <2>2. Hits(att, d, l) = {l}
    BY <2>1
  <2> QED BY <1>1, <2>2
<1>2. CASE ~(att[l] < d) /\ l = WalkLimit
  <2>1. Hits(att, d, l) = {}
    BY <1>2 DEF Hits
  <2> QED BY <1>2, <2>1
<1>3. CASE ~(att[l] < d) /\ l # WalkLimit
  <2>1. ASSUME NEW j, j \in Hits(att, d, l) PROVE j \in Hits(att, d, l + 1)
    <3>1. j \in l..WalkLimit /\ att[j] < d /\ \A m \in l..(j - 1) : ~(att[m] < d)
      BY <2>1 DEF Hits
    <3>2. j # l
      BY <1>3, <3>1
    <3>3. j \in (l + 1)..WalkLimit /\ \A m \in (l + 1)..(j - 1) : m \in l..(j - 1)
      BY <3>1, <3>2
    <3> QED BY <3>1, <3>3 DEF Hits
  <2>2. ASSUME NEW j, j \in Hits(att, d, l + 1) PROVE j \in Hits(att, d, l)
    <3>1. j \in (l + 1)..WalkLimit /\ att[j] < d /\ \A m \in (l + 1)..(j - 1) : ~(att[m] < d)
      BY <2>2 DEF Hits
    <3>2. j \in l..WalkLimit /\ \A m \in l..(j - 1) : m = l \/ m \in (l + 1)..(j - 1)
      BY <3>1
    <3> QED BY <1>3, <3>1, <3>2 DEF Hits
  <2>3. Hits(att, d, l) = Hits(att, d, l + 1)
    BY <2>1, <2>2
  <2> QED BY <1>3, <2>3
<1> QED BY <1>1, <1>2, <1>3

LEMMA WalkRuns ==
    ASSUME NEW d \in Nat, d > 1, NEW sd, Rounds(sd, IsqrtCeil(d)), NEW idx \in 0..(d - 1)
    PROVE  \E att : /\ IsWalk(att, idx, IsqrtCeil(d), sd)
                    /\ FeistelPermute(idx, d, sd) = Found(att, d, 1)
<1> DEFINE half == IsqrtCeil(d)
           pass == [v \in 0..(half * half - 1) |-> FeistelPass(v, half, sd)]
           step == [r \in 1..WalkLimit |-> pass]
           ABody(f, r) == IF r = 0 THEN idx ELSE pass[f[r - 1]]
           AEq(f) == f = [r \in 0..WalkLimit |-> ABody(f, r)]
           att == CHOOSE f : AEq(f)
           WBody(f, r) == IF att[r] < d THEN {att[r]}
                          ELSE IF r = WalkLimit THEN {} ELSE f[r + 1]
           WEq(f) == f = [r \in 1..WalkLimit |-> WBody(f, r)]
           walk == CHOOSE f : WEq(f)
<1>1. half \in Nat /\ half > 1 /\ d <= half * half
  BY IsqrtCeilBounds
<1>2. FeistelPermute(idx, d, sd) = walk[1]
  <2>1. ~(d <= 1)
    OBVIOUS
  <2> QED BY <2>1, Zenon DEF FeistelPermute
<1> USE LimitType
<1> HIDE DEF half
<1>3. pass \in [Square(half) -> Square(half)]
  BY <1>1, PassIsInjective DEF Square, half
<1>4. idx \in Square(half)
  BY <1>1 DEF Square
<1>5. \A v \in Square(half) : pass[v] = FeistelPass(v, half, sd)
  BY DEF Square
<1> HIDE DEF pass
<1>6. PICK g \in [0..WalkLimit -> Square(half)] : Iterates(g, WalkLimit, idx, step)
  <2>1. step \in [1..WalkLimit -> [Square(half) -> Square(half)]]
    BY <1>3
  <2> HIDE DEF step
  <2> QED BY <1>4, <2>1, Iteration
<1>7. AEq(g)
  <2>1. g[0] = idx /\ \A r \in 1..WalkLimit : g[r] = pass[g[r - 1]]
    BY <1>6 DEF Iterates
  <2>2. \A r \in 0..WalkLimit : g[r] = ABody(g, r)
    BY <2>1
  <2> HIDE DEF ABody
  <2> QED BY <1>6, <2>2
<1>8. AEq(att)
  <2> HIDE DEF AEq
  <2> QED BY <1>7, Zenon
<1> HIDE DEF att
<1>9. att[0] = idx /\ \A r \in 1..WalkLimit : att[r] = pass[att[r - 1]]
  <2>1. \A r \in 0..WalkLimit : att[r] = ABody(att, r)
    <3> HIDE DEF ABody
    <3> QED BY <1>8
  <2> QED BY <2>1
<1>10. \A r \in 0..WalkLimit : att[r] \in Square(half)
  <2> DEFINE G == {r \in 0..WalkLimit : att[r] \in Square(half)}
  <2>1. 0 \in G
    BY <1>4, <1>9
  <2>2. \A r \in 0..WalkLimit : r \in G /\ r < WalkLimit => r + 1 \in G
    <3> SUFFICES ASSUME NEW r \in 0..WalkLimit, r \in G, r < WalkLimit PROVE r + 1 \in G
      OBVIOUS
    <3>1. r + 1 \in 1..WalkLimit /\ r + 1 - 1 = r
      OBVIOUS
    <3>2. att[r + 1] = pass[att[r]]
      BY <1>9, <3>1
    <3>3. att[r] \in Square(half)
      OBVIOUS
    <3>4. att[r + 1] \in Square(half)
      BY <1>3, <3>2, <3>3
    <3> QED BY <3>1, <3>4
  <2> HIDE DEF G
  <2>3. \A r \in 0..WalkLimit : r \in G
    BY <2>1, <2>2, BoundedInduction
  <2> QED BY <2>3 DEF G
<1>11. IsWalk(att, idx, half, sd)
  <2>1. \A r \in 1..WalkLimit : r - 1 \in 0..WalkLimit
    OBVIOUS
  <2> QED BY <1>5, <1>9, <1>10, <2>1 DEF IsWalk
<1> DEFINE hits == [r \in 1..WalkLimit |-> Found(att, d, r)]
<1>12. \A r \in 1..WalkLimit : hits[r] = WBody(hits, r)
  <2> SUFFICES ASSUME NEW r \in 1..WalkLimit PROVE hits[r] = WBody(hits, r)
    OBVIOUS
  <2>1. hits[r] = Found(att, d, r)
    OBVIOUS
  <2>2. r # WalkLimit => hits[r + 1] = Found(att, d, r + 1)
    OBVIOUS
  <2>3. hits[r] = IF att[r] < d THEN {att[r]}
                  ELSE IF r = WalkLimit THEN {} ELSE Found(att, d, r + 1)
    <3> HIDE DEF hits
    <3> QED BY <2>1, HitsStep
  <2> HIDE DEF hits
  <2> QED BY <2>2, <2>3, Zenon
<1>13. WEq(hits)
  <2> HIDE DEF WBody
  <2>1. hits = [r \in 1..WalkLimit |-> hits[r]]
    OBVIOUS
  <2> HIDE DEF hits
  <2> QED BY <1>12, <2>1
<1>14. WEq(walk)
  <2> HIDE DEF WEq, hits
  <2> QED BY <1>13, Zenon
<1> HIDE DEF walk
<1>15. \A r \in 1..WalkLimit : walk[r] = WBody(walk, r)
  <2> HIDE DEF WBody
  <2> QED BY <1>14
<1> HIDE DEF hits
<1> DEFINE G == {t \in 0..(WalkLimit - 1) : walk[WalkLimit - t] = hits[WalkLimit - t]}
<1>16. 0 \in G
  <2>0. WalkLimit \in 1..WalkLimit
    OBVIOUS
  <2>1. walk[WalkLimit] = hits[WalkLimit]
    BY <1>12, <1>15, <2>0, Zenon
  <2> QED BY <2>1
<1>17. \A t \in 0..(WalkLimit - 1) : t \in G /\ t < WalkLimit - 1 => t + 1 \in G
  <2> SUFFICES ASSUME NEW t \in 0..(WalkLimit - 1), t \in G, t < WalkLimit - 1
               PROVE  t + 1 \in G
    OBVIOUS
  <2> DEFINE r == WalkLimit - (t + 1)
  <2>1. r \in 1..WalkLimit /\ r + 1 = WalkLimit - t
    OBVIOUS
  <2>2. walk[r + 1] = hits[r + 1]
    BY <2>1
  <2>3. walk[r] = hits[r]
    BY <1>12, <1>15, <2>1, <2>2
  <2> QED BY <2>3
<1>18. WalkLimit - 1 \in G
  <2>1. \A t \in 0..(WalkLimit - 1) : t \in G
    <3> DEFINE m == WalkLimit - 1
    <3>1. m \in Nat /\ \A t \in 0..m : t \in G /\ t < m => t + 1 \in G
      BY <1>17
    <3> HIDE DEF m, G
    <3>2. \A t \in 0..m : t \in G
      BY <1>16, <3>1, BoundedInduction
    <3> QED BY <3>2 DEF m
  <2> QED BY <2>1
<1>19. walk[1] = hits[1]
  BY <1>18
<1>20. hits[1] = Found(att, d, 1)
  BY DEF hits
<1> QED
  BY <1>2, <1>11, <1>19, <1>20 DEF half

\* Two walks that meet can be followed back together until one is at its start.
LEMMA WalkBack ==
    ASSUME NEW half \in Nat, half > 0, NEW sd, Rounds(sd, half),
           NEW a, NEW x, IsWalk(a, x, half, sd),
           NEW b, NEW y, IsWalk(b, y, half, sd),
           NEW j \in 0..WalkLimit, NEW l \in 0..WalkLimit, j <= l, a[j] = b[l]
    PROVE  x = b[l - j]
<1> USE LimitType
<1> DEFINE G == {t \in 0..j : a[j - t] = b[l - t]}
<1>1. 0 \in G
  OBVIOUS
<1>2. \A t \in 0..j : t \in G /\ t < j => t + 1 \in G
  <2> SUFFICES ASSUME NEW t \in 0..j, t \in G, t < j PROVE t + 1 \in G
    OBVIOUS
  <2> DEFINE u == j - t
             w == l - t
  <2>1. u \in 1..WalkLimit /\ w \in 1..WalkLimit /\ u - 1 \in 0..WalkLimit /\ w - 1 \in 0..WalkLimit
    OBVIOUS
  <2>2. a[u] = b[w]
    OBVIOUS
  <2>3. j - (t + 1) = u - 1 /\ l - (t + 1) = w - 1
    OBVIOUS
  <2> HIDE DEF u, w, G
  <2>4. FeistelPass(a[u - 1], half, sd) = FeistelPass(b[w - 1], half, sd)
    BY <2>1, <2>2 DEF IsWalk
  <2>5. a[u - 1] \in Square(half) /\ b[w - 1] \in Square(half)
    BY <2>1 DEF IsWalk
  <2>6. a[u - 1] = b[w - 1]
    BY <2>4, <2>5, PassIsInjective
  <2> QED BY <2>3, <2>6 DEF G
<1>3. \A t \in 0..j : t \in G
  <2> HIDE DEF G
  <2> QED BY <1>1, <1>2, BoundedInduction
<1>4. a[0] = b[l - j]
  BY <1>3
<1> QED BY <1>4 DEF IsWalk

\* Fewer values of the square are outside the domain than there are attempts.
WithinLimit(d) == IsqrtCeil(d) * IsqrtCeil(d) - d < WalkLimit

LongestSchedule == 250 * 1000

LEMMA UpToLongest ==
    ASSUME NEW d \in Nat, d <= LongestSchedule
    PROVE  WithinLimit(d)
<1>1. CASE d <= 1
  <2>1. IsqrtCeil(d) = d /\ (d = 0 \/ d = 1)
    BY <1>1 DEF IsqrtCeil
  <2> QED BY <2>1 DEF WithinLimit, WalkLimit
<1>2. CASE d > 1
  <2> DEFINE half == IsqrtCeil(d)
  <2>1. half \in Nat /\ half > 1 /\ half * half - d <= 2 * half - 2
    BY <1>2, IsqrtCeilBounds
  <2> HIDE DEF half
  <2>2. half <= 500
    <3> SUFFICES ASSUME half >= 501 PROVE FALSE
      BY <2>1
    <3>1. half * half >= 501 * half
      BY <2>1
    <3>2. half * half \in Int
      BY <2>1
    <3> QED BY <2>1, <3>1, <3>2, SMT DEF LongestSchedule
  <2>3. half * half \in Int
    BY <2>1
  <2>4. half * half - d < WalkLimit
    BY <2>1, <2>2, <2>3 DEF WalkLimit
  <2> QED BY <2>4 DEF WithinLimit, half
<1> QED BY <1>1, <1>2

\* The walk cannot stay outside: it would visit a value twice, and followed back
\* from there it would have started outside.
LEMMA WalkEnds ==
    ASSUME NEW d \in Nat, d > 1, WithinLimit(d), NEW sd, Rounds(sd, IsqrtCeil(d)),
           NEW idx \in 0..(d - 1), NEW att, IsWalk(att, idx, IsqrtCeil(d), sd)
    PROVE  \E j \in 1..WalkLimit : att[j] < d
<1> DEFINE half == IsqrtCeil(d)
           S == 1..WalkLimit
           T == d..(half * half - 1)
<1> USE LimitType
<1>0. half \in Nat /\ half > 0 /\ d <= half * half
  BY IsqrtCeilBounds
<1>a. half * half - d < WalkLimit
  BY DEF WithinLimit
<1> HIDE DEF half
<1> SUFFICES ASSUME \A j \in S : ~(att[j] < d) PROVE FALSE
  OBVIOUS
<1>1. \A j \in S : att[j] \in T
  <2>1. \A j \in S : att[j] \in Square(half)
    BY DEF IsWalk, half
  <2> QED BY <1>0, <2>1 DEF Square
<1>2. IsFiniteSet(S) /\ Cardinality(S) = WalkLimit
  <2>1. PICK one \in Int : one = 1
    OBVIOUS
  <2>2. S = one..(one + WalkLimit - 1)
    BY <2>1
  <2> QED BY <2>2, IntervalSize
<1>3. half * half - 1 \in Int
  BY <1>0
<1>4. IsFiniteSet(T) /\ Cardinality(T) = half * half - d
  <2> DEFINE e == half * half - 1
  <2>1. e \in Int /\ d <= e + 1 /\ half * half = e + 1
    BY <1>0, <1>3
  <2> HIDE DEF e
  <2>2. IsFiniteSet(d..e) /\ Cardinality(d..e) = IF d > e THEN 0 ELSE e - d + 1
    BY <2>1, FS_Interval
  <2>3. Cardinality(d..e) = e + 1 - d
    BY <2>1, <2>2
  <2> QED BY <2>1, <2>2, <2>3 DEF e
<1> DEFINE f == [j \in S |-> att[j]]
<1>5. f \in [S -> T]
  BY <1>1
<1> HIDE DEF T, f
<1>6. Cardinality(T) < Cardinality(S)
  BY <1>a, <1>2, <1>4
<1>7. PICK x, y \in S : x # y /\ f[x] = f[y]
  <2> HIDE DEF S
  <2> QED BY <1>2, <1>4, <1>5, <1>6, FS_PigeonHole
<1>8. att[x] = att[y]
  BY <1>7 DEF f
<1>9. \A j, l \in S : j < l /\ att[j] = att[l] => FALSE
  <2> SUFFICES ASSUME NEW j \in S, NEW l \in S, j < l, att[j] = att[l] PROVE FALSE
    OBVIOUS
  <2>1. idx = att[l - j]
    <3>1. j \in 0..WalkLimit /\ l \in 0..WalkLimit /\ j <= l
      OBVIOUS
    <3>2. Rounds(sd, half) /\ IsWalk(att, idx, half, sd)
      BY DEF half
    <3> QED BY <1>0, <3>1, <3>2, WalkBack
  <2>2. l - j \in S
    OBVIOUS
  <2> QED BY <2>1, <2>2
<1>10. x < y \/ y < x
  BY <1>7
<1> QED BY <1>8, <1>9, <1>10

LEMMA FirstHit ==
    ASSUME NEW att, NEW d, \E j \in 1..WalkLimit : att[j] < d
    PROVE  \E j \in Hits(att, d, 1) : Found(att, d, 1) = {att[j]}
<1> USE LimitType
<1> DEFINE G == {m \in Nat : \A j \in 1..m : j <= WalkLimit => ~(att[j] < d)}
<1>1. \E j \in Hits(att, d, 1) : TRUE
  <2> SUFFICES ASSUME \A j \in 1..WalkLimit : j \notin Hits(att, d, 1) PROVE FALSE
    BY DEF Hits
  <2>1. 0 \in G
    OBVIOUS
  <2>2. ASSUME NEW m \in G PROVE m + 1 \in G
    <3>1. m \in Nat /\ \A j \in 1..m : j <= WalkLimit => ~(att[j] < d)
      OBVIOUS
    <3>2. m + 1 <= WalkLimit => ~(att[m + 1] < d)
      <4> SUFFICES ASSUME m + 1 <= WalkLimit, att[m + 1] < d PROVE FALSE
        OBVIOUS
      <4>1. m + 1 \in 1..WalkLimit /\ m + 1 - 1 = m
        BY <3>1
      <4>2. m + 1 \in Hits(att, d, 1)
        BY <3>1, <4>1 DEF Hits
      <4> QED BY <4>1, <4>2
    <3>3. \A j \in 1..(m + 1) : j = m + 1 \/ j \in 1..m
      BY <3>1
    <3> QED BY <3>1, <3>2, <3>3
  <2>3. G = Nat
    <3>1. G \in SUBSET Nat
      OBVIOUS
    <3> HIDE DEF G
    <3> QED BY <2>1, <2>2, <3>1, SetInduction
  <2>4. WalkLimit \in G
    BY <2>3
  <2> QED BY <2>4
<1>2. PICK j \in Hits(att, d, 1) : TRUE
  BY <1>1
<1>3. ASSUME NEW l \in Hits(att, d, 1) PROVE l = j
  <2>1. /\ j \in 1..WalkLimit /\ att[j] < d /\ \A m \in 1..(j - 1) : ~(att[m] < d)
        /\ l \in 1..WalkLimit /\ att[l] < d /\ \A m \in 1..(l - 1) : ~(att[m] < d)
    BY DEF Hits
  <2>2. ~(j < l) /\ ~(l < j)
    BY <2>1
  <2> QED BY <2>1, <2>2
<1>4. Hits(att, d, 1) = {j}
  BY <1>3
<1> QED BY <1>4 DEF Found

\* What feistel_permute computes, as a function on the domain.
IsPermute(f, d, sd) ==
    \A idx \in 0..(d - 1) : FeistelPermute(idx, d, sd) = {f[idx]}

\* feistel_permute: with fewer values outside the domain than attempts (any domain
\* of at most 250000 matches) the walk never gives up, and the result is a
\* bijection of the match indices, whatever the round functions are.
THEOREM PermuteIsBijective ==
    ASSUME NEW d \in Nat, d > 0, WithinLimit(d), NEW sd, Rounds(sd, IsqrtCeil(d))
    PROVE  \E f \in Bijection(0..(d - 1), 0..(d - 1)) : IsPermute(f, d, sd)
<1> USE LimitType
<1> DEFINE D == 0..(d - 1)
<1>1. CASE d = 1
  <2> DEFINE f == [x \in D |-> 0]
  <2>1. D = {0}
    BY <1>1
  <2>2. f \in Bijection(D, D)
    BY <2>1 DEF Bijection, Injection, Surjection, IsInjective
  <2>3. IsPermute(f, d, sd)
    BY <1>1, <2>1 DEF IsPermute, FeistelPermute
  <2> QED BY <2>2, <2>3
<1>2. CASE d > 1
  <2> DEFINE half == IsqrtCeil(d)
             Ends(idx, att, j) ==
                 /\ IsWalk(att, idx, half, sd)
                 /\ j \in Hits(att, d, 1)
                 /\ FeistelPermute(idx, d, sd) = {att[j]}
  <2>0. half \in Nat /\ half > 0
    BY <1>2, IsqrtCeilBounds
  <2>1. ASSUME NEW idx \in D PROVE \E att : \E j : Ends(idx, att, j)
    <3>1. PICK att : IsWalk(att, idx, half, sd) /\ FeistelPermute(idx, d, sd) = Found(att, d, 1)
      BY <1>2, WalkRuns
    <3>2. \E j \in 1..WalkLimit : att[j] < d
      BY <1>2, <3>1, WalkEnds
    <3> QED BY <3>1, <3>2, FirstHit
  <2> HIDE DEF half
  <2> DEFINE f == [idx \in D |-> CHOOSE v : FeistelPermute(idx, d, sd) = {v}]
  <2>2. \A idx \in D : FeistelPermute(idx, d, sd) = {f[idx]}
    <3> SUFFICES ASSUME NEW idx \in D PROVE FeistelPermute(idx, d, sd) = {f[idx]}
      OBVIOUS
    <3>1. \E v : FeistelPermute(idx, d, sd) = {v}
      BY <2>1
    <3> QED BY <3>1
  <2>3. \A idx \in D : \E att : \E j : Ends(idx, att, j) /\ f[idx] = att[j]
    <3> HIDE DEF f
    <3> QED BY <2>1, <2>2
  <2>4. f \in [D -> D]
    <3> SUFFICES ASSUME NEW idx \in D PROVE f[idx] \in D
      OBVIOUS
    <3>1. PICK att, j : Ends(idx, att, j) /\ f[idx] = att[j]
      BY <2>3
    <3> HIDE DEF f
    <3>2. j \in 1..WalkLimit /\ att[j] < d
      BY <3>1 DEF Hits
    <3>3. att[j] \in Square(half)
      BY <3>1, <3>2 DEF IsWalk
    <3>4. half * half - 1 \in Int
      BY <2>0
    <3> QED BY <3>1, <3>2, <3>3, <3>4 DEF Square
  <2> HIDE DEF f
  <2>5. \A x, y \in D : f[x] = f[y] => x = y
    <3>1. \A x, y \in D : \A a, b, j, l :
             Ends(x, a, j) /\ Ends(y, b, l) /\ a[j] = b[l] /\ j <= l => x = y
      <4> SUFFICES ASSUME NEW x \in D, NEW y \in D, NEW a, NEW b, NEW j, NEW l,
                          Ends(x, a, j), Ends(y, b, l), a[j] = b[l], j <= l
                   PROVE  x = y
        OBVIOUS
      <4>1. j \in 0..WalkLimit /\ l \in 0..WalkLimit /\ \A m \in 1..(l - 1) : ~(b[m] < d)
        BY DEF Hits
      <4>2. IsWalk(a, x, half, sd) /\ IsWalk(b, y, half, sd)
        OBVIOUS
      <4>3. Rounds(sd, half)
        BY DEF half
      <4>4. j >= 1
        BY DEF Hits
      <4> HIDE DEF Ends
      <4>5. x = b[l - j]
        BY <2>0, <4>1, <4>2, <4>3, WalkBack
      <4>6. l = j
        <5> SUFFICES ASSUME l # j PROVE FALSE
          OBVIOUS
        <5>1. l - j \in 1..(l - 1)
          BY <4>1, <4>4
        <5> QED BY <4>1, <4>5, <5>1
      <4>7. x = b[0]
        BY <4>1, <4>5, <4>6
      <4> QED BY <4>2, <4>7 DEF IsWalk
    <3> SUFFICES ASSUME NEW x \in D, NEW y \in D, f[x] = f[y] PROVE x = y
      OBVIOUS
    <3>2. PICK a, j : Ends(x, a, j) /\ f[x] = a[j]
      BY <2>3
    <3>3. PICK b, l : Ends(y, b, l) /\ f[y] = b[l]
      BY <2>3
    <3>4. j \in 1..WalkLimit /\ l \in 1..WalkLimit
      BY <3>2, <3>3 DEF Hits
    <3>5. j <= l \/ l <= j
      BY <3>4
    <3> HIDE DEF Ends
    <3> QED BY <3>1, <3>2, <3>3, <3>5
  <2>6. f \in Injection(D, D)
    BY <2>4, <2>5 DEF Injection, IsInjective
  <2>7. f \in Surjection(D, D)
    <3>1. IsFiniteSet(D)
      BY FS_Interval
    <3> HIDE DEF D
    <3> QED BY <2>6, <3>1, FS_Injection
  <2> QED BY <2>2, <2>6, <2>7 DEF IsPermute, Bijection
<1> QED BY <1>1, <1>2

(***************************************************************************)
(* Floyd's sampling                                                        *)
(***************************************************************************)
Draws(sd, m) == \A c \in 1..m : sd.draw[c] \in Nat

LEMMA AvailableBounds ==
    ASSUME NEW p \in Nat, p >= 2
    PROVE  Available(p) \in Nat /\ 2 * Available(p) < p
BY DEF Available

LEMMA OffsetsType ==
    ASSUME NEW p \in Nat, p >= 2, NEW q \in Nat
    PROVE  /\ OffsetsToUse(p, q) \in 0..Available(p)
           /\ Lesser(OffsetsToUse(p, q), MaxOffsets) \in 0..Available(p)
           /\ Lesser(OffsetsToUse(p, q), MaxOffsets) <= OffsetsToUse(p, q)
<1>1. Available(p) \in Nat /\ CeilDiv(q, 2) \in Nat
  BY AvailableBounds DEF CeilDiv
<1>2. OffsetsToUse(p, q) \in 0..Available(p)
  BY <1>1 DEF OffsetsToUse, Lesser
<1> QED BY <1>1, <1>2 DEF Lesser, MaxOffsets

\* A sample of c distinct numbers up to top.
IsSample(s, c, top) ==
    /\ s \in Seq(Nat) /\ Len(s) = c
    /\ \A a \in 1..c : s[a] \in 1..top
    /\ \A a, b \in 1..c : s[a] = s[b] => a = b

\* The next element: the draw, or if the sample has it the new largest number.
Sampled(s, c, top, t) == Append(s, IF \E a \in 1..(c - 1) : s[a] = t THEN top ELSE t)

LEMMA SampleGrows ==
    ASSUME NEW c \in Nat, c > 0, NEW top \in Nat, top > 0, NEW t \in 1..top,
           NEW s, IsSample(s, c - 1, top - 1)
    PROVE  IsSample(Sampled(s, c, top, t), c, top)
<1> DEFINE v == IF \E a \in 1..(c - 1) : s[a] = t THEN top ELSE t
           z == Append(s, v)
<1>0. s \in Seq(Nat) /\ Len(s) = c - 1
  BY DEF IsSample
<1>1. v \in 1..top /\ v \in Nat
  OBVIOUS
<1>2. \A a \in 1..(c - 1) : s[a] \in 1..(top - 1) /\ s[a] # v
  BY DEF IsSample
<1> HIDE DEF v
<1>3. /\ z \in Seq(Nat) /\ Len(z) = c /\ z[c] = v
      /\ \A a \in 1..(c - 1) : z[a] = s[a]
  BY <1>0, <1>1
<1> HIDE DEF z
<1>4. \A a \in 1..c : a = c \/ a \in 1..(c - 1)
  OBVIOUS
<1>5. \A a \in 1..c : z[a] \in 1..top
  BY <1>1, <1>2, <1>3, <1>4
<1>6. \A a, b \in 1..c : z[a] = z[b] => a = b
  BY <1>2, <1>3, <1>4, SMTT(40) DEF IsSample
<1>7. IsSample(z, c, top)
  BY <1>3, <1>5, <1>6 DEF IsSample
<1> QED BY <1>7 DEF Sampled, z, v

\* select_offsets: the offsets are distinct and available, whatever is drawn.
LEMMA FloydDistinct ==
    ASSUME NEW p \in Nat, p >= 2, NEW q \in Nat, NEW sd, Draws(sd, OffsetsToUse(p, q))
    PROVE  IsSample(FloydSample(p, q, sd), Lesser(OffsetsToUse(p, q), MaxOffsets),
                    Available(p))
<1> DEFINE big == Available(p)
           m == Lesser(OffsetsToUse(p, q), MaxOffsets)
           top(c) == big - m + c
           t(c) == (sd.draw[c] % top(c)) + 1
           step == [c \in 1..m |-> [s \in Seq(Nat) |-> Sampled(s, c, top(c), t(c))]]
           Body(f, c) ==
              IF c = 0 THEN << >>
              ELSE LET j == big - m + c
                       u == (sd.draw[c] % j) + 1
                   IN  Append(f[c - 1],
                              IF \E a \in 1..(c - 1) : f[c - 1][a] = u THEN j ELSE u)
           Eq(f) == f = [c \in 0..m |-> Body(f, c)]
           h == CHOOSE f : Eq(f)
<1>1. big \in Nat /\ m \in 0..big /\ m <= OffsetsToUse(p, q) /\ OffsetsToUse(p, q) \in Nat
  BY OffsetsType, AvailableBounds
<1>2. FloydSample(p, q, sd) = h[m]
  BY Zenon DEF FloydSample
<1> HIDE DEF big, m
<1>3. \A c \in 1..m : top(c) \in Nat /\ top(c) > 0 /\ t(c) \in 1..top(c)
  <2> SUFFICES ASSUME NEW c \in 1..m PROVE top(c) \in Nat /\ top(c) > 0 /\ t(c) \in 1..top(c)
    OBVIOUS
  <2>1. top(c) \in Nat /\ top(c) > 0
    BY <1>1
  <2>2. sd.draw[c] \in Nat
    BY <1>1 DEF Draws
  <2> HIDE DEF top
  <2> DEFINE x == sd.draw[c]
  <2> HIDE DEF x
  <2>3. x % top(c) \in 0..(top(c) - 1)
    BY <2>1, <2>2, DivMod DEF x
  <2>4. (x % top(c)) + 1 \in 1..top(c)
    BY <2>1, <2>3
  <2> QED BY <2>1, <2>4 DEF x
<1>4. \A f, c : c # 0 => Body(f, c) = Sampled(f[c - 1], c, top(c), t(c))
  BY DEF Sampled
<1>5. \A f : Body(f, 0) = << >>
  OBVIOUS
<1> HIDE DEF Body, t
<1>6. PICK g \in [0..m -> Seq(Nat)] : Iterates(g, m, << >>, step)
  <2>1. ASSUME NEW c \in 1..m, NEW s \in Seq(Nat) PROVE Sampled(s, c, top(c), t(c)) \in Seq(Nat)
    <3>1. top(c) \in Nat /\ t(c) \in Nat
      BY <1>3
    <3> HIDE DEF top
    <3> QED BY <3>1 DEF Sampled
  <2>2. step \in [1..m -> [Seq(Nat) -> Seq(Nat)]]
    <3> HIDE DEF top
    <3> QED BY <2>1
  <2>3. << >> \in Seq(Nat) /\ m \in Nat
    BY <1>1
  <2> HIDE DEF step
  <2> QED BY <2>2, <2>3, Iteration
<1>7. g[0] = << >> /\ \A c \in 1..m : g[c] = Sampled(g[c - 1], c, top(c), t(c))
  <2> HIDE DEF top
  <2>1. \A c \in 1..m : g[c - 1] \in Seq(Nat)
    BY <1>1
  <2> QED BY <1>6, <2>1 DEF Iterates
<1>8. \A c \in 0..m : g[c] = Body(g, c)
  <2> HIDE DEF top
  <2> QED BY <1>1, <1>4, <1>5, <1>7, SMTT(40)
<1>9. Eq(g)
  BY <1>6, <1>8
<1>10. Eq(h)
  <2> HIDE DEF Eq
  <2> QED BY <1>9, Zenon
<1> HIDE DEF h
<1>11. h[0] = << >> /\ \A c \in 1..m : h[c] = Sampled(h[c - 1], c, top(c), t(c))
  <2>1. \A c \in 0..m : h[c] = Body(h, c)
    BY <1>10
  <2> HIDE DEF top
  <2>2. 0 \in 0..m /\ \A c \in 1..m : c \in 0..m /\ c # 0
    BY <1>1
  <2> QED BY <1>4, <1>5, <2>1, <2>2
<1> DEFINE G == {c \in 0..m : IsSample(h[c], c, top(c))}
<1>12. 0 \in G
  <2>1. \A x : IsSample(<< >>, 0, x)
    BY DEF IsSample
  <2>2. 0 \in 0..m
    BY <1>1
  <2> HIDE DEF top
  <2> QED BY <1>11, <2>1, <2>2
<1>13. \A c \in 0..m : c \in G /\ c < m => c + 1 \in G
  <2> SUFFICES ASSUME NEW c \in 0..m, c \in G, c < m PROVE c + 1 \in G
    OBVIOUS
  <2> DEFINE e == c + 1
  <2>1. e \in 1..m /\ e \in Nat /\ e > 0 /\ e - 1 = c /\ top(e) - 1 = top(c)
    BY <1>1
  <2>2. IsSample(h[e - 1], e - 1, top(e) - 1)
    BY <2>1
  <2> HIDE DEF e, top
  <2>3. top(e) \in Nat /\ top(e) > 0 /\ t(e) \in 1..top(e)
    BY <1>3, <2>1
  <2>4. h[e] = Sampled(h[e - 1], e, top(e), t(e))
    BY <1>11, <2>1
  <2>5. IsSample(h[e], e, top(e))
    BY <2>1, <2>2, <2>3, <2>4, SampleGrows
  <2> QED BY <2>1, <2>5 DEF e
<1>14. m \in G
  <2>1. m \in Nat
    BY <1>1
  <2> HIDE DEF G
  <2>2. \A c \in 0..m : c \in G
    BY <1>12, <1>13, <2>1, BoundedInduction
  <2> QED BY <2>1, <2>2
<1>15. top(m) = big
  BY <1>1
<1> QED
  BY <1>2, <1>14, <1>15 DEF m, big

\* An ascending order exists: each place is taken by the number with that rank.
LEMMA OrderExists ==
    ASSUME NEW c \in Nat, NEW top \in Nat, NEW s, IsSample(s, c, top)
    PROVE  \E p \in Bijection(1..c, 1..c) :
              \A a, b \in 1..c : a < b => s[p[a]] <= s[p[b]]
<1> DEFINE D == 1..c
           L(a) == {b \in D : s[b] <= s[a]}
           rank == [a \in D |-> Cardinality(L(a))]
<1>0. \A a \in D : s[a] \in Nat
  BY DEF IsSample
<1>1. IsFiniteSet(D) /\ Cardinality(D) = c
  <2>1. PICK one \in Int : one = 1
    OBVIOUS
  <2>2. D = one..(one + c - 1)
    BY <2>1
  <2> QED BY <2>2, IntervalSize
<1>2. \A a \in D : IsFiniteSet(L(a)) /\ Cardinality(L(a)) \in 1..c
  <2> SUFFICES ASSUME NEW a \in D PROVE IsFiniteSet(L(a)) /\ Cardinality(L(a)) \in 1..c
    OBVIOUS
  <2>1. L(a) \in SUBSET D /\ L(a) # {}
    BY <1>0
  <2> HIDE DEF L, D
  <2>2. IsFiniteSet(L(a)) /\ Cardinality(L(a)) <= c
    BY <1>1, <2>1, FS_Subset
  <2>3. Cardinality(L(a)) \in Nat /\ Cardinality(L(a)) # 0
    BY <2>1, <2>2, FS_CardinalityType, FS_EmptySet
  <2> QED BY <2>2, <2>3
<1>3. \A a, b \in D : s[a] < s[b] => Cardinality(L(a)) < Cardinality(L(b))
  <2> SUFFICES ASSUME NEW a \in D, NEW b \in D, s[a] < s[b]
               PROVE  Cardinality(L(a)) < Cardinality(L(b))
    OBVIOUS
  <2>1. L(a) \in SUBSET L(b) /\ b \in L(b) /\ b \notin L(a)
    BY <1>0
  <2> HIDE DEF L
  <2>2. Cardinality(L(a)) <= Cardinality(L(b)) /\ Cardinality(L(a)) # Cardinality(L(b))
    BY <1>2, <2>1, FS_Subset
  <2> QED BY <1>2, <2>2
<1>4. rank \in Injection(D, D)
  <2>1. rank \in [D -> D]
    BY <1>2
  <2>2. \A a, b \in D : rank[a] = rank[b] => a = b
    <3> SUFFICES ASSUME NEW a \in D, NEW b \in D, rank[a] = rank[b] PROVE a = b
      OBVIOUS
    <3>1. ~(s[a] < s[b]) /\ ~(s[b] < s[a])
      <4> HIDE DEF L
      <4> QED BY <1>2, <1>3
    <3>2. s[a] = s[b]
      BY <1>0, <3>1
    <3> QED BY <3>2 DEF IsSample
  <2> QED BY <2>1, <2>2 DEF Injection, IsInjective
<1>5. rank \in Surjection(D, D)
  <2> HIDE DEF rank, D
  <2> QED BY <1>1, <1>4, FS_Injection
<1> DEFINE p == [x \in D |-> CHOOSE a \in D : rank[a] = x]
<1>6. \A x \in D : p[x] \in D /\ rank[p[x]] = x
  <2> SUFFICES ASSUME NEW x \in D PROVE p[x] \in D /\ rank[p[x]] = x
    OBVIOUS
  <2>1. \E a \in D : rank[a] = x
    BY <1>5 DEF Surjection
  <2> HIDE DEF rank, D
  <2> QED BY <2>1
<1>7. \A a \in D : rank[a] \in D
  BY <1>4 DEF Injection
<1>8. \A a, b \in D : rank[a] = rank[b] => a = b
  BY <1>4 DEF Injection, IsInjective
<1>9. p \in [D -> D]
  BY <1>6
<1>10. \A a, b \in D : rank[a] < rank[b] => s[a] <= s[b]
  <2> SUFFICES ASSUME NEW a \in D, NEW b \in D, rank[a] < rank[b], s[b] < s[a] PROVE FALSE
    BY <1>0
  <2>1. rank[b] < rank[a]
    BY <1>3
  <2> HIDE DEF rank
  <2> QED BY <1>7, <2>1
<1> HIDE DEF rank, p
<1>11. p \in Bijection(D, D)
  <2>1. \A x, y \in D : p[x] = p[y] => x = y
    BY <1>6
  <2>2. \A a \in D : \E x \in D : p[x] = a
    BY <1>6, <1>7, <1>8
  <2> HIDE DEF D
  <2> QED BY <1>9, <2>1, <2>2 DEF Bijection, Injection, Surjection, IsInjective
<1>12. \A a, b \in D : a < b => s[p[a]] <= s[p[b]]
  BY <1>6, <1>10
<1> QED BY <1>11, <1>12

\* sort_unstable neither loses nor repeats an offset.
LEMMA SortedSample ==
    ASSUME NEW c \in Nat, NEW top \in Nat, NEW s, IsSample(s, c, top)
    PROVE  LET z == Sorted(s)
           IN  /\ z \in Injection(1..c, 1..top)
               /\ \A a, b \in 1..c : a < b => z[a] < z[b]
<1> DEFINE D == 1..c
           Ok(p) == \A a, b \in D : a < b => s[p[a]] <= s[p[b]]
           order == CHOOSE p \in Bijection(D, D) : Ok(p)
           z == [a \in D |-> s[order[a]]]
<1>0. DOMAIN s = D /\ s = [a \in D |-> s[a]]
  BY DEF IsSample
<1>1. \E p \in Bijection(D, D) : Ok(p)
  BY OrderExists
<1>2. order \in Bijection(D, D) /\ Ok(order)
  <2> HIDE DEF Ok, D
  <2> QED BY <1>1
<1>3. Sorted(s) = z
  BY <1>0 DEF Sorted
<1> HIDE DEF order
<1>4. \A a \in D : order[a] \in D
  BY <1>2 DEF Bijection, Surjection
<1>5. \A a, b \in D : order[a] = order[b] => a = b
  BY <1>2 DEF Bijection, Injection, IsInjective
<1>6. \A a \in D : z[a] = s[order[a]] /\ z[a] \in 1..top
  BY <1>4 DEF IsSample
<1>7. \A a, b \in D : z[a] = z[b] => a = b
  BY <1>4, <1>5, <1>6 DEF IsSample
<1>8. z \in [D -> 1..top]
  BY <1>6
<1> HIDE DEF z
<1>9. z \in Injection(D, 1..top)
  BY <1>7, <1>8 DEF Injection, IsInjective
<1>10. \A a, b \in D : a < b => z[a] < z[b]
  <2> SUFFICES ASSUME NEW a \in D, NEW b \in D, a < b PROVE z[a] < z[b]
    OBVIOUS
  <2>1. z[a] <= z[b]
    BY <1>2, <1>6
  <2>2. z[a] # z[b]
    BY <1>7
  <2> QED BY <1>6, <2>1, <2>2
<1> QED BY <1>3, <1>9, <1>10

(***************************************************************************)
(* Unranking pairs                                                         *)
(***************************************************************************)
\* Number of pairs below b, the rank of the first pair <<0, b>>.
Tri(b) == (b * (b - 1)) \div 2

LEMMA TriStep ==
    ASSUME NEW b \in Nat
    PROVE  Tri(b) \in Nat /\ 2 * Tri(b) = b * (b - 1) /\ Tri(b + 1) = Tri(b) + b
<1>1. b * (b - 1) \in Nat
  <2>1. CASE b = 0
    BY <2>1
  <2>2. CASE b > 0
    BY <2>2
  <2> QED BY <2>1, <2>2
<1>2. \E c \in Int : b * (b - 1) = 2 * c
  <2>1. PICK e \in Nat : b = 2 * e \/ b = 2 * e + 1
    <3>1. b = 2 * (b \div 2) \/ b = 2 * (b \div 2) + 1
      OBVIOUS
    <3>2. b \div 2 \in Nat
      OBVIOUS
    <3> QED BY <3>1, <3>2
  <2>2. CASE b = 2 * e
    <3>1. b * (b - 1) = 2 * (e * (b - 1)) /\ e * (b - 1) \in Int
      BY <2>2
    <3> QED BY <3>1
  <2>3. CASE b = 2 * e + 1
    <3>1. b * (b - 1) = 2 * (b * e) /\ b * e \in Int
      BY <2>3
    <3> QED BY <3>1
  <2> QED BY <2>1, <2>2, <2>3
<1>3. PICK c \in Int : b * (b - 1) = 2 * c
  BY <1>2
<1>4. Tri(b) = c /\ c \in Nat
  BY <1>1, <1>3 DEF Tri
<1>5. (b + 1) * (b + 1 - 1) = 2 * (c + b)
  <2>1. (b + 1) * b = b * (b - 1) + 2 * b
    OBVIOUS
  <2>2. b + 1 - 1 = b
    OBVIOUS
  <2> QED BY <1>3, <2>1, <2>2
<1>6. Tri(b + 1) = c + b
  BY <1>4, <1>5 DEF Tri
<1> QED BY <1>3, <1>4, <1>6

LEMMA TriMonotone ==
    ASSUME NEW a \in Nat, NEW b \in Nat, a <= b
    PROVE  Tri(a) <= Tri(b)
<1>1. 2 * Tri(a) = a * (a - 1) /\ 2 * Tri(b) = b * (b - 1) /\ Tri(a) \in Nat /\ Tri(b) \in Nat
  BY TriStep
<1>2. a * (a - 1) <= b * (b - 1)
  <2>1. b * (b - 1) - a * (a - 1) = (b - a) * (b + a - 1)
    OBVIOUS
  <2>2. (b - a) * (b + a - 1) >= 0
    <3>1. CASE a = b
      BY <3>1
    <3>2. CASE a < b
      <4>1. b - a \in Nat /\ b + a - 1 \in Nat
        BY <3>2
      <4> QED BY <4>1
    <3> QED BY <3>1, <3>2
  <2>3. b * (b - 1) \in Int /\ a * (a - 1) \in Int
    OBVIOUS
  <2> QED BY <2>1, <2>2, <2>3
<1> QED BY <1>1, <1>2

\* Row b of the pairs <<a, b>> in their order of rank holds r.
InRow(r, b) == b \in Nat /\ b > 0 /\ Tri(b) <= r /\ r < Tri(b + 1)

LEMMA RowExists ==
    ASSUME NEW r \in Nat
    PROVE  \E b \in Nat : InRow(r, b)
<1> DEFINE G == {x \in Nat : \E b \in Nat : InRow(x, b)}
<1>1. 0 \in G
  <2>1. InRow(0, 1)
    BY DEF InRow, Tri
  <2> QED BY <2>1
<1>2. ASSUME NEW x \in G PROVE x + 1 \in G
  <2>1. x \in Nat
    OBVIOUS
  <2>2. PICK b \in Nat : InRow(x, b)
    OBVIOUS
  <2>3. CASE x + 1 < Tri(b + 1)
    <3>1. InRow(x + 1, b)
      BY <2>1, <2>2, <2>3, TriStep DEF InRow
    <3> QED BY <2>1, <3>1
  <2>4. CASE ~(x + 1 < Tri(b + 1))
    <3>1. Tri(b + 1) \in Nat /\ Tri(b + 1 + 1) = Tri(b + 1) + b + 1
      <4> DEFINE c == b + 1
      <4>1. c \in Nat
        OBVIOUS
      <4> HIDE DEF c
      <4>2. Tri(c) \in Nat /\ Tri(c + 1) = Tri(c) + c
        BY <4>1, TriStep
      <4> QED BY <4>2 DEF c
    <3>2. InRow(x + 1, b + 1)
      BY <2>1, <2>2, <2>4, <3>1 DEF InRow
    <3> QED BY <2>1, <3>2
  <2> QED BY <2>3, <2>4
<1>3. G = Nat
  <2>1. G \in SUBSET Nat
    OBVIOUS
  <2> HIDE DEF G
  <2> QED BY <1>1, <1>2, <2>1, SetInduction
<1> QED
  BY <1>3

\* Which rows are below and above the one that holds r.
LEMMA RowOrder ==
    ASSUME NEW r \in Nat, NEW b \in Nat, InRow(r, b), NEW y \in Nat
    PROVE  /\ Tri(y) <= r <=> y <= b
           /\ Tri(y + 1) <= r <=> y < b
<1>1. \A z \in Nat : Tri(z) <= r <=> z <= b
  <2> SUFFICES ASSUME NEW z \in Nat PROVE Tri(z) <= r <=> z <= b
    OBVIOUS
  <2>0. Tri(b) <= r /\ r < Tri(b + 1) /\ Tri(b) \in Nat /\ Tri(b + 1) \in Nat /\ Tri(z) \in Nat
    <3>1. Tri(b) \in Nat /\ Tri(b + 1) = Tri(b) + b /\ Tri(z) \in Nat
      BY TriStep
    <3> QED BY <3>1 DEF InRow
  <2>1. CASE z <= b
    <3>1. Tri(z) <= Tri(b)
      BY <2>1, TriMonotone
    <3> QED BY <2>0, <2>1, <3>1
  <2>2. CASE z > b
    <3>1. b + 1 \in Nat /\ b + 1 <= z
      BY <2>2
    <3>2. Tri(b + 1) <= Tri(z)
      BY <3>1, TriMonotone
    <3> QED BY <2>0, <2>2, <3>2
  <2> QED BY <2>1, <2>2
<1>2. y + 1 \in Nat
  OBVIOUS
<1> QED BY <1>1, <1>2

\* The corrections lead from any estimate to the row.
LEMMA UnrankRow ==
    ASSUME NEW r \in Nat, NEW b \in Nat, InRow(r, b)
    PROVE  UnrankPair(r) = <<r - Tri(b), b>>
<1> DEFINE DBody(f, y) == IF y > 0 /\ (y * (y - 1)) \div 2 > r THEN f[y - 1] ELSE y
           DEq(f) == f = [y \in Nat |-> DBody(f, y)]
           down == CHOOSE f : DEq(f)
           UBody(f, y) == IF ((y + 1) * y) \div 2 <= r THEN f[y + 1] ELSE y
           UEq(f) == f = [y \in Nat |-> UBody(f, y)]
           up == CHOOSE f : UEq(f)
           guess == (1 + FloorSqrt(1 + 8 * r)) \div 2
           row == up[down[guess]]
<1>1. UnrankPair(r) = <<r - (row * (row - 1)) \div 2, row>>
  BY Zenon DEF UnrankPair
<1>2. guess \in Nat
  <2>1. 1 + 8 * r \in Nat /\ 1 + 8 * r > 0
    OBVIOUS
  <2>2. FloorSqrt(1 + 8 * r) \in Nat
    BY <2>1, FloorSqrtIsRoot DEF IsRoot
  <2> QED BY <2>2
<1> HIDE DEF guess
<1>3. \A f : \A y \in Nat : DBody(f, y) = IF y > b THEN f[y - 1] ELSE y
  <2> SUFFICES ASSUME NEW f, NEW y \in Nat PROVE DBody(f, y) = IF y > b THEN f[y - 1] ELSE y
    OBVIOUS
  <2>1. DBody(f, y) = IF y > 0 /\ Tri(y) > r THEN f[y - 1] ELSE y
    BY DEF Tri
  <2>2. Tri(y) \in Nat /\ (Tri(y) <= r <=> y <= b)
    BY RowOrder, TriStep
  <2> HIDE DEF DBody
  <2>3. (y > 0 /\ Tri(y) > r) <=> y > b
    BY <2>2
  <2> QED BY <2>1, <2>3
<1>4. \A f : \A y \in Nat : UBody(f, y) = IF y < b THEN f[y + 1] ELSE y
  <2> SUFFICES ASSUME NEW f, NEW y \in Nat PROVE UBody(f, y) = IF y < b THEN f[y + 1] ELSE y
    OBVIOUS
  <2>0. (y + 1) * (y + 1 - 1) = (y + 1) * y
    OBVIOUS
  <2>1. UBody(f, y) = IF Tri(y + 1) <= r THEN f[y + 1] ELSE y
    BY <2>0 DEF Tri
  <2>2. Tri(y + 1) <= r <=> y < b
    BY RowOrder
  <2> HIDE DEF UBody
  <2> QED BY <2>1, <2>2
<1> HIDE DEF DBody, UBody
<1>5. DEq(down)
  <2> DEFINE g == [y \in Nat |-> IF y > b THEN b ELSE y]
  <2>1. \A y \in Nat : g[y] = DBody(g, y)
    <3> SUFFICES ASSUME NEW y \in Nat PROVE g[y] = DBody(g, y)
      OBVIOUS
    <3>1. DBody(g, y) = IF y > b THEN g[y - 1] ELSE y
      BY <1>3
    <3>2. y > b => g[y - 1] = b
      OBVIOUS
    <3> QED BY <3>1, <3>2
  <2>2. DEq(g)
    BY <2>1
  <2> HIDE DEF g, DEq
  <2> QED BY <2>2, Zenon
<1>6. UEq(up)
  <2> DEFINE g == [y \in Nat |-> IF y < b THEN b ELSE y]
  <2>1. \A y \in Nat : g[y] = UBody(g, y)
    <3> SUFFICES ASSUME NEW y \in Nat PROVE g[y] = UBody(g, y)
      OBVIOUS
    <3>1. UBody(g, y) = IF y < b THEN g[y + 1] ELSE y
      BY <1>4
    <3>2. y < b => g[y + 1] = b
      OBVIOUS
    <3> QED BY <3>1, <3>2
  <2>2. UEq(g)
    BY <2>1
  <2> HIDE DEF g, UEq
  <2> QED BY <2>2, Zenon
<1> HIDE DEF down, up
<1>7. \A y \in Nat : down[y] = IF y > b THEN down[y - 1] ELSE y
  BY <1>3, <1>5
<1>8. \A y \in Nat : up[y] = IF y < b THEN up[y + 1] ELSE y
  BY <1>4, <1>6
<1>9. \A y \in Nat : down[y] \in 0..b
  <2> DEFINE G == {y \in Nat : down[y] \in 0..b}
  <2>1. 0 \in G
    BY <1>7
  <2>2. ASSUME NEW y \in G PROVE y + 1 \in G
    <3>1. y \in Nat /\ down[y] \in 0..b
      OBVIOUS
    <3>2. y + 1 \in Nat /\ y + 1 - 1 = y
      BY <3>1
    <3> QED BY <1>7, <3>1, <3>2
  <2>3. G = Nat
    <3>1. G \in SUBSET Nat
      OBVIOUS
    <3> HIDE DEF G
    <3> QED BY <2>1, <2>2, <3>1, SetInduction
  <2> QED BY <2>3
<1>10. \A y \in 0..b : up[y] = b
  <2> DEFINE G == {t \in 0..b : up[b - t] = b}
  <2>1. 0 \in G
    BY <1>8
  <2>2. \A t \in 0..b : t \in G /\ t < b => t + 1 \in G
    <3> SUFFICES ASSUME NEW t \in 0..b, t \in G, t < b PROVE t + 1 \in G
      OBVIOUS
    <3>1. b - (t + 1) \in Nat /\ b - (t + 1) < b /\ b - (t + 1) + 1 = b - t
      OBVIOUS
    <3> QED BY <1>8, <3>1
  <2>3. \A t \in 0..b : t \in G
    <3> HIDE DEF G
    <3> QED BY <2>1, <2>2, BoundedInduction
  <2>4. \A y \in 0..b : b - y \in 0..b /\ b - (b - y) = y
    OBVIOUS
  <2> QED BY <2>3, <2>4
<1>11. row = b
  BY <1>2, <1>9, <1>10
<1> HIDE DEF row
<1> QED BY <1>1, <1>11 DEF Tri

(***************************************************************************)
(* Canonical indices and pairs                                             *)
(***************************************************************************)
CanonicalToPair(p, q, sd, c) ==
    IF RoundRobin(p, q)
    THEN CanonicalToPairRoundRobin(c, p)
    ELSE CanonicalToPairCircular(c, p, SelectOffsets(p, q, sd))

\* The cycle a canonical index belongs to.
CycleOf(p, q, c) == IF RoundRobin(p, q) THEN c \div PairCount(p) ELSE 0

CyclesOf(p, q) == IF RoundRobin(p, q) THEN CeilDiv(q, p - 1) ELSE 1

\* What the algorithm needs for a schedule: somebody to pair, and in circular mode
\* draws for all offsets and room for them in the array.
Schedulable(p, q, sd) ==
    /\ p \in Nat /\ p >= 2 /\ q \in Nat /\ q > 0
    /\ ~RoundRobin(p, q) => /\ Draws(sd, OffsetsToUse(p, q))
                            /\ OffsetsToUse(p, q) <= MaxOffsets

\* A part below a whole number of parts, and the place in it.
LEMMA SplitIndex ==
    ASSUME NEW m \in Nat, NEW w \in Nat, w > 0, NEW c \in 0..(m * w - 1)
    PROVE  /\ c \div w \in 0..(m - 1) /\ c % w \in 0..(w - 1)
           /\ c = (c \div w) * w + (c % w)
<1> DEFINE g == c \div w
<1>0. m * w \in Nat
  OBVIOUS
<1>1. g \in Nat /\ c % w \in 0..(w - 1) /\ c = g * w + (c % w) /\ c \in Nat /\ c < m * w
  <2>1. c \in Nat /\ c < m * w
    BY <1>0
  <2> QED BY <2>1, DivMod
<1> HIDE DEF g
<1>2. g < m
  <2> SUFFICES ASSUME g >= m PROVE FALSE
    BY <1>1
  <2>1. g * w >= m * w
    BY <1>1
  <2>2. g * w \in Int
    BY <1>1
  <2> QED BY <1>0, <1>1, <2>1, <2>2
<1> QED BY <1>1, <1>2 DEF g

LEMMA JoinIndex ==
    ASSUME NEW m \in Nat, NEW w \in Nat, w > 0, NEW g \in 0..(m - 1), NEW x \in 0..(w - 1)
    PROVE  /\ g * w + x \in 0..(m * w - 1)
           /\ (g * w + x) \div w = g /\ (g * w + x) % w = x
<1>1. g * w \in Nat /\ g * w <= (m - 1) * w /\ (m - 1) * w = m * w - w /\ m * w \in Nat
  OBVIOUS
<1> DEFINE c == g * w + x
<1>2. c \in 0..(m * w - 1) /\ c \in Nat
  BY <1>1
<1>3. c = g * w + x
  OBVIOUS
<1> HIDE DEF c
<1>4. c \div w \in Nat /\ c % w \in 0..(w - 1) /\ c = (c \div w) * w + (c % w)
  BY <1>2, DivMod
<1>5. c \div w = g /\ c % w = x
  <2> DEFINE d == c \div w
             e == c % w
  <2>1. d \in Int /\ e \in 0..(w - 1) /\ d * w + e = g * w + x /\ g \in Int
    BY <1>3, <1>4
  <2> HIDE DEF d, e
  <2>2. d = g /\ e = x
    BY <2>1, DivModUnique
  <2> QED BY <2>2 DEF d, e
<1> QED BY <1>2, <1>3, <1>5

LEMMA ModAdd ==
    ASSUME NEW w \in Nat, w > 0, NEW x \in 0..(w - 1), NEW d \in 0..(w - 1)
    PROVE  (x + d) % w = IF x + d < w THEN x + d ELSE x + d - w
<1> DEFINE e == (x + d) % w
           g == (x + d) \div w
<1>1. g \in Int /\ e \in 0..(w - 1) /\ x + d = g * w + e
  BY DivMod
<1> HIDE DEF e, g
<1>2. CASE x + d < w
  <2>1. x + d \in 0..(w - 1) /\ g * w + e = 0 * w + (x + d) /\ 0 \in Int
    BY <1>1, <1>2
  <2>2. e = x + d
    BY <1>1, <2>1, DivModUnique
  <2> QED BY <1>2, <2>2 DEF e
<1>3. CASE ~(x + d < w)
  <2>1. x + d - w \in 0..(w - 1) /\ g * w + e = 1 * w + (x + d - w) /\ 1 \in Int
    BY <1>1, <1>3
  <2>2. e = x + d - w
    BY <1>1, <2>1, DivModUnique
  <2> QED BY <1>3, <2>2 DEF e
<1> QED BY <1>2, <1>3

LEMMA PairCountIsTri ==
    ASSUME NEW p \in Nat, p >= 2
    PROVE  PairCount(p) = Tri(p) /\ PairCount(p) \in Nat /\ PairCount(p) > 0
           /\ 2 * PairCount(p) = p * (p - 1)
<1>1. PairCount(p) = Tri(p)
  BY DEF PairCount, Tri
<1>2. Tri(p) \in Nat /\ 2 * Tri(p) = p * (p - 1)
  BY TriStep
<1>3. p * (p - 1) > 0
  OBVIOUS
<1> QED BY <1>1, <1>2, <1>3

LEMMA CyclesType ==
    ASSUME NEW p \in Nat, p >= 2, NEW q \in Nat, q > 0
    PROVE  CeilDiv(q, p - 1) \in Nat /\ CeilDiv(q, p - 1) > 0
           /\ (q = p - 1 => CeilDiv(q, p - 1) = 1)
<1> DEFINE w == p - 1
           e == q + w - 1
           g == e \div w
<1>1. w \in Nat /\ w > 0 /\ e \in Nat
  OBVIOUS
<1>2. g \in Nat /\ e % w \in 0..(w - 1) /\ e = g * w + (e % w)
  BY <1>1, DivMod
<1> HIDE DEF g
<1>3. g # 0
  <2> SUFFICES ASSUME g = 0 PROVE FALSE
    OBVIOUS
  <2>1. g * w = 0
    BY <1>1
  <2> HIDE DEF w
  <2> QED BY <1>1, <1>2, <2>1
<1>4. q = w => g = 1
  <2> SUFFICES ASSUME q = w PROVE g = 1
    OBVIOUS
  <2>1. w - 1 \in 0..(w - 1) /\ g * w + (e % w) = 1 * w + (w - 1)
    BY <1>1, <1>2
  <2> HIDE DEF w, e
  <2>2. 1 \in Int /\ g \in Int /\ e % w \in 0..(w - 1)
    BY <1>2
  <2> QED BY <1>1, <2>1, <2>2, DivModUnique
<1>5. CeilDiv(q, p - 1) = g
  BY DEF CeilDiv, g
<1> QED BY <1>2, <1>3, <1>4, <1>5

\* Round robin: the pair of a canonical index is the one with its rank.
LEMMA RoundRobinPair ==
    ASSUME NEW p \in Nat, p >= 2, NEW c \in Nat
    PROVE  \E a, b \in Nat :
              /\ CanonicalToPairRoundRobin(c, p) = <<a, b>>
              /\ a < b /\ b < p /\ c % PairCount(p) = Tri(b) + a
<1> DEFINE r == c % PairCount(p)
<1>1. r \in 0..(PairCount(p) - 1) /\ PairCount(p) = Tri(p) /\ PairCount(p) \in Nat
  BY PairCountIsTri, DivMod
<1> HIDE DEF r
<1>2. r \in Nat /\ r < Tri(p)
  BY <1>1
<1>3. PICK b \in Nat : InRow(r, b)
  BY <1>2, RowExists
<1>4. CanonicalToPairRoundRobin(c, p) = <<r - Tri(b), b>>
  BY <1>2, <1>3, UnrankRow DEF CanonicalToPairRoundRobin, r
<1>5. Tri(b) \in Nat /\ Tri(b) <= r /\ r < Tri(b) + b
  BY <1>3, TriStep DEF InRow
<1>6. b < p
  <2>1. ~(Tri(p) <= r)
    BY <1>1, <1>2
  <2> QED BY <1>2, <1>3, <2>1, RowOrder
<1>7. r - Tri(b) \in Nat /\ r - Tri(b) < b /\ r = Tri(b) + (r - Tri(b))
  BY <1>2, <1>5
<1> QED BY <1>4, <1>6, <1>7 DEF r

\* Every pair has a rank, and unranking gives it back.
LEMMA RankedPair ==
    ASSUME NEW p \in Nat, p >= 2, NEW a \in Nat, NEW b \in Nat, a < b, b < p
    PROVE  /\ Tri(b) + a \in 0..(PairCount(p) - 1)
           /\ UnrankPair(Tri(b) + a) = <<a, b>>
<1> DEFINE r == Tri(b) + a
<1>1. Tri(b) \in Nat /\ Tri(b + 1) = Tri(b) + b
  BY TriStep
<1>2. r \in Nat /\ InRow(r, b)
  BY <1>1 DEF InRow
<1>3. Tri(b + 1) <= Tri(p)
  <2>1. b + 1 \in Nat /\ b + 1 <= p
    OBVIOUS
  <2> QED BY <2>1, TriMonotone
<1>4. PairCount(p) = Tri(p) /\ PairCount(p) \in Nat
  BY PairCountIsTri
<1>5. UnrankPair(r) = <<r - Tri(b), b>>
  BY <1>2, UnrankRow
<1>6. r - Tri(b) = a
  BY <1>1
<1>7. r < PairCount(p)
  BY <1>1, <1>3, <1>4
<1> QED BY <1>2, <1>4, <1>5, <1>6, <1>7

\* The offsets of circular mode.
IsOffsets(z, m, p) ==
    /\ m \in Nat
    /\ \A g \in 1..m : z[g] \in Nat /\ z[g] > 0 /\ 2 * z[g] < p
    /\ \A g, h \in 1..m : z[g] = z[h] => g = h

LEMMA OffsetsDistinct ==
    ASSUME NEW p, NEW q, NEW sd, Schedulable(p, q, sd), ~RoundRobin(p, q)
    PROVE  IsOffsets(SelectOffsets(p, q, sd), OffsetsToUse(p, q), p)
<1> DEFINE m == Lesser(OffsetsToUse(p, q), MaxOffsets)
           s == FloydSample(p, q, sd)
           z == Sorted(s)
<1>0. p \in Nat /\ p >= 2 /\ q \in Nat /\ Draws(sd, OffsetsToUse(p, q))
      /\ OffsetsToUse(p, q) <= MaxOffsets
  BY DEF Schedulable
<1>1. Available(p) \in Nat /\ 2 * Available(p) < p /\ OffsetsToUse(p, q) \in 0..Available(p)
  BY <1>0, AvailableBounds, OffsetsType
<1>2. m = OffsetsToUse(p, q)
  BY <1>0 DEF Lesser
<1>3. IsSample(s, m, Available(p))
  BY <1>0, FloydDistinct
<1> HIDE DEF m, s
<1>4. z \in Injection(1..m, 1..Available(p))
  <2>1. m \in Nat
    BY <1>1, <1>2
  <2> QED BY <1>1, <1>3, <2>1, SortedSample
<1> HIDE DEF z
<1>5. z \in [1..m -> 1..Available(p)]
  BY <1>4 DEF Injection
<1>6. \A g, h \in 1..m : z[g] = z[h] => g = h
  BY <1>4, <1>5 DEF Injection, IsInjective
<1>7. \A g \in 1..m : z[g] \in Nat /\ z[g] > 0 /\ 2 * z[g] < p
  <2> SUFFICES ASSUME NEW g \in 1..m PROVE z[g] \in Nat /\ z[g] > 0 /\ 2 * z[g] < p
    OBVIOUS
  <2>1. z[g] \in 1..Available(p)
    BY <1>5
  <2> QED BY <1>0, <1>1, <2>1
<1>8. m \in Nat
  BY <1>1, <1>2
<1>9. IsOffsets(z, m, p)
  BY <1>6, <1>7, <1>8 DEF IsOffsets
<1>10. SelectOffsets(p, q, sd) = z
  BY DEF SelectOffsets, z, s
<1> QED BY <1>2, <1>9, <1>10

\* The opponent at distance d on the circle.
Across(x, d, p) == IF x + d < p THEN x + d ELSE x + d - p

LEMMA CircularPair ==
    ASSUME NEW p \in Nat, p >= 2, NEW m, NEW z, IsOffsets(z, m, p), NEW c \in 0..(m * p - 1)
    PROVE  LET x == c % p
               g == c \div p + 1
               y == Across(x, z[g], p)
           IN  /\ x \in 0..(p - 1) /\ g \in 1..m /\ y \in 0..(p - 1) /\ x # y
               /\ c = (g - 1) * p + x
               /\ CanonicalToPairCircular(c, p, z) = IF x < y THEN <<x, y>> ELSE <<y, x>>
<1> DEFINE x == c % p
           g == c \div p + 1
           d == z[g]
           y == Across(x, d, p)
<1>1. c \div p \in 0..(m - 1) /\ x \in 0..(p - 1) /\ c = (c \div p) * p + x
  BY SplitIndex, SMTT(40) DEF IsOffsets
<1>2. g \in 1..m /\ g - 1 = c \div p
  BY <1>1 DEF IsOffsets
<1>3. d \in Nat /\ d > 0 /\ 2 * d < p
  BY <1>2 DEF IsOffsets
<1>4. CanonicalToPairCircular(c, p, z)
        = <<Lesser(x, (x + d) % p), Greater(x, (x + d) % p)>>
  BY DEF CanonicalToPairCircular
<1> HIDE DEF x, g, d
<1>5. (x + d) % p = y
  <2>1. d \in 0..(p - 1)
    BY <1>3
  <2> QED BY <1>1, <2>1, ModAdd DEF Across
<1>6. y \in 0..(p - 1) /\ x # y
  BY <1>1, <1>3 DEF Across
<1> HIDE DEF y
<1>7. CanonicalToPairCircular(c, p, z) = IF x < y THEN <<x, y>> ELSE <<y, x>>
  BY <1>1, <1>4, <1>5, <1>6 DEF Lesser, Greater
<1>8. c = (g - 1) * p + x
  BY <1>1, <1>2
<1> QED BY <1>1, <1>2, <1>6, <1>7, <1>8 DEF x, g, d, y

LEMMA CircularInjective ==
    ASSUME NEW p \in Nat, p >= 2, NEW m, NEW z, IsOffsets(z, m, p),
           NEW c \in 0..(m * p - 1), NEW e \in 0..(m * p - 1),
           CanonicalToPairCircular(c, p, z) = CanonicalToPairCircular(e, p, z)
    PROVE  c = e
<1> DEFINE x == c % p
           g == c \div p + 1
           y == Across(x, z[g], p)
           u == e % p
           h == e \div p + 1
           v == Across(u, z[h], p)
<1>1. /\ x \in 0..(p - 1) /\ g \in 1..m /\ y \in 0..(p - 1) /\ x # y
      /\ c = (g - 1) * p + x
      /\ CanonicalToPairCircular(c, p, z) = IF x < y THEN <<x, y>> ELSE <<y, x>>
  BY CircularPair
<1>2. /\ u \in 0..(p - 1) /\ h \in 1..m /\ v \in 0..(p - 1) /\ u # v
      /\ e = (h - 1) * p + u
      /\ CanonicalToPairCircular(e, p, z) = IF u < v THEN <<u, v>> ELSE <<v, u>>
  BY CircularPair
<1>3. y = Across(x, z[g], p) /\ v = Across(u, z[h], p)
  OBVIOUS
<1> HIDE DEF x, g, y, u, h, v
<1>4. (x = u /\ y = v) \/ (x = v /\ y = u)
  BY <1>1, <1>2
<1>5. /\ z[g] \in Nat /\ z[g] > 0 /\ 2 * z[g] < p
      /\ z[h] \in Nat /\ z[h] > 0 /\ 2 * z[h] < p
  BY <1>1, <1>2 DEF IsOffsets
<1>6. ~(x = v /\ y = u)
  BY <1>1, <1>2, <1>3, <1>5 DEF Across
<1>7. x = u /\ y = v
  BY <1>4, <1>6
<1>8. z[g] = z[h]
  BY <1>1, <1>3, <1>5, <1>7 DEF Across
<1>9. g = h
  BY <1>1, <1>2, <1>8 DEF IsOffsets
<1> QED BY <1>1, <1>2, <1>7, <1>9

\* Each canonical index names two different participants, and no other index of
\* its cycle names the same two.
LEMMA PairsOfCycle ==
    ASSUME NEW p, NEW q, NEW sd, Schedulable(p, q, sd)
    PROVE  LET D == 0..(CalculateMatchCount(p, q) - 1)
           IN  /\ CalculateMatchCount(p, q) \in Nat
               /\ \A c \in D :
                     /\ \E a, b \in Nat :
                           CanonicalToPair(p, q, sd, c) = <<a, b>> /\ a < b /\ b < p
                     /\ CycleOf(p, q, c) \in 0..(CyclesOf(p, q) - 1)
               /\ \A c, e \in D :
                     /\ CanonicalToPair(p, q, sd, c) = CanonicalToPair(p, q, sd, e)
                     /\ CycleOf(p, q, c) = CycleOf(p, q, e)
                     => c = e
<1> DEFINE T == CalculateMatchCount(p, q)
           D == 0..(T - 1)
<1>0. p \in Nat /\ p >= 2 /\ q \in Nat /\ q > 0
  BY DEF Schedulable
<1>1. CASE RoundRobin(p, q)
  <2> DEFINE w == PairCount(p)
             m == CeilDiv(q, p - 1)
  <2>1. w \in Nat /\ w > 0 /\ m \in Nat /\ w * m = m * w /\ m * w \in Nat
    BY <1>0, PairCountIsTri, CyclesType
  <2>2. T = m * w
    BY <1>0, <1>1, <2>1 DEF CalculateMatchCount
  <2>3. CyclesOf(p, q) = m /\ \A c : CycleOf(p, q, c) = c \div w
    BY <1>1 DEF CyclesOf, CycleOf
  <2>4. \A c : CanonicalToPair(p, q, sd, c) = CanonicalToPairRoundRobin(c, p)
    BY <1>1 DEF CanonicalToPair
  <2>5. ASSUME NEW c \in 0..(m * w - 1)
        PROVE  /\ c \div w \in 0..(m - 1)
               /\ c = (c \div w) * w + (c % w) /\ c \in Nat
    <3> HIDE DEF w, m
    <3>1. c \in Nat
      BY <2>1
    <3> QED BY <2>1, <3>1, SplitIndex
  <2>6. \A c \in D : \E a, b \in Nat :
           /\ CanonicalToPairRoundRobin(c, p) = <<a, b>>
           /\ a < b /\ b < p /\ c % w = Tri(b) + a
    <3> HIDE DEF T
    <3>1. \A c \in D : c \in Nat
      BY <2>1, <2>2
    <3> QED BY <1>0, <3>1, RoundRobinPair
  <2> HIDE DEF w, m, T
  <2>7. ASSUME NEW c \in D, NEW e \in D,
               CanonicalToPairRoundRobin(c, p) = CanonicalToPairRoundRobin(e, p),
               c \div w = e \div w
        PROVE  c = e
    <3>1. PICK a, b \in Nat : CanonicalToPairRoundRobin(c, p) = <<a, b>> /\ c % w = Tri(b) + a
      BY <2>6
    <3>2. PICK f, g \in Nat : CanonicalToPairRoundRobin(e, p) = <<f, g>> /\ e % w = Tri(g) + f
      BY <2>6
    <3>3. a = f /\ b = g
      <4>1. <<a, b>> = <<f, g>>
        BY <2>7, <3>1, <3>2, Zenon
      <4> QED BY ONLY <4>1
    <3>4. c % w = e % w
      BY <3>1, <3>2, <3>3
    <3> QED BY <2>2, <2>5, <2>7, <3>4
  <2>8. \A c \in D : CycleOf(p, q, c) \in 0..(CyclesOf(p, q) - 1)
    BY <2>2, <2>3, <2>5
  <2>9. \A c \in D : \E a, b \in Nat : CanonicalToPair(p, q, sd, c) = <<a, b>> /\ a < b /\ b < p
    BY <2>4, <2>6
  <2>10. \A c, e \in D : CanonicalToPair(p, q, sd, c) = CanonicalToPair(p, q, sd, e)
                         /\ CycleOf(p, q, c) = CycleOf(p, q, e) => c = e
    BY <2>3, <2>4, <2>7
  <2>11. T \in Nat
    BY <2>1, <2>2
  <2> QED BY <2>8, <2>9, <2>10, <2>11 DEF T
<1>2. CASE ~RoundRobin(p, q)
  <2> DEFINE m == OffsetsToUse(p, q)
             z == SelectOffsets(p, q, sd)
  <2>1. IsOffsets(z, m, p)
    BY <1>2, OffsetsDistinct
  <2>2. T = m * p
    BY <1>0, <1>2 DEF CalculateMatchCount
  <2>3. CyclesOf(p, q) = 1 /\ \A c : CycleOf(p, q, c) = 0
    BY <1>2 DEF CyclesOf, CycleOf
  <2>4. \A c : CanonicalToPair(p, q, sd, c) = CanonicalToPairCircular(c, p, z)
    BY <1>2 DEF CanonicalToPair
  <2> HIDE DEF m, z
  <2>5. m \in Nat /\ m * p \in Nat
    BY <1>0, <2>1 DEF IsOffsets
  <2>6. ASSUME NEW c \in 0..(m * p - 1)
        PROVE  \E a, b \in Nat : CanonicalToPairCircular(c, p, z) = <<a, b>> /\ a < b /\ b < p
    <3> DEFINE x == c % p
               y == Across(x, z[c \div p + 1], p)
    <3>1. /\ x \in 0..(p - 1) /\ y \in 0..(p - 1) /\ x # y
          /\ CanonicalToPairCircular(c, p, z) = IF x < y THEN <<x, y>> ELSE <<y, x>>
      BY <1>0, <2>1, CircularPair
    <3> HIDE DEF x, y
    <3>2. CASE x < y
      BY <1>0, <3>1, <3>2
    <3>3. CASE ~(x < y)
      BY <1>0, <3>1, <3>3
    <3> QED BY <3>2, <3>3
  <2>7. \A c, e \in 0..(m * p - 1) :
           CanonicalToPairCircular(c, p, z) = CanonicalToPairCircular(e, p, z) => c = e
    BY <1>0, <2>1, CircularInjective
  <2> HIDE DEF T
  <2>8. \A c \in D : CycleOf(p, q, c) \in 0..(CyclesOf(p, q) - 1)
    BY <2>3
  <2>9. \A c \in D : \E a, b \in Nat : CanonicalToPair(p, q, sd, c) = <<a, b>> /\ a < b /\ b < p
    BY <2>2, <2>4, <2>6
  <2>10. \A c, e \in D : CanonicalToPair(p, q, sd, c) = CanonicalToPair(p, q, sd, e) => c = e
    BY <2>2, <2>4, <2>7
  <2>11. T \in Nat
    BY <2>2, <2>5
  <2> QED BY <2>8, <2>9, <2>10, <2>11 DEF T
<1> QED BY <1>1, <1>2

(***************************************************************************)
(* The schedule                                                            *)
(***************************************************************************)
\* A schedule that the algorithm is made for: the walk cannot give up, and the
\* offsets of circular mode fit into their array.
Feasible(p, q) ==
    /\ WithinLimit(CalculateMatchCount(p, q))
    /\ ~RoundRobin(p, q) => OffsetsToUse(p, q) <= MaxOffsets

\* MAX_PARTICIPANTS of state.rs.
MaxParticipants == 5000

\* close_reveal replaces K by effective_k: the schedule of every tournament of
\* up to MAX_PARTICIPANTS players is feasible.  With 5000 players
\* and K = 99 it is 50 * 5000 = 250000 matches long, the last length for which the
\* bound on the walk suffices.
THEOREM TournamentsAreFeasible ==
    \A p \in 0..MaxParticipants, q \in Nat : Feasible(p, EffectiveK(p, q))
<1> TAKE p \in 0..MaxParticipants, q \in Nat
<1>0. p \in Nat /\ p <= MaxParticipants
  BY SMT DEF MaxParticipants
<1> DEFINE e == EffectiveK(p, q)
<1>1. CASE p < 2
  <2>1. e = 0 /\ CalculateMatchCount(p, e) = 0
    BY <1>0, <1>1 DEF EffectiveK, CalculateMatchCount
  <2>2. RoundRobin(p, e)
    BY <1>0, <1>1, <2>1 DEF RoundRobin
  <2>3. WithinLimit(CalculateMatchCount(p, e))
    <3>1. PICK d \in Nat : d = 0
      OBVIOUS
    <3>2. d <= LongestSchedule
      BY <3>1, SMT DEF LongestSchedule
    <3> QED BY <2>1, <3>1, <3>2, UpToLongest
  <2> QED BY <2>2, <2>3 DEF Feasible
<1>2. CASE p >= 2 /\ p <= 200
  <2>1. e = p - 1 /\ RoundRobin(p, e)
    BY <1>0, <1>2 DEF EffectiveK, RoundRobin
  <2>2. CalculateMatchCount(p, e) = PairCount(p)
    <3>1. CeilDiv(e, p - 1) = 1 /\ e # 0
      BY <1>0, <1>2, <2>1, CyclesType
    <3>2. PairCount(p) \in Nat
      BY <1>0, <1>2, PairCountIsTri
    <3> QED BY <1>0, <1>2, <2>1, <3>1, <3>2 DEF CalculateMatchCount
  <2>3. PairCount(p) \in Nat /\ PairCount(p) <= LongestSchedule
    <3>1. PairCount(p) \in Nat /\ 2 * PairCount(p) = p * (p - 1)
      BY <1>0, <1>2, PairCountIsTri
    <3>2. p * (p - 1) <= 200 * (p - 1)
      BY <1>0, <1>2
    <3> QED BY <1>0, <1>2, <3>1, <3>2, SMT DEF LongestSchedule
  <2>4. WithinLimit(CalculateMatchCount(p, e))
    BY <2>2, <2>3, UpToLongest
  <2> QED BY <2>1, <2>4 DEF Feasible
<1>3. CASE p > 200
  <2>1. e \in 49..99
    BY <1>0, <1>3 DEF EffectiveK, Greater, Lesser
  <2> HIDE DEF e
  <2>2. ~RoundRobin(p, e)
    BY <1>0, <1>3, <2>1 DEF RoundRobin
  <2> DEFINE m == OffsetsToUse(p, e)
  <2>3. m \in 0..50
    <3>1. CeilDiv(e, 2) \in 0..50 /\ Available(p) \in Nat
      BY <1>0, <1>3, <2>1, AvailableBounds DEF CeilDiv
    <3> QED BY <3>1 DEF OffsetsToUse, Lesser
  <2>4. CalculateMatchCount(p, e) = m * p
    BY <1>0, <1>3, <2>1, <2>2 DEF CalculateMatchCount
  <2> HIDE DEF m
  <2>5. m * p \in Nat /\ m * p <= LongestSchedule
    <3> DEFINE x == m * p
    <3>1. x <= 50 * p /\ x \in Nat
      BY <1>0, <2>3
    <3> HIDE DEF x
    <3>2. p \in Int /\ p <= 5000
      BY <1>0, SMT DEF MaxParticipants
    <3>3. x <= LongestSchedule
      BY ONLY <3>1, <3>2, SMT DEF LongestSchedule
    <3> QED BY <3>1, <3>3 DEF x
  <2>6. WithinLimit(CalculateMatchCount(p, e))
    BY <2>4, <2>5, UpToLongest
  <2> QED BY <2>3, <2>6 DEF Feasible, MaxOffsets, m, e
<1> QED BY <1>0, <1>1, <1>2, <1>3

\* The instance only has feasible schedules.
Covered ==
    \A p \in 0..MaxN, q \in 0..MaxK : SeedsFor(p, q) # {} => Feasible(p, q)

\* The permutation f puts the canonical pairs into the order of the matches.
IsOrder(f, p, q, sd) ==
    \A m \in 0..(CalculateMatchCount(p, q) - 1) :
        GetPairingForMatch(p, q, sd, m) = {CanonicalToPair(p, q, sd, f[m])}

LEMMA OrderOfMatches ==
    ASSUME NEW p, NEW q, NEW sd, Schedulable(p, q, sd),
           WithinLimit(CalculateMatchCount(p, q)),
           Rounds(sd, IsqrtCeil(CalculateMatchCount(p, q)))
    PROVE  LET D == 0..(CalculateMatchCount(p, q) - 1)
           IN  \E f \in Bijection(D, D) : IsOrder(f, p, q, sd)
<1> DEFINE T == CalculateMatchCount(p, q)
           D == 0..(T - 1)
<1>1. T \in Nat
  BY PairsOfCycle
<1>2. CASE T = 0
  <2> DEFINE f == [x \in D |-> 0]
  <2>1. D = {}
    BY <1>2
  <2>2. f \in Bijection(D, D)
    BY <2>1 DEF Bijection, Injection, Surjection, IsInjective
  <2>3. IsOrder(f, p, q, sd)
    BY <2>1 DEF IsOrder
  <2> QED BY <2>2, <2>3
<1>3. CASE T > 0
  <2>1. PICK f \in Bijection(D, D) : IsPermute(f, T, sd)
    BY <1>1, <1>3, PermuteIsBijective
  <2>2. ASSUME NEW m \in D
        PROVE  GetPairingForMatch(p, q, sd, m) = {CanonicalToPair(p, q, sd, f[m])}
    <3>1. FeistelPermute(m, T, sd) = {f[m]}
      BY <2>1 DEF IsPermute
    <3>2. ~(m >= T)
      BY <1>1
    <3>3. GetPairingForMatch(p, q, sd, m)
            = {CanonicalToPair(p, q, sd, c) : c \in FeistelPermute(m, T, sd)}
      BY <3>2, Zenon DEF GetPairingForMatch, CanonicalToPair
    <3> HIDE DEF T
    <3> QED BY <3>1, <3>3
  <2> QED BY <2>1, <2>2 DEF IsOrder
<1> QED BY <1>1, <1>2, <1>3

\* get_pairing_for_match: in a feasible schedule every match index has a pair, and
\* it is one of two different participants, what run_matches relies on (the
\* PairingAssumption of Arena).
THEOREM EveryMatchHasAPair ==
    ASSUME NEW p, NEW q, NEW sd, Schedulable(p, q, sd), Feasible(p, q),
           Rounds(sd, IsqrtCeil(CalculateMatchCount(p, q))),
           NEW m \in 0..(CalculateMatchCount(p, q) - 1)
    PROVE  \E a, b \in Nat : GetPairingForMatch(p, q, sd, m) = {<<a, b>>} /\ a < b /\ b < p
<1> DEFINE D == 0..(CalculateMatchCount(p, q) - 1)
<1>1. PICK f \in Bijection(D, D) : IsOrder(f, p, q, sd)
  BY OrderOfMatches DEF Feasible
<1>2. f[m] \in D
  BY <1>1 DEF Bijection, Surjection
<1>3. GetPairingForMatch(p, q, sd, m) = {CanonicalToPair(p, q, sd, f[m])}
  BY <1>1 DEF IsOrder
<1>4. \E a, b \in Nat : CanonicalToPair(p, q, sd, f[m]) = <<a, b>> /\ a < b /\ b < p
  BY <1>2, PairsOfCycle
<1> QED BY <1>3, <1>4

LEMMA SingletonToSeq ==
    ASSUME NEW x
    PROVE  SetToSeq({x}) = <<x>>
<1> DEFINE F == [1..1 -> {x}]
           Ok(f) == IsInjective(f)
           h == CHOOSE f \in F : Ok(f)
<1>1. Cardinality({x}) = 1
  BY FS_Singleton
<1>2. <<x>> \in F /\ Ok(<<x>>)
  BY DEF IsInjective
<1>3. h \in F
  <2> HIDE DEF F, Ok
  <2> QED BY <1>2
<1>4. SetToSeq({x}) = h
  BY <1>1 DEF SetToSeq
<1> HIDE DEF h
<1>5. \A f \in F : f = <<x>>
  <2> SUFFICES ASSUME NEW f \in F PROVE f = <<x>>
    OBVIOUS
  <2>1. DOMAIN f = 1..1 /\ f[1] = x /\ Len(f) = 1 /\ f \in Seq({x})
    OBVIOUS
  <2> QED BY <2>1
<1> QED BY <1>3, <1>4, <1>5

\* The inductive invariant: the pairs so far are those of the match indices so far.
PairingsInOrder ==
    /\ n \in 0..MaxN /\ k \in 0..MaxK /\ seed \in SeedsFor(n, k)
    /\ i \in Nat /\ i <= Total
    /\ pairings \in Seq(Nat \X Nat) /\ Len(pairings) = i
    /\ \A m \in 1..i : GetPairingForMatch(n, k, seed, m - 1) = {pairings[m]}

LEMMA SchedulableHere ==
    ASSUME Covered, n \in 0..MaxN, k \in 0..MaxK, seed \in SeedsFor(n, k)
    PROVE  /\ Total \in Nat
           /\ n < 2 \/ k = 0 => Total = 0
           /\ n >= 2 /\ k > 0 => /\ Schedulable(n, k, seed)
                                 /\ WithinLimit(Total)
                                 /\ Rounds(seed, IsqrtCeil(Total))
<1>0. n \in Nat /\ k \in Nat
  BY SeedsAssumption
<1>1. CASE n < 2 \/ k = 0
  BY <1>0, <1>1 DEF Total, CalculateMatchCount
<1>2. CASE n >= 2 /\ k > 0
  <2>1. WithinLimit(Total) /\ (~RoundRobin(n, k) => OffsetsToUse(n, k) <= MaxOffsets)
    BY DEF Covered, Feasible, Total
  <2>2. Rounds(seed, IsqrtCeil(Total)) /\ (~RoundRobin(n, k) => Draws(seed, OffsetsToUse(n, k)))
    BY SeedsAssumption DEF Rounds, Draws, Total
  <2>3. Schedulable(n, k, seed)
    BY <1>0, <1>2, <2>1, <2>2 DEF Schedulable
  <2>4. Total \in Nat
    BY <2>3, PairsOfCycle DEF Total
  <2> QED BY <1>0, <1>2, <2>1, <2>2, <2>3, <2>4
<1> QED BY <1>0, <1>1, <1>2

LEMMA ScheduleInit ==
    ASSUME Covered, Init
    PROVE  PairingsInOrder
<1>1. n \in 0..MaxN /\ k \in 0..MaxK /\ seed \in SeedsFor(n, k) /\ i = 0 /\ pairings = << >>
  BY DEF Init
<1>2. Total \in Nat
  BY <1>1, SchedulableHere
<1> QED BY <1>1, <1>2 DEF PairingsInOrder

LEMMA ScheduleNext ==
    ASSUME Covered, PairingsInOrder, [Generate]_vars
    PROVE  PairingsInOrder'
<1>1. CASE UNCHANGED vars
  BY <1>1 DEF PairingsInOrder, vars, Total
<1>2. CASE Generate
  <2>0. /\ n \in 0..MaxN /\ k \in 0..MaxK /\ seed \in SeedsFor(n, k)
        /\ i \in Nat /\ i < Total
        /\ n' = n /\ k' = k /\ seed' = seed /\ i' = i + 1
        /\ pairings' = pairings \o SetToSeq(GetPairingForMatch(n, k, seed, i))
    BY <1>2 DEF Generate, PairingsInOrder
  <2>1. Total \in Nat /\ Schedulable(n, k, seed) /\ WithinLimit(Total)
        /\ Rounds(seed, IsqrtCeil(Total))
    <3>1. n \in Nat /\ k \in Nat
      BY <2>0, SeedsAssumption
    <3> QED BY <2>0, <3>1, SchedulableHere
  <2>2. i \in 0..(Total - 1)
    BY <2>0, <2>1
  <2>3. \E x \in Nat \X Nat : GetPairingForMatch(n, k, seed, i) = {x}
    <3>1. Feasible(n, k)
      BY <2>0 DEF Covered
    <3>2. \E a, b \in Nat : GetPairingForMatch(n, k, seed, i) = {<<a, b>>}
      BY <2>1, <2>2, <3>1, EveryMatchHasAPair DEF Total
    <3> QED BY <3>2
  <2>4. PICK x \in Nat \X Nat : GetPairingForMatch(n, k, seed, i) = {x}
    BY <2>3
  <2>5. pairings' = pairings \o <<x>>
    BY <2>0, <2>4, SingletonToSeq
  <2>6. pairings \in Seq(Nat \X Nat) /\ Len(pairings) = i
    BY DEF PairingsInOrder
  <2>7. /\ pairings' \in Seq(Nat \X Nat) /\ Len(pairings') = i + 1
        /\ pairings'[i + 1] = x /\ \A m \in 1..i : pairings'[m] = pairings[m]
    <3> DEFINE P == Nat \X Nat
    <3>1. x \in P /\ pairings \in Seq(P)
      BY <2>6
    <3> HIDE DEF P
    <3>2. /\ pairings \o <<x>> \in Seq(P) /\ Len(pairings \o <<x>>) = i + 1
          /\ (pairings \o <<x>>)[i + 1] = x
          /\ \A m \in 1..i : (pairings \o <<x>>)[m] = pairings[m]
      BY <2>0, <2>6, <3>1
    <3> QED BY <2>5, <3>2 DEF P
  <2>8. \A m \in 1..(i + 1) : GetPairingForMatch(n, k, seed, m - 1) = {pairings'[m]}
    <3> SUFFICES ASSUME NEW m \in 1..(i + 1)
                 PROVE  GetPairingForMatch(n, k, seed, m - 1) = {pairings'[m]}
      OBVIOUS
    <3>1. CASE m = i + 1
      <4>1. m - 1 = i
        BY <2>0, <3>1
      <4> QED BY <2>4, <2>7, <3>1, <4>1
    <3>2. CASE m # i + 1
      <4>1. m \in 1..i
        BY <2>0, <3>2
      <4> QED BY <2>7, <4>1 DEF PairingsInOrder
    <3> QED BY <3>1, <3>2
  <2>9. Total' = Total
    BY <2>0 DEF Total
  <2>10. i + 1 <= Total /\ i + 1 \in Nat
    BY <2>0, <2>1
  <2> QED BY <2>0, <2>7, <2>8, <2>9, <2>10 DEF PairingsInOrder
<1> QED BY <1>1, <1>2

\* The invariant with its permutation: match m is the pair of canonical index f[m - 1].
LEMMA PairOfMatch ==
    ASSUME Covered, PairingsInOrder, n >= 2, k > 0
    PROVE  \E f \in Bijection(0..(Total - 1), 0..(Total - 1)) :
              \A m \in 1..i : m - 1 \in 0..(Total - 1)
                              /\ pairings[m] = CanonicalToPair(n, k, seed, f[m - 1])
<1> DEFINE D == 0..(Total - 1)
<1>1. Total \in Nat /\ Schedulable(n, k, seed) /\ WithinLimit(Total)
      /\ Rounds(seed, IsqrtCeil(Total))
  BY SchedulableHere DEF PairingsInOrder
<1>2. PICK f \in Bijection(D, D) : IsOrder(f, n, k, seed)
  BY <1>1, OrderOfMatches DEF Total
<1>3. ASSUME NEW m \in 1..i
      PROVE  m - 1 \in D /\ pairings[m] = CanonicalToPair(n, k, seed, f[m - 1])
  <2>1. m - 1 \in D
    BY <1>1 DEF PairingsInOrder
  <2>2. GetPairingForMatch(n, k, seed, m - 1) = {CanonicalToPair(n, k, seed, f[m - 1])}
    BY <1>2, <2>1 DEF IsOrder, Total
  <2>3. GetPairingForMatch(n, k, seed, m - 1) = {pairings[m]}
    BY DEF PairingsInOrder
  <2> QED BY <2>1, <2>2, <2>3
<1> QED BY <1>2, <1>3

LEMMA InOrderNoRematch ==
    ASSUME Covered, PairingsInOrder
    PROVE  NoRematch
<1>0. /\ n \in Nat /\ k \in Nat /\ i \in Nat /\ i <= Total
      /\ n \in 0..MaxN /\ k \in 0..MaxK /\ seed \in SeedsFor(n, k)
      /\ pairings \in Seq(Nat \X Nat) /\ Len(pairings) = i /\ DOMAIN pairings = 1..i
  BY SeedsAssumption DEF PairingsInOrder
<1>1. CASE n < 2 \/ k = 0
  <2>1. Total = 0
    BY <1>0, <1>1, SchedulableHere
  <2>2. i = 0 /\ DOMAIN pairings = {}
    BY <1>0, <2>1
  <2> QED BY <1>0, <2>2 DEF NoRematch
<1>2. CASE n >= 2 /\ k > 0
  <2> DEFINE D == 0..(Total - 1)
  <2>1. PICK f \in Bijection(D, D) :
           \A m \in 1..i : m - 1 \in D
                           /\ pairings[m] = CanonicalToPair(n, k, seed, f[m - 1])
    BY <1>2, PairOfMatch
  <2>2. Schedulable(n, k, seed)
    BY <1>0, <1>2, SchedulableHere
  <2>3. (\A x \in D : f[x] \in D) /\ \A x, y \in D : f[x] = f[y] => x = y
    BY <2>1 DEF Bijection, Injection, Surjection, IsInjective
  <2>4. /\ \A c \in D :
             /\ \E a, b \in Nat :
                   CanonicalToPair(n, k, seed, c) = <<a, b>> /\ a < b /\ b < n
             /\ CycleOf(n, k, c) \in 0..(CyclesOf(n, k) - 1)
        /\ \A c, e \in D :
             /\ CanonicalToPair(n, k, seed, c) = CanonicalToPair(n, k, seed, e)
             /\ CycleOf(n, k, c) = CycleOf(n, k, e)
             => c = e
    BY <2>2, PairsOfCycle DEF Total
  <2> HIDE DEF D
  <2>5. ASSUME NEW m \in 1..i PROVE pairings[m][1] < pairings[m][2] /\ pairings[m][2] < n
    <3>1. f[m - 1] \in D
      BY <2>1, <2>3
    <3>2. PICK a, b \in Nat : CanonicalToPair(n, k, seed, f[m - 1]) = <<a, b>> /\ a < b /\ b < n
      BY <2>4, <3>1
    <3>3. pairings[m] = <<a, b>>
      BY <2>1, <3>2
    <3> QED BY <3>2, <3>3
  <2>6. Cycles = CyclesOf(n, k) /\ Cycles \in Nat
    <3>1. Cycles = CyclesOf(n, k)
      BY DEF Cycles, CyclesOf
    <3>2. CeilDiv(k, n - 1) \in Nat
      BY <1>0, <1>2, CyclesType
    <3> QED BY <3>1, <3>2 DEF CyclesOf
  <2>7. ASSUME NEW pair PROVE Occurrences(pair) <= Cycles
    <3> DEFINE S == {m \in DOMAIN pairings : pairings[m] = pair}
               C == 0..(Cycles - 1)
               g == [m \in S |-> CycleOf(n, k, f[m - 1])]
    <3>1. \A m \in S : m \in 1..i /\ m - 1 \in D /\ pairings[m] = pair
                       /\ CanonicalToPair(n, k, seed, f[m - 1]) = pair
      BY <1>0, <2>1
    <3>2. g \in [S -> C]
      BY <2>3, <2>4, <2>6, <3>1
    <3>3. ASSUME NEW x \in S, NEW y \in S, g[x] = g[y] PROVE x = y
      <4>1. CycleOf(n, k, f[x - 1]) = CycleOf(n, k, f[y - 1])
        BY <3>3
      <4>2. x - 1 \in D /\ y - 1 \in D /\ x \in Int /\ y \in Int
            /\ CanonicalToPair(n, k, seed, f[x - 1]) = CanonicalToPair(n, k, seed, f[y - 1])
        BY <3>1
      <4>3. f[x - 1] = f[y - 1]
        BY <2>3, <2>4, <4>1, <4>2
      <4>4. x - 1 = y - 1
        BY <2>3, <4>2, <4>3
      <4> QED BY <4>2, <4>4
    <3> HIDE DEF g
    <3>4. g \in Injection(S, C)
      BY <3>2, <3>3 DEF Injection, IsInjective
    <3>5. IsFiniteSet(C) /\ Cardinality(C) = Cycles
      <4>1. PICK zero \in Int : zero = 0
        OBVIOUS
      <4>2. C = zero..(zero + Cycles - 1)
        BY <2>6, <4>1
      <4> QED BY <2>6, <4>2, IntervalSize
    <3> HIDE DEF S, C
    <3>6. Cardinality(S) <= Cycles
      BY <3>4, <3>5, FS_Injection
    <3> QED BY <3>6 DEF Occurrences, S
  <2> QED BY <1>0, <2>5, <2>7 DEF NoRematch
<1> QED BY <1>0, <1>1, <1>2

\* generate_all_pairings: for every number of participants, K and seed, every match
\* index yields a match of two different participants, and no two of them meet more
\* often than there are full cycles, at most once in circular mode.
THEOREM NobodyMeetsAgain ==
    ASSUME Covered
    PROVE  Spec => []NoRematch
<1>1. Init => PairingsInOrder
  BY ScheduleInit
<1>2. PairingsInOrder /\ [Generate]_vars => PairingsInOrder'
  BY ScheduleNext
<1>3. PairingsInOrder => NoRematch
  BY InOrderNoRematch
<1> QED BY <1>1, <1>2, <1>3, PTL DEF Spec

(***************************************************************************)
(* The load of a participant                                               *)
(***************************************************************************)
\* The canonical indices of the matches that a plays.
Played(p, q, sd, a) ==
    {c \in 0..(CalculateMatchCount(p, q) - 1) :
        \/ CanonicalToPair(p, q, sd, c)[1] = a
        \/ CanonicalToPair(p, q, sd, c)[2] = a}

\* Round robin: one match in each cycle against each other participant.
LEMMA RoundRobinLoad ==
    ASSUME NEW p, NEW q, NEW sd, Schedulable(p, q, sd), RoundRobin(p, q), NEW a \in 0..(p - 1)
    PROVE  /\ IsFiniteSet(Played(p, q, sd, a))
           /\ Cardinality(Played(p, q, sd, a)) = CeilDiv(q, p - 1) * (p - 1)
<1> DEFINE w == PairCount(p)
           m == CeilDiv(q, p - 1)
           P == Played(p, q, sd, a)
           Pair(c) == CanonicalToPairRoundRobin(c, p)
           Others == (0..(p - 1)) \ {a}
           Other(c) == IF Pair(c)[1] = a THEN Pair(c)[2] ELSE Pair(c)[1]
           T == (0..(m - 1)) \X Others
           f == [c \in P |-> <<c \div w, Other(c)>>]
<1>0. p \in Nat /\ p >= 2 /\ q \in Nat /\ q > 0
  BY DEF Schedulable
<1>1. w \in Nat /\ w > 0 /\ m \in Nat /\ w * m = m * w
  BY <1>0, PairCountIsTri, CyclesType
<1>2. P = {c \in 0..(m * w - 1) : Pair(c)[1] = a \/ Pair(c)[2] = a}
  <2>1. CalculateMatchCount(p, q) = m * w
    BY <1>0, <1>1 DEF CalculateMatchCount
  <2>2. \A c : CanonicalToPair(p, q, sd, c) = Pair(c)
    BY DEF CanonicalToPair
  <2> HIDE DEF Pair, m, w
  <2> QED BY <2>1, <2>2 DEF Played
<1>3. \A c \in 0..(m * w - 1) : \E u, v \in Nat :
         Pair(c) = <<u, v>> /\ u < v /\ v < p /\ c % w = Tri(v) + u
  <2>1. \A c \in 0..(m * w - 1) : c \in Nat
    OBVIOUS
  <2> QED BY <1>0, <2>1, RoundRobinPair
<1>4. \A r : \A c : c % w = r => Pair(c) = UnrankPair(r)
  BY DEF CanonicalToPairRoundRobin
<1> HIDE DEF w, m, P, Pair
<1>5. ASSUME NEW c \in P
      PROVE  /\ c \div w \in 0..(m - 1) /\ c = (c \div w) * w + (c % w)
             /\ Other(c) \in Others
             /\ Pair(c) = IF Other(c) < a THEN <<Other(c), a>> ELSE <<a, Other(c)>>
  <2>1. c \in 0..(m * w - 1) /\ (Pair(c)[1] = a \/ Pair(c)[2] = a)
    BY <1>2
  <2>2. c \div w \in 0..(m - 1) /\ c = (c \div w) * w + (c % w)
    BY <1>1, <2>1, SplitIndex
  <2>3. PICK u, v \in Nat : Pair(c) = <<u, v>> /\ u < v /\ v < p
    BY <1>3, <2>1
  <2>4. Pair(c)[1] = u /\ Pair(c)[2] = v
    BY <2>3
  <2>5. CASE u = a
    <3>1. Other(c) = v
      BY <2>4, <2>5
    <3> QED BY <1>0, <2>2, <2>3, <2>5, <3>1
  <2>6. CASE u # a
    <3>1. Other(c) = u /\ v = a
      BY <2>1, <2>4, <2>6
    <3> QED BY <1>0, <2>2, <2>3, <3>1
  <2> QED BY <2>5, <2>6
<1>6. f \in [P -> T]
  BY <1>5
<1>7. ASSUME NEW c \in P, NEW e \in P, f[c] = f[e] PROVE c = e
  <2>1. c \div w = e \div w /\ Other(c) = Other(e)
    BY <1>7
  <2> HIDE DEF f, Other
  <2>2. Pair(c) = Pair(e)
    BY <1>5, <2>1
  <2>3. c \in 0..(m * w - 1) /\ e \in 0..(m * w - 1)
    BY <1>2
  <2>4. PICK u, v \in Nat : Pair(c) = <<u, v>> /\ c % w = Tri(v) + u
    BY <1>3, <2>3
  <2>5. PICK x, y \in Nat : Pair(e) = <<x, y>> /\ e % w = Tri(y) + x
    BY <1>3, <2>3
  <2>6. <<u, v>> = <<x, y>>
    BY <2>2, <2>4, <2>5, Zenon
  <2>7. u = x /\ v = y
    BY ONLY <2>6
  <2>8. c % w = e % w
    BY <2>4, <2>5, <2>7
  <2> QED BY <1>5, <2>1, <2>8
<1>8. ASSUME NEW t \in T PROVE \E c \in P : f[c] = t
  <2>1. PICK g \in 0..(m - 1), o \in Others : t = <<g, o>>
    OBVIOUS
  <2> DEFINE lo == IF o < a THEN o ELSE a
             hi == IF o < a THEN a ELSE o
             r  == Tri(hi) + lo
             c  == g * w + r
  <2>2. lo \in Nat /\ hi \in Nat /\ lo < hi /\ hi < p
    BY <1>0, <2>1
  <2>3. /\ lo = a => hi = o
        /\ lo # a => lo = o /\ hi = a
    BY <2>1
  <2> HIDE DEF lo, hi
  <2>4. r \in 0..(w - 1) /\ UnrankPair(r) = <<lo, hi>>
    BY <1>0, <2>2, RankedPair DEF w
  <2> HIDE DEF r
  <2>5. c \in 0..(m * w - 1) /\ c \div w = g /\ c % w = r
    BY <1>1, <2>4, JoinIndex
  <2> HIDE DEF c
  <2>6. Pair(c) = <<lo, hi>>
    BY <1>4, <2>4, <2>5
  <2>7. Pair(c)[1] = lo /\ Pair(c)[2] = hi
    BY <2>6
  <2>8. c \in P
    BY <1>2, <2>3, <2>5, <2>7
  <2>9. Other(c) = o
    BY <2>3, <2>7
  <2>10. f[c] = <<c \div w, Other(c)>>
    BY <2>8
  <2> HIDE DEF f, Other
  <2> QED BY <2>1, <2>5, <2>8, <2>9, <2>10
<1>9. f \in Bijection(P, T)
  <2> HIDE DEF f, T
  <2> QED BY <1>6, <1>7, <1>8 DEF Bijection, Injection, Surjection, IsInjective
<1>10. IsFiniteSet(T) /\ Cardinality(T) = m * (p - 1)
  <2>1. PICK zero \in Int : zero = 0
    OBVIOUS
  <2>2. IsFiniteSet(0..(m - 1)) /\ Cardinality(0..(m - 1)) = m
    <3>1. 0..(m - 1) = zero..(zero + m - 1)
      BY <1>1, <2>1
    <3> QED BY <1>1, <3>1, IntervalSize
  <2>3. IsFiniteSet(0..(p - 1)) /\ Cardinality(0..(p - 1)) = p
    <3>1. 0..(p - 1) = zero..(zero + p - 1)
      BY <1>0, <2>1
    <3> QED BY <1>0, <3>1, IntervalSize
  <2>4. IsFiniteSet(Others) /\ Cardinality(Others) = p - 1
    BY <2>3, FS_RemoveElement
  <2> DEFINE A == 0..(m - 1)
  <2>5. IsFiniteSet(A) /\ Cardinality(A) = m /\ T = A \X Others
    BY <2>2
  <2> HIDE DEF Others, A, T
  <2>6. IsFiniteSet(A \X Others) /\ Cardinality(A \X Others) = Cardinality(A) * Cardinality(Others)
    BY <2>4, <2>5, FS_Product
  <2> QED BY <2>4, <2>5, <2>6
<1>11. IsFiniteSet(P) /\ Cardinality(P) = Cardinality(T)
  <2> HIDE DEF f, T
  <2>1. f \in Injection(P, T) /\ f \in Surjection(P, T)
    BY <1>9 DEF Bijection
  <2> QED BY <1>10, <2>1, FS_Injection
<1> QED BY <1>10, <1>11 DEF P, m

\* Circular mode: two matches for each offset, one in either direction.
LEMMA CircularLoad ==
    ASSUME NEW p, NEW q, NEW sd, Schedulable(p, q, sd), ~RoundRobin(p, q), NEW a \in 0..(p - 1)
    PROVE  /\ IsFiniteSet(Played(p, q, sd, a))
           /\ Cardinality(Played(p, q, sd, a)) = OffsetsToUse(p, q) * 2
<1> DEFINE m == OffsetsToUse(p, q)
           z == SelectOffsets(p, q, sd)
           P == Played(p, q, sd, a)
           Pair(c) == CanonicalToPairCircular(c, p, z)
           X(c) == c % p
           Y(c) == Across(c % p, z[c \div p + 1], p)
           T == (0..(m - 1)) \X {0, 1}
           f == [c \in P |-> <<c \div p, IF X(c) = a THEN 0 ELSE 1>>]
<1>0. p \in Nat /\ p >= 2 /\ q \in Nat /\ q > 0
  BY DEF Schedulable
<1>1. IsOffsets(z, m, p) /\ m \in Nat
  BY OffsetsDistinct DEF IsOffsets
<1>2. P = {c \in 0..(m * p - 1) : Pair(c)[1] = a \/ Pair(c)[2] = a}
  <2>1. CalculateMatchCount(p, q) = m * p
    BY <1>0 DEF CalculateMatchCount
  <2>2. \A c : CanonicalToPair(p, q, sd, c) = Pair(c)
    BY DEF CanonicalToPair
  <2> HIDE DEF Pair, m, z
  <2> QED BY <2>1, <2>2 DEF Played
<1> HIDE DEF P, m, z
<1>3. ASSUME NEW c \in 0..(m * p - 1)
      PROVE  /\ X(c) \in 0..(p - 1) /\ c \div p \in 0..(m - 1) /\ Y(c) \in 0..(p - 1) /\ X(c) # Y(c)
             /\ c = (c \div p) * p + X(c)
             /\ Pair(c) = IF X(c) < Y(c) THEN <<X(c), Y(c)>> ELSE <<Y(c), X(c)>>
  <2> DEFINE g == c \div p + 1
  <2>1. /\ X(c) \in 0..(p - 1) /\ g \in 1..m /\ Y(c) \in 0..(p - 1) /\ X(c) # Y(c)
        /\ c = (g - 1) * p + X(c)
        /\ Pair(c) = IF X(c) < Y(c) THEN <<X(c), Y(c)>> ELSE <<Y(c), X(c)>>
    BY <1>0, <1>1, CircularPair
  <2>2. c \div p \in 0..(m - 1)
    BY <1>0, <1>1, SplitIndex
  <2>3. g - 1 = c \div p
    BY <2>2
  <2> HIDE DEF X, Y, g, Pair
  <2> QED BY <2>1, <2>2, <2>3
<1>4. ASSUME NEW c \in 0..(m * p - 1)
      PROVE  c \in P <=> X(c) = a \/ Y(c) = a
  <2> HIDE DEF X, Y, Pair
  <2>1. CASE X(c) < Y(c)
    <3>1. Pair(c) = <<X(c), Y(c)>>
      BY <1>3, <2>1
    <3>2. Pair(c)[1] = X(c) /\ Pair(c)[2] = Y(c)
      BY <3>1
    <3> QED BY <1>2, <3>2
  <2>2. CASE ~(X(c) < Y(c))
    <3>1. Pair(c) = <<Y(c), X(c)>>
      BY <1>3, <2>2
    <3>2. Pair(c)[1] = Y(c) /\ Pair(c)[2] = X(c)
      BY <3>1
    <3> QED BY <1>2, <3>2
  <2> QED BY <2>1, <2>2
<1>5. \A c \in P : c \in 0..(m * p - 1)
  BY <1>2
<1>6. f \in [P -> T]
  <2> HIDE DEF X, Y, Pair
  <2> QED BY <1>3, <1>5
<1>7. ASSUME NEW c \in P, NEW e \in P, f[c] = f[e] PROVE c = e
  <2>1. c \div p = e \div p /\ (X(c) = a <=> X(e) = a)
    <3> HIDE DEF X
    <3> DEFINE B(b) == IF X(b) = a THEN 0 ELSE 1
    <3>1. f[c] = <<c \div p, B(c)>> /\ f[e] = <<e \div p, B(e)>>
      OBVIOUS
    <3> HIDE DEF f, B
    <3>2. <<c \div p, B(c)>> = <<e \div p, B(e)>>
      BY <1>7, <3>1, Zenon
    <3>3. c \div p = e \div p /\ B(c) = B(e)
      BY ONLY <3>2
    <3> QED BY <3>3 DEF B
  <2>2. X(c) \in 0..(p - 1) /\ X(e) \in 0..(p - 1) /\ c \div p \in 0..(m - 1)
    BY <1>3, <1>5
  <2>3. X(c) = X(e)
    <3>1. CASE X(c) = a
      BY <2>1, <3>1
    <3>2. CASE X(c) # a
      <4> DEFINE d == z[c \div p + 1]
      <4>1. Y(c) = a /\ Y(e) = a
        BY <1>4, <1>5, <2>1, <3>2
      <4>2. Y(c) = Across(X(c), d, p) /\ Y(e) = Across(X(e), d, p)
        BY <2>1
      <4>3. c \div p + 1 \in 1..m
        BY <1>1, <2>2
      <4>4. d \in Nat /\ 2 * d < p
        BY <1>1, <4>3 DEF IsOffsets
      <4> HIDE DEF X, Y, d
      <4> QED BY <1>0, <2>2, <4>1, <4>2, <4>4 DEF Across
    <3> QED BY <3>1, <3>2
  <2>4. c = (c \div p) * p + X(c) /\ e = (e \div p) * p + X(e)
    BY <1>3, <1>5
  <2> HIDE DEF X
  <2> QED BY <2>1, <2>3, <2>4
<1>8. ASSUME NEW t \in T PROVE \E c \in P : f[c] = t
  <2>1. PICK g \in 0..(m - 1), s \in {0, 1} : t = <<g, s>>
    OBVIOUS
  <2> DEFINE d == z[g + 1]
             x == IF s = 0 THEN a ELSE IF a >= d THEN a - d ELSE a - d + p
             c == g * p + x
  <2>2. d \in Nat /\ d > 0 /\ 2 * d < p
    <3>1. g + 1 \in 1..m
      BY <1>1
    <3> QED BY <1>1, <3>1 DEF IsOffsets
  <2> HIDE DEF d
  <2>3. /\ x \in 0..(p - 1)
        /\ s = 0 => x = a
        /\ s = 1 => x # a /\ Across(x, d, p) = a
    BY <1>0, <2>2 DEF Across
  <2> HIDE DEF x
  <2>4. c \in 0..(m * p - 1) /\ c \div p = g /\ c % p = x
    BY <1>0, <1>1, <2>3, JoinIndex
  <2> HIDE DEF c
  <2>5. X(c) = x /\ Y(c) = Across(x, d, p)
    BY <2>4 DEF d
  <2> HIDE DEF X, Y
  <2>6. c \in P
    BY <1>4, <2>3, <2>4, <2>5
  <2>7. f[c] = <<c \div p, IF X(c) = a THEN 0 ELSE 1>>
    BY <2>6
  <2>8. (IF X(c) = a THEN 0 ELSE 1) = s
    BY <2>3, <2>5
  <2> HIDE DEF f
  <2> QED BY <2>1, <2>4, <2>6, <2>7, <2>8
<1>9. f \in Bijection(P, T)
  <2> HIDE DEF f, T
  <2> QED BY <1>6, <1>7, <1>8 DEF Bijection, Injection, Surjection, IsInjective
<1>10. IsFiniteSet(T) /\ Cardinality(T) = m * 2
  <2> DEFINE A == 0..(m - 1)
             B == {0, 1}
  <2>1. PICK zero \in Int : zero = 0
    OBVIOUS
  <2>2. IsFiniteSet(A) /\ Cardinality(A) = m
    <3>1. A = zero..(zero + m - 1)
      BY <1>1, <2>1
    <3> QED BY <1>1, <3>1, IntervalSize
  <2>3. IsFiniteSet(B) /\ Cardinality(B) = 2
    <3>1. PICK two \in Nat : two = 2
      OBVIOUS
    <3>2. B = zero..(zero + two - 1)
      BY <2>1, <3>1
    <3> QED BY <3>1, <3>2, IntervalSize
  <2>4. T = A \X B
    OBVIOUS
  <2> HIDE DEF A, B, T
  <2>5. IsFiniteSet(A \X B) /\ Cardinality(A \X B) = Cardinality(A) * Cardinality(B)
    BY <2>2, <2>3, FS_Product
  <2> QED BY <2>2, <2>3, <2>4, <2>5
<1>11. IsFiniteSet(P) /\ Cardinality(P) = Cardinality(T)
  <2> HIDE DEF f, T
  <2>1. f \in Injection(P, T) /\ f \in Surjection(P, T)
    BY <1>9 DEF Bijection
  <2> QED BY <1>10, <2>1, FS_Injection
<1> QED BY <1>10, <1>11 DEF P, m

\* The matches of a in a complete schedule are those of its canonical indices.
LEMMA MatchesPlayed ==
    ASSUME Covered, PairingsInOrder, n >= 2, k > 0, i = Total, NEW a \in 0..(n - 1)
    PROVE  Matches(a) = Cardinality(Played(n, k, seed, a))
<1> DEFINE D == 0..(Total - 1)
           P == Played(n, k, seed, a)
           M == {m \in DOMAIN pairings : pairings[m][1] = a \/ pairings[m][2] = a}
<1>0. DOMAIN pairings = 1..i /\ Total \in Nat /\ Schedulable(n, k, seed)
  BY SchedulableHere DEF PairingsInOrder
<1>1. PICK f \in Bijection(D, D) :
         \A m \in 1..i : m - 1 \in D
                         /\ pairings[m] = CanonicalToPair(n, k, seed, f[m - 1])
  BY PairOfMatch
<1>2. /\ \A x \in D : f[x] \in D
      /\ \A x, y \in D : f[x] = f[y] => x = y
      /\ \A y \in D : \E x \in D : f[x] = y
  BY <1>1 DEF Bijection, Injection, Surjection, IsInjective
<1>3. \A c : c \in P <=> c \in D /\ (CanonicalToPair(n, k, seed, c)[1] = a
                                     \/ CanonicalToPair(n, k, seed, c)[2] = a)
  BY DEF Played, Total
<1> HIDE DEF P
<1> DEFINE g == [m \in M |-> f[m - 1]]
<1>4. \A m \in M : m \in Int /\ m - 1 \in D /\ f[m - 1] \in P
  <2> SUFFICES ASSUME NEW m \in M PROVE m \in Int /\ m - 1 \in D /\ f[m - 1] \in P
    OBVIOUS
  <2>1. m \in 1..i /\ (pairings[m][1] = a \/ pairings[m][2] = a)
    BY <1>0
  <2>2. m - 1 \in D /\ pairings[m] = CanonicalToPair(n, k, seed, f[m - 1])
    BY <1>1, <2>1
  <2>3. f[m - 1] \in D
    BY <1>2, <2>2
  <2> QED BY <1>3, <2>1, <2>2, <2>3
<1>5. g \in [M -> P]
  BY <1>4
<1>6. \A x, y \in M : g[x] = g[y] => x = y
  <2> SUFFICES ASSUME NEW x \in M, NEW y \in M, g[x] = g[y] PROVE x = y
    OBVIOUS
  <2>1. f[x - 1] = f[y - 1]
    OBVIOUS
  <2>2. x - 1 = y - 1 /\ x \in Int /\ y \in Int
    BY <1>2, <1>4, <2>1
  <2> QED BY <2>2
<1>7. \A c \in P : \E m \in M : g[m] = c
  <2> SUFFICES ASSUME NEW c \in P PROVE \E m \in M : g[m] = c
    OBVIOUS
  <2>1. PICK x \in D : f[x] = c
    BY <1>2, <1>3
  <2> DEFINE m == x + 1
  <2>2. m \in 1..i /\ m - 1 = x
    BY <1>0
  <2> HIDE DEF m
  <2>3. pairings[m] = CanonicalToPair(n, k, seed, c)
    BY <1>1, <2>1, <2>2
  <2>4. m \in M
    BY <1>0, <1>3, <2>2, <2>3
  <2>5. g[m] = f[m - 1]
    BY <2>4
  <2> HIDE DEF M, g
  <2> QED BY <2>1, <2>2, <2>4, <2>5
<1> HIDE DEF M, g
<1>8. g \in Injection(M, P) /\ g \in Surjection(M, P)
  BY <1>5, <1>6, <1>7 DEF Injection, Surjection, IsInjective
<1>9. IsFiniteSet(P)
  BY <1>0, RoundRobinLoad, CircularLoad DEF P
<1>10. Cardinality(M) = Cardinality(P)
  BY <1>8, <1>9, FS_Injection
<1> QED BY <1>10 DEF Matches, M, P

LEMMA InOrderEqualLoad ==
    ASSUME Covered, PairingsInOrder
    PROVE  EqualLoad
<1>0. /\ n \in Nat /\ k \in Nat /\ i \in Nat
      /\ n \in 0..MaxN /\ k \in 0..MaxK /\ seed \in SeedsFor(n, k)
      /\ DOMAIN pairings = 1..i
  BY SeedsAssumption DEF PairingsInOrder
<1> SUFFICES ASSUME i = Total, NEW a \in 0..(n - 1)
             PROVE  /\ n * Matches(a) = 2 * Total
                    /\ n > k /\ k > 0 =>
                          Matches(a) = IF n = k + 1 THEN k ELSE 2 * CeilDiv(k, 2)
  BY DEF EqualLoad
<1>1. CASE n < 2 \/ k = 0
  <2>1. Total = 0
    BY <1>0, <1>1, SchedulableHere
  <2>2. DOMAIN pairings = {}
    BY <1>0, <2>1
  <2>3. Matches(a) = 0
    BY <2>2, FS_EmptySet DEF Matches
  <2> QED BY <1>0, <1>1, <2>1, <2>3
<1>2. CASE n >= 2 /\ k > 0
  <2>1. Schedulable(n, k, seed)
    BY <1>0, <1>2, SchedulableHere
  <2>2. Matches(a) = Cardinality(Played(n, k, seed, a))
    BY <1>2, MatchesPlayed
  <2>3. CASE RoundRobin(n, k)
    <3> DEFINE m == CeilDiv(k, n - 1)
               w == PairCount(n)
    <3>1. Matches(a) = m * (n - 1)
      BY <2>1, <2>2, <2>3, RoundRobinLoad
    <3>2. m \in Nat /\ w \in Nat /\ 2 * w = n * (n - 1) /\ (k = n - 1 => m = 1)
      BY <1>0, <1>2, PairCountIsTri, CyclesType
    <3>3. Total = w * m
      BY <1>0, <1>2, <2>3 DEF Total, CalculateMatchCount
    <3> HIDE DEF m, w
    <3>4. n * Matches(a) = 2 * Total
      <4>1. n * (m * (n - 1)) = (n * (n - 1)) * m
        BY <1>0, <3>2
      <4>2. (2 * w) * m = 2 * (w * m)
        BY <3>2
      <4> QED BY <3>1, <3>2, <3>3, <4>1, <4>2
    <3>5. ASSUME n > k PROVE n = k + 1 /\ Matches(a) = k
      <4>1. n = k + 1
        BY <1>0, <2>3, <3>5 DEF RoundRobin
      <4>2. m = 1 /\ n - 1 = k
        BY <1>0, <3>2, <4>1
      <4> QED BY <1>0, <3>1, <4>1, <4>2
    <3> QED BY <3>4, <3>5
  <2>4. CASE ~RoundRobin(n, k)
    <3> DEFINE m == OffsetsToUse(n, k)
    <3>1. Matches(a) = m * 2
      BY <2>1, <2>2, <2>4, CircularLoad
    <3>2. m \in Nat
      BY <1>0, <1>2, OffsetsType, AvailableBounds
    <3>3. Total = m * n
      BY <1>0, <1>2, <2>4 DEF Total, CalculateMatchCount
    <3>4. m = CeilDiv(k, 2)
      BY <1>0, <1>2, <2>4 DEF RoundRobin, OffsetsToUse, Lesser, Available, CeilDiv
    <3>5. n # k + 1
      BY <1>0, <2>4 DEF RoundRobin
    <3> HIDE DEF m
    <3>6. n * Matches(a) = 2 * Total
      <4>1. n * (m * 2) = 2 * (m * n)
        BY <1>0, <3>2
      <4> QED BY <3>1, <3>3, <4>1
    <3>7. Matches(a) = 2 * CeilDiv(k, 2)
      BY <3>1, <3>2, <3>4
    <3> QED BY <3>5, <3>6, <3>7
  <2> QED BY <2>3, <2>4
<1> QED BY <1>0, <1>1, <1>2

\* generate_all_pairings: for every number of participants, K and seed the complete
\* schedule gives every participant the same number of matches, K of them if n is
\* K + 1 and K rounded up to an even number with more participants.
THEOREM EverybodyPlaysTheSame ==
    ASSUME Covered
    PROVE  Spec => []EqualLoad
<1>1. Init => PairingsInOrder
  BY ScheduleInit
<1>2. PairingsInOrder /\ [Generate]_vars => PairingsInOrder'
  BY ScheduleNext
<1>3. PairingsInOrder => EqualLoad
  BY InOrderEqualLoad
<1> QED BY <1>1, <1>2, <1>3, PTL DEF Spec

=============================================================================
