--------------------------- MODULE EnumTypes_proofs ---------------------------
(***************************************************************************)
(* Enums and bitmasks of any list of symbols and integers and any native   *)
(* type: what C gives comes back to C, and flags come back as they went.   *)
(***************************************************************************)
EXTENDS EnumTypes, WellFoundedInduction, TLAPS

-----------------------------------------------------------------------------
(* Induction: a set of naturals with 0 and every successor is all of them. *)

LEMMA SetInduction ==
  ASSUME NEW S \in SUBSET Nat, 0 \in S, \A n \in S : n + 1 \in S
  PROVE  S = Nat
<1> SUFFICES ASSUME Nat \ S # {} PROVE FALSE
  OBVIOUS
<1> DEFINE T == Nat \ S
           R == OpToRel(<, Nat)
<1>1. IsWellFoundedOn(R, Nat)
  BY NatLessThanWellFounded
<1>2. \A x, y \in Nat : y < x => <<y, x>> \in R
  BY DEF OpToRel
<1> HIDE DEF R
<1>3. T \in SUBSET Nat /\ T # {}
  OBVIOUS
<1> HIDE DEF T
<1>4. PICK x \in T : \A y \in T : ~ (<<y, x>> \in R)
  BY <1>1, <1>3, WFMin
<1>5. x \in Nat /\ x \notin S
  BY DEF T
<1>6. x # 0 /\ x - 1 \in Nat /\ x - 1 < x /\ (x - 1) + 1 = x
  BY <1>5
<1>7. x - 1 \notin T
  BY <1>2, <1>4, <1>5, <1>6
<1> QED  BY <1>5, <1>6, <1>7 DEF T

(* The same up to a bound. *)
LEMMA BoundedInduction ==
  ASSUME NEW m \in Nat, NEW S \in SUBSET (0 .. m),
         0 \in S, \A n \in S : n < m => n + 1 \in S
  PROVE  S = 0 .. m
<1> DEFINE T == {n \in Nat : n <= m => n \in S}
<1>1. T \in SUBSET Nat /\ 0 \in T
  OBVIOUS
<1>2. ASSUME NEW n \in T PROVE n + 1 \in T
  OBVIOUS
<1>3. T = Nat
  <2> HIDE DEF T
  <2> QED  BY <1>1, <1>2, SetInduction
<1>4. \A n \in 0 .. m : n \in S
  BY <1>3
<1> QED  BY <1>4

(* A loop of m rounds that computes a value of V from the one before: the      *)
(* functions of the rounds that are defined by it, and that there is one.      *)
Loops(m, V, base, step) ==
  {f \in [0 .. m -> V] : f[0] = base /\ \A n \in 1 .. m : f[n] = step[n][f[n - 1]]}

LEMMA Recursion ==
  ASSUME NEW m \in Nat, NEW V, NEW base \in V, NEW step \in [1 .. m -> [V -> V]]
  PROVE  Loops(m, V, base, step) # {}
<1> DEFINE Loop(f, k) == f[0] = base /\ \A n \in 1 .. k : f[n] = step[n][f[n - 1]]
           S == {k \in 0 .. m : \E f \in [0 .. k -> V] : Loop(f, k)}
<1>1. 0 \in S
  <2> DEFINE f == [n \in 0 .. 0 |-> base]
  <2>1. f \in [0 .. 0 -> V] /\ Loop(f, 0)
    OBVIOUS
  <2> HIDE DEF f, Loop
  <2>2. 0 \in 0 .. m
    OBVIOUS
  <2> QED  BY <2>1, <2>2
<1>2. ASSUME NEW k \in S, k < m PROVE k + 1 \in S
  <2>1. PICK f \in [0 .. k -> V] : Loop(f, k)
    OBVIOUS
  <2> DEFINE new == step[k + 1][f[k]]
             g == [n \in 0 .. k + 1 |-> IF n = k + 1 THEN new ELSE f[n]]
  <2>2. /\ k \in Nat /\ k + 1 \in 0 .. m /\ k + 1 \in 1 .. m /\ k \in 0 .. k
        /\ \A n \in 0 .. k + 1 : n = k + 1 \/ n \in 0 .. k
        /\ \A n \in 0 .. k : n \in 0 .. k + 1 /\ n # k + 1
        /\ \A n \in 1 .. k + 1 : n = k + 1 \/ n \in 1 .. k
        /\ \A n \in 1 .. k + 1 : n - 1 \in 0 .. k /\ n \in 0 .. k + 1
        /\ (k + 1) - 1 = k
    BY <1>2
  <2>3. new \in V
    BY <2>2
  <2> HIDE DEF new
  <2>4. g \in [0 .. k + 1 -> V]
    BY <2>2, <2>3
  <2>5. g[k + 1] = new /\ \A n \in 0 .. k : g[n] = f[n]
    BY <2>2
  <2> HIDE DEF g
  <2>6. ASSUME NEW n \in 1 .. k + 1 PROVE g[n] = step[n][g[n - 1]]
    <3>1. CASE n = k + 1
      BY <2>2, <2>5, <3>1 DEF new
    <3>2. CASE n \in 1 .. k
      <4>1. n \in 0 .. k /\ g[n] = f[n] /\ g[n - 1] = f[n - 1]
        BY <2>2, <2>5, <3>2
      <4> QED  BY <2>1, <3>2, <4>1
    <3> QED  BY <2>2, <3>1, <3>2
  <2>7. g[0] = base
    BY <2>1, <2>2, <2>5
  <2> QED  BY <2>2, <2>4, <2>6, <2>7
<1>3. S = 0 .. m
  <2>1. S \in SUBSET (0 .. m)
    OBVIOUS
  <2> HIDE DEF S
  <2> QED  BY <1>1, <1>2, <2>1, BoundedInduction
<1>4. m \in S
  <2>1. m \in 0 .. m
    OBVIOUS
  <2> HIDE DEF S
  <2> QED  BY <1>3, <2>1
<1> HIDE DEF Loop
<1>5. \E f \in [0 .. m -> V] : Loop(f, m)
  BY <1>4
<1> QED  BY <1>5 DEF Loop, Loops

-----------------------------------------------------------------------------
(* Numbers and their bits. *)

(* The powers of two. *)
LEMMA PowerDef ==
  /\ Pow2[0] = 1
  /\ \A n \in 0 .. MaxBit + 1 : Pow2[n] \in Nat \ {0}
  /\ \A n \in 0 .. MaxBit : Pow2[n + 1] = 2 * Pow2[n]
<1> DEFINE m == MaxBit + 1
           V == Nat \ {0}
           step == [n \in 1 .. m |-> [x \in V |-> 2 * x]]
           Loop(f) == [n \in 0 .. m |-> IF n = 0 THEN 1 ELSE 2 * f[n - 1]]
<1>1. m \in Nat /\ 1 \in V /\ MaxBit \in Nat
  BY EnumAssumption
<1>2. PICK f \in [0 .. m -> V] : f = Loop(f)
  <2>1. step \in [1 .. m -> [V -> V]]
    OBVIOUS
  <2>2. \A n \in 1 .. m, x \in V : step[n][x] = 2 * x
    OBVIOUS
  <2> HIDE DEF V, step, m
  <2>3. Loops(m, V, 1, step) # {}
    BY <1>1, <2>1, Recursion
  <2>4. PICK f \in [0 .. m -> V] : f[0] = 1 /\ \A n \in 1 .. m : f[n] = step[n][f[n - 1]]
    BY <2>3 DEF Loops
  <2>5. \A n \in 0 .. m : n # 0 => n \in 1 .. m /\ n - 1 \in 0 .. m
    BY <1>1
  <2>6. \A n \in 0 .. m : f[n] = Loop(f)[n]
    BY <2>2, <2>4, <2>5
  <2> QED  BY <2>4, <2>6
<1>3. Pow2 = Loop(Pow2)
  BY <1>2 DEF Pow2
<1> DEFINE S == {n \in 0 .. m : Pow2[n] \in V}
<1>4. \A n \in 0 .. m : Pow2[n] = IF n = 0 THEN 1 ELSE 2 * Pow2[n - 1]
  <2> HIDE DEF m
  <2> QED  BY <1>3
<1>5. 0 \in S
  BY <1>1, <1>4
<1>6. ASSUME NEW n \in 0 .. m, n < m
      PROVE  n + 1 \in 0 .. m /\ Pow2[n + 1] = 2 * Pow2[n]
  BY <1>1, <1>4, <1>6
<1>7. \A n \in S : n < m => n + 1 \in S
  BY <1>6
<1>8. S = 0 .. m
  <2>1. S \in SUBSET (0 .. m)
    OBVIOUS
  <2> HIDE DEF S, m
  <2> QED  BY <1>1, <1>5, <1>7, <2>1, BoundedInduction
<1>9. \A n \in 0 .. MaxBit : n \in 0 .. m /\ n < m
  BY <1>1
<1>10. \A n \in 0 .. MaxBit : Pow2[n + 1] = 2 * Pow2[n]
  BY <1>6, <1>9
<1> QED  BY <1>1, <1>4, <1>5, <1>8, <1>10

(* The sum OfBits takes, up to each bit. *)
Below(B) ==
  CHOOSE f : f = [i \in 0 .. MaxBit + 1 |->
                    IF i = 0 THEN 0 ELSE f[i - 1] + IF i - 1 \in B THEN Pow2[i - 1] ELSE 0]

LEMMA BelowDef ==
  ASSUME NEW B
  PROVE  /\ OfBits(B) = Below(B)[MaxBit + 1]
         /\ Below(B)[0] = 0
         /\ \A i \in 0 .. MaxBit + 1 : Below(B)[i] \in Nat /\ Below(B)[i] < Pow2[i]
         /\ \A i \in 0 .. MaxBit :
              Below(B)[i + 1] = Below(B)[i] + IF i \in B THEN Pow2[i] ELSE 0
<1> DEFINE m == MaxBit + 1
           bit(i) == IF i \in B THEN Pow2[i] ELSE 0
           step == [i \in 1 .. m |-> [x \in Nat |-> x + bit(i - 1)]]
           Loop(f) == [i \in 0 .. m |-> IF i = 0 THEN 0 ELSE f[i - 1] + bit(i - 1)]
           b == CHOOSE f : f = Loop(f)
<1>1. m \in Nat /\ 0 \in Nat /\ MaxBit \in Nat /\ \A i \in 0 .. MaxBit : i + 1 \in 1 .. m /\ i \in 0 .. m
  BY EnumAssumption
<1>2. \A i \in 1 .. m : i - 1 \in 0 .. m /\ i - 1 \in 0 .. MaxBit
  BY <1>1
<1>3. \A i \in 0 .. MaxBit : bit(i) \in Nat /\ bit(i) <= Pow2[i]
  BY PowerDef, <1>1
<1> HIDE DEF bit
<1>4. \E f : f = Loop(f)
  <2>1. step \in [1 .. m -> [Nat -> Nat]]
    BY <1>2, <1>3
  <2>2. \A i \in 1 .. m, x \in Nat : step[i][x] = x + bit(i - 1)
    OBVIOUS
  <2> HIDE DEF step, m
  <2>3. Loops(m, Nat, 0, step) # {}
    BY <1>1, <2>1, Recursion
  <2>4. PICK f \in [0 .. m -> Nat] : f[0] = 0 /\ \A i \in 1 .. m : f[i] = step[i][f[i - 1]]
    BY <2>3 DEF Loops
  <2>5. \A i \in 0 .. m : i # 0 => i \in 1 .. m /\ i - 1 \in 0 .. m
    BY <1>1
  <2>6. \A i \in 0 .. m : f[i] = Loop(f)[i]
    BY <2>2, <2>4, <2>5
  <2>7. f = Loop(f)
    BY <2>4, <2>6
  <2> QED  BY <2>7
<1>5. b = Loop(b)
  <2> HIDE DEF Loop
  <2> QED  BY <1>4
<1>6. OfBits(B) = b[m] /\ Below(B) = b
  BY DEF OfBits, Below, bit
<1> HIDE DEF b
<1>7. \A i \in 0 .. m : b[i] = IF i = 0 THEN 0 ELSE b[i - 1] + bit(i - 1)
  <2> HIDE DEF m
  <2> QED  BY <1>5
<1> DEFINE S == {i \in 0 .. m : b[i] \in Nat /\ b[i] < Pow2[i]}
<1>8. \A i \in 0 .. MaxBit : i + 1 \in 0 .. m /\ b[i + 1] = b[i] + bit(i)
  BY <1>1, <1>7
<1>9. 0 \in S /\ b[0] = 0
  BY <1>1, <1>7, PowerDef
<1>10. ASSUME NEW i \in S, i < m PROVE i + 1 \in S
  <2>1. i \in 0 .. MaxBit
    BY <1>1, <1>10
  <2> QED  BY <1>3, <1>8, <2>1, PowerDef
<1>11. S = 0 .. m
  <2>1. S \in SUBSET (0 .. m)
    OBVIOUS
  <2> HIDE DEF S, m
  <2> QED  BY <1>1, <1>9, <1>10, <2>1, BoundedInduction
<1>12. \A i \in 0 .. m : b[i] \in Nat /\ b[i] < Pow2[i]
  BY <1>11
<1> QED  BY <1>6, <1>8, <1>9, <1>12 DEF bit

(* Quotient and remainder. *)
LEMMA Quotient ==
  ASSUME NEW n \in Int, NEW b \in Nat \ {0}
  PROVE  n \div b \in Int /\ n % b \in 0 .. b - 1 /\ n = (b * (n \div b)) + (n % b)
OBVIOUS

LEMMA Remaining ==
  ASSUME NEW n \in Int, NEW b \in Nat \ {0}, NEW q \in Int, NEW r \in 0 .. b - 1,
         n = (b * q) + r
  PROVE  n % b = r
<1> DEFINE p == n \div b
           t == n % b
<1>1. b * q \in Int
  OBVIOUS
<1>2. p \in Int /\ t \in 0 .. b - 1 /\ n = (b * p) + t
  BY Quotient
<1> DEFINE d == q - p
<1>3. d \in Int /\ b * d = t - r
  BY <1>1, <1>2
<1> HIDE DEF d, p, t
<1>4. b * d < b /\ b * d > -b
  BY <1>2, <1>3
<1>5. d <= 0
  <2> SUFFICES ASSUME d >= 1 PROVE FALSE
    BY <1>3
  <2>1. b * d >= b
    BY <1>3
  <2> QED  BY <1>3, <1>4, <2>1
<1>6. d >= 0
  <2> SUFFICES ASSUME d <= -1 PROVE FALSE
    BY <1>3
  <2>1. b * d <= -b
    BY <1>3
  <2> QED  BY <1>3, <1>4, <2>1
<1>7. d = 0
  BY <1>3, <1>5, <1>6
<1>8. b * d = 0
  BY <1>7
<1>9. t = r
  BY <1>2, <1>3, <1>8
<1> QED  BY <1>9 DEF t

(* A lower power divides a higher one, and is less. *)
LEMMA PowersDivide ==
  ASSUME NEW i \in 0 .. MaxBit + 1, NEW k \in i .. MaxBit + 1
  PROVE  \E c \in Nat \ {0} : Pow2[k] = Pow2[i] * c
<1> DEFINE Divided(j) == \E c \in Nat \ {0} : Pow2[j] = Pow2[i] * c
           S == {j \in 0 .. k : j >= i => Divided(j)}
<1>1. i \in Nat /\ k \in Nat /\ MaxBit \in Nat /\ k <= MaxBit + 1 /\ i <= k
  BY EnumAssumption
<1>2. Divided(i)
  <2>1. Pow2[i] = Pow2[i] * 1
    BY PowerDef
  <2> QED  BY <2>1
<1>3. ASSUME NEW j \in S, j < k PROVE j + 1 \in S
  <2>1. j \in 0 .. MaxBit /\ j + 1 \in 0 .. k
    BY <1>1, <1>3
  <2>2. CASE j >= i
    <3>1. PICK c \in Nat \ {0} : Pow2[j] = Pow2[i] * c
      BY <1>3, <2>2
    <3>2. Pow2[j + 1] = 2 * Pow2[j] /\ Pow2[i] \in Nat
      BY <2>1, PowerDef
    <3>3. Pow2[j + 1] = Pow2[i] * (2 * c) /\ 2 * c \in Nat \ {0}
      BY <3>1, <3>2
    <3>4. Divided(j + 1)
      BY <3>3
    <3> HIDE DEF Divided
    <3> QED  BY <2>1, <3>4
  <2>3. CASE ~ (j >= i)
    <3>1. j + 1 >= i => j + 1 = i
      BY <1>1, <2>1, <2>3
    <3> HIDE DEF Divided
    <3> QED  BY <1>2, <2>1, <3>1
  <2> QED  BY <2>2, <2>3
<1>4. 0 \in S
  <2>1. 0 >= i => i = 0
    BY <1>1
  <2>2. 0 \in 0 .. k
    BY <1>1
  <2> HIDE DEF Divided
  <2> QED  BY <1>2, <2>1, <2>2
<1>5. S = 0 .. k
  <2>1. S \in SUBSET (0 .. k)
    OBVIOUS
  <2> HIDE DEF S
  <2> QED  BY <1>1, <1>3, <1>4, <2>1, BoundedInduction
<1>6. k \in S /\ k >= i
  BY <1>1, <1>5
<1> QED  BY <1>6

LEMMA PowersGrow ==
  ASSUME NEW i \in 0 .. MaxBit + 1, NEW k \in 0 .. MaxBit + 1
  PROVE  /\ i < k => Pow2[i] < Pow2[k]
         /\ Pow2[i] = Pow2[k] => i = k
<1>1. ASSUME NEW x \in 0 .. MaxBit + 1, NEW y \in 0 .. MaxBit + 1, x < y
      PROVE  Pow2[x] < Pow2[y]
  <2>1. x \in 0 .. MaxBit /\ x + 1 \in 0 .. MaxBit + 1 /\ y \in x + 1 .. MaxBit + 1
    BY <1>1, EnumAssumption
  <2>2. PICK c \in Nat \ {0} : Pow2[y] = Pow2[x + 1] * c
    BY <2>1, PowersDivide
  <2>3. Pow2[x] \in Nat \ {0} /\ Pow2[x + 1] = 2 * Pow2[x] /\ Pow2[x + 1] \in Nat \ {0}
    BY <2>1, PowerDef
  <2>4. Pow2[x + 1] * c >= Pow2[x + 1]
    BY <2>3
  <2> QED  BY <2>2, <2>3, <2>4
<1>2. Pow2[i] \in Nat /\ Pow2[k] \in Nat /\ i \in Int /\ k \in Int
  BY PowerDef
<1> QED  BY <1>1, <1>2

(* The low bits of a number are those of its remainder. *)
LEMMA LowBits ==
  ASSUME NEW n \in Int, NEW k \in 0 .. MaxBit + 1, NEW i \in 0 .. k
  PROVE  (n % Pow2[k]) % Pow2[i] = n % Pow2[i]
<1>1. i \in 0 .. MaxBit + 1 /\ k \in i .. MaxBit + 1
  BY EnumAssumption
<1>2. PICK c \in Nat \ {0} : Pow2[k] = Pow2[i] * c
  BY <1>1, PowersDivide
<1> DEFINE b == Pow2[i]
           q == n \div Pow2[k]
           r == n % Pow2[k]
           p == r \div b
           t == r % b
<1>3. b \in Nat \ {0} /\ Pow2[k] \in Nat \ {0}
  BY <1>1, PowerDef
<1>4. q \in Int /\ r \in Int /\ n = ((b * c) * q) + r
  <2>1. q \in Int /\ r \in 0 .. Pow2[k] - 1 /\ n = (Pow2[k] * q) + r
    BY <1>3, Quotient
  <2> QED  BY <1>2, <1>3, <2>1
<1>5. p \in Int /\ t \in 0 .. b - 1 /\ r = (b * p) + t
  BY <1>3, <1>4, Quotient
<1> HIDE DEF b, q, r, p, t
<1>6. (b * c) * q = b * (c * q) /\ c * q \in Int
  BY <1>3, <1>4
<1>7. b * ((c * q) + p) = (b * (c * q)) + (b * p) /\ (c * q) + p \in Int
  BY <1>3, <1>5, <1>6
<1>8. b * (c * q) \in Int /\ b * p \in Int
  BY <1>3, <1>5, <1>6
<1>9. n = (b * ((c * q) + p)) + t
  BY <1>4, <1>5, <1>6, <1>7, <1>8
<1>10. n % b = t
  BY <1>3, <1>5, <1>7, <1>9, Remaining
<1> QED  BY <1>10 DEF t, r, b

(* One bit more of a number. *)
LEMMA BitStep ==
  ASSUME NEW n \in Int, NEW i \in 0 .. MaxBit
  PROVE  n % Pow2[i + 1] = (n % Pow2[i]) + IF i \in Bits(n) THEN Pow2[i] ELSE 0
<1> DEFINE b == Pow2[i]
           q == n \div b
           r == n % b
           p == q \div 2
           t == q % 2
<1>1. b \in Nat \ {0} /\ Pow2[i + 1] = 2 * b /\ i \in 0 .. MaxBit + 1
  BY PowerDef, EnumAssumption
<1>2. q \in Int /\ r \in 0 .. b - 1 /\ n = (b * q) + r
  BY <1>1, Quotient
<1>3. i \in Bits(n) <=> t = 1
  BY DEF Bits
<1> HIDE DEF b, q, r
<1>4. p \in Int /\ t \in 0 .. 1 /\ q = (2 * p) + t
  BY <1>2
<1> HIDE DEF p, t
<1>5. b * q = ((2 * b) * p) + (b * t)
  BY <1>1, <1>2, <1>4
<1>6. b * t \in Nat /\ b * t = IF t = 1 THEN b ELSE 0
  BY <1>1, <1>4
<1>7. (2 * b) * p \in Int
  BY <1>1, <1>4
<1>8. n = ((2 * b) * p) + (r + (b * t)) /\ r + (b * t) \in 0 .. (2 * b) - 1 /\ 2 * b \in Nat \ {0}
  BY <1>1, <1>2, <1>5, <1>6, <1>7
<1>9. n % (2 * b) = r + (b * t)
  BY <1>1, <1>4, <1>8, Remaining
<1> QED  BY <1>1, <1>3, <1>6, <1>9 DEF r, b

(* Numbers that agree in their low bits. *)
LEMMA SameLowBits ==
  ASSUME NEW n \in Int, NEW m \in Int, NEW k \in 0 .. MaxBit + 1, n % Pow2[k] = m % Pow2[k]
  PROVE  Bits(n) \cap (0 .. k - 1) = Bits(m) \cap (0 .. k - 1)
<1> SUFFICES ASSUME NEW i \in 0 .. k - 1 PROVE i \in Bits(n) <=> i \in Bits(m)
  OBVIOUS
<1>1. i \in 0 .. MaxBit /\ i \in 0 .. MaxBit + 1 /\ i \in 0 .. k /\ i + 1 \in 0 .. k
  BY EnumAssumption
<1>2. n % Pow2[i] = m % Pow2[i] /\ n % Pow2[i + 1] = m % Pow2[i + 1]
  <2>1. \A x \in {i, i + 1} : n % Pow2[x] = (n % Pow2[k]) % Pow2[x]
    BY <1>1, LowBits
  <2>2. \A x \in {i, i + 1} : m % Pow2[x] = (m % Pow2[k]) % Pow2[x]
    BY <1>1, LowBits
  <2> QED  BY <2>1, <2>2
<1>3. Pow2[i] \in Nat \ {0}
  BY <1>1, PowerDef
<1>4. n % Pow2[i] \in Int
  <2>1. n % Pow2[i] \in 0 .. Pow2[i] - 1
    BY <1>3, Quotient
  <2> QED  BY <1>3, <2>1
<1>5. /\ n % Pow2[i + 1] = (n % Pow2[i]) + IF i \in Bits(n) THEN Pow2[i] ELSE 0
      /\ m % Pow2[i + 1] = (m % Pow2[i]) + IF i \in Bits(m) THEN Pow2[i] ELSE 0
  BY <1>1, BitStep
<1> QED  BY <1>2, <1>3, <1>4, <1>5

(* The sum of a number's bits is the number. *)
LEMMA BelowBits ==
  ASSUME NEW n \in Int, NEW k \in 0 .. MaxBit + 1
  PROVE  Below(Bits(n))[k] = n % Pow2[k]
<1> DEFINE m == MaxBit + 1
           b == Below(Bits(n))
           S == {i \in 0 .. m : b[i] = n % Pow2[i]}
<1>1. m \in Nat /\ MaxBit \in Nat
  BY EnumAssumption
<1>2. 0 \in S
  <2>1. n = (1 * n) + 0 /\ 0 \in 0 .. 1 - 1 /\ 1 \in Nat \ {0}
    OBVIOUS
  <2>2. n % 1 = 0
    BY <2>1, Remaining
  <2>3. b[0] = 0
    BY BelowDef
  <2>4. 0 \in 0 .. m
    BY <1>1
  <2> QED  BY <2>2, <2>3, <2>4, PowerDef
<1>3. ASSUME NEW i \in S, i < m PROVE i + 1 \in S
  <2>1. i \in 0 .. MaxBit /\ i + 1 \in 0 .. m
    BY <1>1, <1>3
  <2>2. b[i + 1] = b[i] + IF i \in Bits(n) THEN Pow2[i] ELSE 0
    BY <2>1, BelowDef
  <2>3. b[i + 1] = n % Pow2[i + 1]
    BY <2>1, <2>2, BitStep
  <2> QED  BY <2>1, <2>3
<1>4. S = 0 .. m
  <2>1. S \in SUBSET (0 .. m)
    OBVIOUS
  <2> HIDE DEF S, m
  <2> QED  BY <1>1, <1>2, <1>3, <2>1, BoundedInduction
<1> QED  BY <1>4

LEMMA OfBitsBits ==
  ASSUME NEW n \in 0 .. Pow2[MaxBit + 1] - 1
  PROVE  OfBits(Bits(n)) = n
<1> DEFINE b == Pow2[MaxBit + 1]
<1>1. b \in Nat \ {0} /\ MaxBit + 1 \in 0 .. MaxBit + 1
  BY PowerDef, EnumAssumption
<1>2. OfBits(Bits(n)) = n % b
  BY <1>1, BelowDef, BelowBits
<1> HIDE DEF b
<1>3. n \in Int /\ n \in 0 .. b - 1 /\ n = (b * 0) + n
  BY <1>1 DEF b
<1>4. n % b = n
  BY <1>1, <1>3, Remaining
<1> QED  BY <1>2, <1>4

(* The sum of the low bits depends on the low bits only. *)
LEMMA BelowSame ==
  ASSUME NEW B, NEW C, NEW k \in 0 .. MaxBit + 1, B \cap (0 .. k - 1) = C \cap (0 .. k - 1)
  PROVE  Below(B)[k] = Below(C)[k]
<1> DEFINE b == Below(B)
           c == Below(C)
           S == {i \in 0 .. k : b[i] = c[i]}
<1>1. k \in Nat /\ \A i \in 0 .. k : i < k => i \in 0 .. k - 1 /\ i \in 0 .. MaxBit /\ i + 1 \in 0 .. k
  BY EnumAssumption
<1>2. 0 \in S
  <2>1. b[0] = 0 /\ c[0] = 0
    BY BelowDef
  <2> HIDE DEF b, c
  <2> QED  BY <1>1, <2>1
<1>3. ASSUME NEW i \in S, i < k PROVE i + 1 \in S
  <2>1. i \in B <=> i \in C
    BY <1>1, <1>3
  <2>2. i \in 0 .. MaxBit /\ i + 1 \in 0 .. k
    BY <1>1, <1>3
  <2>3. /\ b[i + 1] = b[i] + IF i \in B THEN Pow2[i] ELSE 0
        /\ c[i + 1] = c[i] + IF i \in C THEN Pow2[i] ELSE 0
    BY <2>2, BelowDef
  <2> HIDE DEF b, c
  <2> QED  BY <2>1, <2>2, <2>3
<1>4. S = 0 .. k
  <2>1. S \in SUBSET (0 .. k)
    OBVIOUS
  <2> HIDE DEF S
  <2> QED  BY <1>1, <1>2, <1>3, <2>1, BoundedInduction
<1>5. k \in S
  BY <1>1, <1>4
<1> QED  BY <1>5

(* Higher bits change neither the low bits nor, if there are none, the sum. *)
LEMMA BelowHigher ==
  ASSUME NEW B, NEW k \in 0 .. MaxBit + 1
  PROVE  /\ OfBits(B) % Pow2[k] = Below(B)[k]
         /\ B \cap (k .. MaxBit) = {} => OfBits(B) = Below(B)[k]
<1> DEFINE m == MaxBit + 1
           b == Below(B)
           p == Pow2[k]
           None == B \cap (k .. MaxBit) = {}
           Sum(i) == /\ b[i] % p = b[k]
                     /\ None => b[i] = b[k]
           S == {i \in 0 .. m : i >= k => Sum(i)}
<1>1. m \in Nat /\ k \in Nat /\ k \in 0 .. m /\ MaxBit \in Nat
  BY EnumAssumption
<1>2. p \in Nat \ {0} /\ b[k] \in 0 .. p - 1
  BY PowerDef, BelowDef
<1>3. \A i \in 0 .. m : b[i] \in Nat
  BY BelowDef
<1>4. \A i \in 0 .. MaxBit : b[i + 1] = b[i] + IF i \in B THEN Pow2[i] ELSE 0
  BY BelowDef
<1> HIDE DEF b
<1>5. Sum(k)
  <2>1. b[k] = (p * 0) + b[k] /\ b[k] \in Int
    BY <1>1, <1>2, <1>3
  <2>2. b[k] % p = b[k]
    <3> HIDE DEF p
    <3> QED  BY <1>2, <2>1, Remaining
  <2> QED  BY <2>2
<1>6. ASSUME NEW i \in S, i < m PROVE i + 1 \in S
  <2>1. i \in 0 .. MaxBit /\ i \in 0 .. m /\ i + 1 \in 0 .. m
    BY <1>1, <1>6
  <2>2. CASE i >= k
    <3>1. Sum(i)
      BY <1>6, <2>2
    <3>2. CASE i \notin B
      <4>1. b[i + 1] = b[i]
        BY <1>3, <1>4, <2>1, <3>2
      <4> QED  BY <2>1, <3>1, <4>1
    <3>3. CASE i \in B
      <4>1. ~ None
        BY <2>1, <2>2, <3>3
      <4>2. i \in k .. MaxBit + 1
        BY <1>1, <2>1, <2>2
      <4>3. PICK c \in Nat \ {0} : Pow2[i] = p * c
        BY <4>2, PowersDivide
      <4> DEFINE q == b[i] \div p
                 r == b[i] % p
      <4>4. q \in Int /\ r \in 0 .. p - 1 /\ b[i] = (p * q) + r
        <5>1. b[i] \in Int
          BY <1>3, <2>1
        <5> HIDE DEF p
        <5> QED  BY <1>2, <5>1, Quotient
      <4>5. b[i + 1] = b[i] + (p * c)
        BY <1>4, <2>1, <3>3, <4>3
      <4>6. r = b[k]
        BY <3>1
      <4> HIDE DEF p, q, r, None
      <4>7. p * (q + c) = (p * q) + (p * c) /\ p * q \in Int /\ p * c \in Int /\ q + c \in Int
        BY <1>2, <4>4
      <4>8. b[i + 1] = (p * (q + c)) + r /\ b[i + 1] \in Int
        BY <4>4, <4>5, <4>7
      <4>9. b[i + 1] % p = r
        BY <1>2, <4>4, <4>7, <4>8, Remaining
      <4> QED  BY <2>1, <4>1, <4>6, <4>9
    <3> QED  BY <3>2, <3>3
  <2>3. CASE ~ (i >= k)
    <3>1. i + 1 >= k => i + 1 = k
      BY <1>1, <2>1, <2>3
    <3> HIDE DEF Sum
    <3> QED  BY <1>5, <2>1, <3>1
  <2> QED  BY <2>2, <2>3
<1>7. 0 \in S
  <2>1. 0 >= k => 0 = k
    BY <1>1
  <2>2. 0 \in 0 .. m
    BY <1>1
  <2> HIDE DEF Sum
  <2> QED  BY <1>5, <2>1, <2>2
<1>8. S = 0 .. m
  <2>1. S \in SUBSET (0 .. m)
    OBVIOUS
  <2> HIDE DEF S, m
  <2> QED  BY <1>1, <1>6, <1>7, <2>1, BoundedInduction
<1>9. Sum(m)
  <2>1. m \in S /\ m >= k
    BY <1>1, <1>8
  <2> HIDE DEF Sum
  <2> QED  BY <2>1
<1>10. OfBits(B) = b[m]
  BY BelowDef DEF b
<1> QED  BY <1>9, <1>10 DEF b

(* A number has the bits it was made of. *)
LEMMA BitsOfBits ==
  ASSUME NEW B \in SUBSET (0 .. MaxBit)
  PROVE  OfBits(B) \in 0 .. Pow2[MaxBit + 1] - 1 /\ Bits(OfBits(B)) = B
<1> DEFINE n == OfBits(B)
<1>1. MaxBit \in Nat /\ MaxBit + 1 \in 0 .. MaxBit + 1
  BY EnumAssumption
<1>2. n \in Nat /\ n < Pow2[MaxBit + 1] /\ Pow2[MaxBit + 1] \in Nat
  BY <1>1, BelowDef, PowerDef
<1> HIDE DEF n
<1>3. ASSUME NEW i \in 0 .. MaxBit PROVE i \in Bits(n) <=> i \in B
  <2>1. i \in 0 .. MaxBit + 1 /\ i + 1 \in 0 .. MaxBit + 1
    BY <1>1
  <2>2. n % Pow2[i] = Below(B)[i] /\ n % Pow2[i + 1] = Below(B)[i + 1]
    BY <2>1, BelowHigher DEF n
  <2>3. Below(B)[i + 1] = Below(B)[i] + IF i \in B THEN Pow2[i] ELSE 0
    BY BelowDef
  <2>4. n % Pow2[i + 1] = (n % Pow2[i]) + IF i \in Bits(n) THEN Pow2[i] ELSE 0
    BY <1>2, BitStep
  <2>5. Below(B)[i] \in Nat /\ Pow2[i] \in Nat \ {0}
    BY <2>1, BelowDef, PowerDef
  <2> QED  BY <2>2, <2>3, <2>4, <2>5
<1>4. Bits(n) \subseteq 0 .. MaxBit
  BY DEF Bits
<1> QED  BY <1>2, <1>3, <1>4 DEF n

LEMMA NoBits == OfBits({}) = 0 /\ Bits(0) = {}
<1>1. 0 \in 0 .. MaxBit + 1 /\ {} \cap (0 .. MaxBit) = {} /\ {} \in SUBSET (0 .. MaxBit)
  BY EnumAssumption
<1>2. OfBits({}) = Below({})[0]
  BY <1>1, BelowHigher
<1>3. OfBits({}) = 0
  BY <1>2, BelowDef
<1> QED  BY <1>1, <1>3, BitsOfBits

(* Integers of Ruby and their bits. *)
LEMMA RubyBits ==
  ASSUME NEW B \in SUBSET (0 .. MaxBit), NEW negative \in BOOLEAN
  PROVE  /\ RubyInteger(B, negative) \in Int /\ Bits(RubyInteger(B, negative)) = B
         /\ RubyInteger(B, negative) < 0 <=> negative
         /\ ~negative => RubyInteger(B, negative) = OfBits(B)
<1> DEFINE p == Pow2[MaxBit + 1]
           v == OfBits(B)
           n == RubyInteger(B, negative)
<1>1. p \in Nat \ {0} /\ MaxBit \in Nat /\ MaxBit + 1 \in 0 .. MaxBit + 1
  BY PowerDef, EnumAssumption
<1>2. v \in 0 .. p - 1 /\ Bits(v) = B
  BY BitsOfBits
<1>3. n = v - IF negative THEN p ELSE 0
  BY DEF RubyInteger
<1> HIDE DEF n, v, p
<1>4. n \in Int /\ (n < 0 <=> negative) /\ (~negative => n = v)
  BY <1>1, <1>2, <1>3
<1>5. n % p = v /\ v % p = v
  <2>1. \E q \in Int : n = (p * q) + v
    <3>1. n = (p * (-1)) + v \/ n = (p * 0) + v
      BY <1>1, <1>2, <1>3
    <3> QED  BY <3>1
  <2>2. v = (p * 0) + v /\ v \in Int
    BY <1>1, <1>2
  <2>3. n % p = v
    BY <1>1, <1>2, <1>4, <2>1, Remaining
  <2>4. v % p = v
    BY <1>1, <1>2, <2>2, Remaining
  <2> QED  BY <2>3, <2>4
<1>6. Bits(n) \cap (0 .. MaxBit) = Bits(v) \cap (0 .. MaxBit)
  <2>1. (MaxBit + 1) - 1 = MaxBit /\ v \in Int
    BY <1>1, <1>2
  <2>2. n % Pow2[MaxBit + 1] = v % Pow2[MaxBit + 1]
    BY <1>5 DEF p
  <2>3. Bits(n) \cap (0 .. (MaxBit + 1) - 1) = Bits(v) \cap (0 .. (MaxBit + 1) - 1)
    BY <1>1, <1>4, <2>1, <2>2, SameLowBits
  <2> QED  BY <2>1, <2>3
<1>7. Bits(n) \subseteq 0 .. MaxBit /\ Bits(v) \subseteq 0 .. MaxBit
  BY DEF Bits
<1> QED  BY <1>2, <1>4, <1>6, <1>7 DEF n, v

LEMMA RubyIntegerOfBits ==
  ASSUME NEW n \in Int, -Pow2[MaxBit + 1] <= n, n < Pow2[MaxBit + 1]
  PROVE  RubyInteger(Bits(n), n < 0) = n
<1> DEFINE p == Pow2[MaxBit + 1]
<1>1. p \in Nat \ {0} /\ MaxBit + 1 \in 0 .. MaxBit + 1
  BY PowerDef, EnumAssumption
<1>2. OfBits(Bits(n)) = n % p
  BY <1>1, BelowDef, BelowBits
<1>3. RubyInteger(Bits(n), n < 0) = (n % p) - IF n < 0 THEN p ELSE 0
  BY <1>2 DEF RubyInteger
<1> HIDE DEF p
<1>4. CASE n < 0
  <2>1. n = (p * (-1)) + (n + p) /\ n + p \in 0 .. p - 1 /\ n + p \in Int
    BY <1>1, <1>4 DEF p
  <2>2. n % p = n + p
    BY <1>1, <2>1, Remaining
  <2> QED  BY <1>1, <1>3, <1>4, <2>2
<1>5. CASE ~(n < 0)
  <2>1. n = (p * 0) + n /\ n \in 0 .. p - 1
    BY <1>1, <1>5 DEF p
  <2>2. n % p = n
    BY <1>1, <2>1, Remaining
  <2> QED  BY <1>1, <1>3, <1>5, <2>2
<1> QED  BY <1>4, <1>5

LEMMA OneBit ==
  ASSUME NEW r \in 0 .. MaxBit
  PROVE  Bits(Pow2[r]) = {r}
<1>1. r \in 0 .. MaxBit + 1 /\ r + 1 \in 0 .. MaxBit + 1 /\ 0 \in 0 .. MaxBit + 1
  BY EnumAssumption
<1>2. Below({r})[r] = 0
  <2> DEFINE B == {r}
             C == {}
  <2>1. B \cap (0 .. r - 1) = C \cap (0 .. r - 1)
    OBVIOUS
  <2> HIDE DEF B, C
  <2>2. Below(B)[r] = Below(C)[r]
    BY ONLY <1>1, <2>1, BelowSame
  <2>3. Below({})[r] = 0
    <3>1. {} \cap (r .. MaxBit) = {}
      OBVIOUS
    <3> QED  BY <1>1, <3>1, BelowHigher, NoBits
  <2> QED  BY <2>2, <2>3 DEF B, C
<1>3. Below({r})[r + 1] = Pow2[r]
  BY <1>1, <1>2, BelowDef, PowerDef
<1>4. OfBits({r}) = Pow2[r]
  <2>1. {r} \cap (r + 1 .. MaxBit) = {}
    OBVIOUS
  <2> QED  BY <1>1, <1>3, <2>1, BelowHigher
<1>5. Bits(OfBits({r})) = {r}
  BY BitsOfBits
<1> QED  BY <1>4, <1>5

-----------------------------------------------------------------------------
(* Enums. *)

(* A set of naturals that is bounded has a largest one.                      *)
LEMMA LargestExists ==
  ASSUME NEW m \in Nat, NEW S \in SUBSET (1..m), S # {}
  PROVE  Max(S) \in S /\ \A y \in S : Max(S) >= y
<1> DEFINE T == {m - i : i \in S}
           R == OpToRel(<, Nat)
<1>1. IsWellFoundedOn(R, Nat)
  BY NatLessThanWellFounded
<1>2. \A x, y \in Nat : y < x => <<y, x>> \in R
  BY DEF OpToRel
<1> HIDE DEF R
<1>3. T \in SUBSET Nat /\ T # {}
  <2>1. \A i \in S : m - i \in Nat
    OBVIOUS
  <2>2. PICK i \in S : TRUE
    OBVIOUS
  <2>3. m - i \in T
    BY <2>2
  <2> QED  BY <2>1, <2>3
<1>4. PICK x \in T : \A y \in T : ~ (<<y, x>> \in R)
  <2> HIDE DEF T
  <2> QED  BY <1>1, <1>3, WFMin
<1>5. PICK i \in S : x = m - i
  OBVIOUS
<1>6. \A y \in S : i >= y
  <2> SUFFICES ASSUME NEW y \in S, ~ (i >= y) PROVE FALSE
    OBVIOUS
  <2>1. m - y \in T /\ m - y \in Nat /\ x \in Nat /\ m - y < x
    BY <1>5
  <2> HIDE DEF T
  <2> QED  BY <1>2, <1>4, <2>1
<1> QED  BY <1>6 DEF Max

-----------------------------------------------------------------------------
\* Each symbol has one value, in a bitmask a single bit; the next value stays below
\* MaxBit for as many items as may follow
Entry == [key : Symbol, val : Int]
Powers == {Pow2[r] : r \in 0..MaxBit}
EnumIInv ==
  /\ isBitmask \in BOOLEAN /\ native \in NativeTypes
  /\ kvMap \in Seq(Entry)
  /\ \A i, j \in DOMAIN kvMap : kvMap[i].key = kvMap[j].key => i = j
  /\ isBitmask => \A i \in DOMAIN kvMap : kvMap[i].val \in Powers
  /\ nextValue \in Int /\ (isBitmask => nextValue >= 0)
  /\ nextValue + (MaxItems - items) <= MaxBit
  /\ lastCst \in Symbol \cup {NoSymbol} /\ items \in 0..MaxItems

LEMMA MeaningTyped ==
  ASSUME NEW n \in Int, isBitmask => n \in 0..MaxBit
  PROVE  Meaning(n) \in Int /\ (isBitmask => Meaning(n) \in Powers)
<1>1. \A k \in 0..MaxBit : k \in 0..(MaxBit + 1)
  BY EnumAssumption
<1> QED  BY <1>1, PowerDef DEF Meaning, Powers

LEMMA ReadSymbolInv ==
  ASSUME EnumIInv, NEW s \in Symbol, ReadSymbol(s)
  PROVE  EnumIInv'
<1> DEFINE e == [key |-> s, val |-> Meaning(nextValue)]
<1>1. /\ kvMap' = Append(kvMap, e) /\ lastCst' = s /\ nextValue' = nextValue + 1
      /\ items' = items + 1 /\ items < MaxItems /\ UNCHANGED <<isBitmask, native>>
      /\ kvMap \in Seq(Entry)
  BY DEF ReadSymbol, EnumIInv
<1>2. e \in Entry /\ e.key = s /\ (isBitmask => e.val \in Powers)
  <2>1. nextValue \in Int /\ (isBitmask => nextValue \in 0..MaxBit)
    BY <1>1, EnumAssumption DEF EnumIInv
  <2> QED  BY <2>1, MeaningTyped DEF Entry
<1>3. \A i \in DOMAIN kvMap : kvMap[i].key # s
  BY DEF ReadSymbol, Keys
<1> HIDE DEF e
<1>4. /\ kvMap' \in Seq(Entry) /\ Len(kvMap) \in Nat
      /\ DOMAIN kvMap' = 1..(Len(kvMap) + 1) /\ DOMAIN kvMap = 1..Len(kvMap)
      /\ kvMap'[Len(kvMap) + 1] = e /\ \A i \in 1..Len(kvMap) : kvMap'[i] = kvMap[i]
  BY <1>1, <1>2
<1>5. \A i \in 1..(Len(kvMap) + 1) : i \in 1..Len(kvMap) \/ i = Len(kvMap) + 1
  BY <1>4
<1>6. \A i, j \in DOMAIN kvMap' : kvMap'[i].key = kvMap'[j].key => i = j
  BY <1>2, <1>3, <1>4, <1>5 DEF EnumIInv
<1>7. isBitmask' => \A i \in DOMAIN kvMap' : kvMap'[i].val \in Powers
  BY <1>1, <1>2, <1>4, <1>5 DEF EnumIInv
<1>8. /\ nextValue' \in Int /\ (isBitmask' => nextValue' >= 0) /\ items' \in 0..MaxItems
      /\ nextValue' + (MaxItems - items') <= MaxBit
  BY <1>1, EnumAssumption DEF EnumIInv
<1> QED  BY <1>1, <1>4, <1>6, <1>7, <1>8 DEF EnumIInv

LEMMA ReadIntegerInv ==
  ASSUME EnumIInv, NEW n \in Given, ReadInteger(n)
  PROVE  EnumIInv'
<1> DEFINE changed(i) == IF kvMap[i].key = lastCst THEN [kvMap[i] EXCEPT !.val = Meaning(n)] ELSE kvMap[i]
<1>1. /\ kvMap' = [i \in DOMAIN kvMap |-> changed(i)] /\ nextValue' = n + 1
      /\ items' = items + 1 /\ items < MaxItems /\ UNCHANGED <<isBitmask, native, lastCst>>
      /\ kvMap \in Seq(Entry) /\ n \in Int /\ (isBitmask => n >= 0)
  BY EnumAssumption DEF ReadInteger, EnumIInv
<1>2. Meaning(n) \in Int /\ (isBitmask => Meaning(n) \in Powers)
  <2>1. n + MaxItems <= MaxBit /\ MaxItems \in Nat /\ MaxBit \in Nat
    BY EnumAssumption
  <2> QED  BY <1>1, <2>1, MeaningTyped
<1>3. \A i \in DOMAIN kvMap :
        /\ changed(i) \in Entry /\ changed(i).key = kvMap[i].key
        /\ isBitmask => changed(i).val \in Powers
  <2> SUFFICES ASSUME NEW i \in DOMAIN kvMap
               PROVE  /\ changed(i) \in Entry /\ changed(i).key = kvMap[i].key
                      /\ isBitmask => changed(i).val \in Powers
    OBVIOUS
  <2>1. kvMap[i] \in Entry /\ (isBitmask => kvMap[i].val \in Powers)
    BY <1>1 DEF EnumIInv
  <2> QED  BY <1>2, <2>1 DEF Entry
<1> HIDE DEF changed
<1>4. /\ kvMap' \in Seq(Entry) /\ DOMAIN kvMap' = DOMAIN kvMap
      /\ \A i \in DOMAIN kvMap : kvMap'[i].key = kvMap[i].key
      /\ isBitmask' => \A i \in DOMAIN kvMap' : kvMap'[i].val \in Powers
  <2>1. DOMAIN kvMap = 1..Len(kvMap) /\ Len(kvMap) \in Nat
    BY <1>1
  <2>2. kvMap' \in [1..Len(kvMap) -> Entry]
    BY <1>1, <1>3, <2>1
  <2>3. kvMap' \in Seq(Entry)
    BY <2>1, <2>2
  <2> QED  BY <1>1, <1>3, <2>3
<1>5. \A i, j \in DOMAIN kvMap' : kvMap'[i].key = kvMap'[j].key => i = j
  BY <1>4 DEF EnumIInv
<1>6. /\ nextValue' \in Int /\ (isBitmask' => nextValue' >= 0) /\ items' \in 0..MaxItems
      /\ nextValue' + (MaxItems - items') <= MaxBit
  <2>1. n + MaxItems <= MaxBit
    BY EnumAssumption
  <2> QED  BY <1>1, <2>1, EnumAssumption DEF EnumIInv
<1> QED  BY <1>1, <1>4, <1>5, <1>6 DEF EnumIInv

LEMMA EnumInitInv == EnumInit => EnumIInv
<1> SUFFICES ASSUME EnumInit PROVE EnumIInv
  OBVIOUS
<1>1. kvMap \in Seq(Entry) /\ DOMAIN kvMap = {}
  BY DEF EnumInit
<1> QED  BY <1>1, EnumAssumption DEF EnumInit, EnumIInv

LEMMA EnumNextInv == EnumIInv /\ [EnumNext]_enumVars => EnumIInv'
<1> SUFFICES ASSUME EnumIInv, [EnumNext]_enumVars PROVE EnumIInv'
  OBVIOUS
<1>1. CASE UNCHANGED enumVars
  BY <1>1 DEF enumVars, EnumIInv
<1> QED  BY <1>1, ReadSymbolInv, ReadIntegerInv DEF EnumNext

THEOREM EnumInvariant == EnumSpec => []EnumIInv
BY EnumInitInv, EnumNextInv, PTL DEF EnumSpec

LEMMA EnumTypesHold == EnumIInv => EnumTypeOK
<1> SUFFICES ASSUME EnumIInv PROVE EnumTypeOK
  OBVIOUS
<1>1. \A i \in DOMAIN kvMap : kvMap[i] \in Entry
  BY DEF EnumIInv
<1> QED  BY <1>1 DEF EnumIInv, EnumTypeOK, Entry

(* A symbol's value is that of its entry.                                    *)
LEMMA ValueOfEntry ==
  ASSUME EnumIInv, NEW i \in DOMAIN kvMap
  PROVE  ValueOf(kvMap[i].key) = kvMap[i].val /\ kvMap[i].key \in Symbol /\ kvMap[i].val \in Int
<1> DEFINE e == kvMap[i]
<1>1. e \in ToSet(kvMap) /\ \A f \in ToSet(kvMap) : \E j \in DOMAIN kvMap : f = kvMap[j]
  BY DEF ToSet
<1>2. \A f \in ToSet(kvMap) : f.key = e.key => f = e
  BY <1>1 DEF EnumIInv
<1>3. (CHOOSE f \in ToSet(kvMap) : f.key = e.key) = e
  BY <1>1, <1>2
<1>4. e \in Entry
  BY DEF EnumIInv
<1> QED  BY <1>3, <1>4 DEF ValueOf, Entry

(* An integer comes back through the symbol it became, or as itself.         *)
LEMMA IntegerComesBack ==
  ASSUME EnumIInv, NEW n \in Int
  PROVE  EnumToNative(EnumFromNative(n)) = n
<1> DEFINE I == {i \in 1..Len(kvMap) : kvMap[i].val = n}
<1>1. SelectLastInSeq(kvMap, LAMBDA e : e.val = n) = IF I # {} THEN Max(I) ELSE 0
  BY DEF SelectLastInSeq
<1>2. CASE I = {}
  <2>1. EnumFromNative(n) = n
    BY <1>1, <1>2 DEF EnumFromNative
  <2> QED  BY <2>1, EnumAssumption DEF EnumToNative
<1>3. CASE I # {}
  <2>1. Len(kvMap) \in Nat /\ DOMAIN kvMap = 1..Len(kvMap)
    BY DEF EnumIInv
  <2>2. PICK i : i = Max(I) /\ i \in I
    <3>1. I \in SUBSET (1..Len(kvMap))
      OBVIOUS
    <3> HIDE DEF I
    <3> QED  BY <1>3, <2>1, <3>1, LargestExists
  <2>3. i \in DOMAIN kvMap /\ i # 0 /\ kvMap[i].val = n
    BY <2>1, <2>2
  <2>4. EnumFromNative(n) = kvMap[i].key
    BY <1>1, <1>3, <2>2, <2>3 DEF EnumFromNative
  <2> QED  BY <2>3, <2>4, ValueOfEntry DEF EnumToNative
<1> QED  BY <1>2, <1>3

(* For every list of symbols and integers an enum is declared by, every      *)
(* integer, and the value of every symbol, comes back to C unchanged.        *)
THEOREM EnumValuesComeBack == EnumSpec => []EnumsInvert
<1>1. EnumIInv => EnumsInvert
  <2> SUFFICES ASSUME EnumIInv PROVE EnumsInvert
    OBVIOUS
  <2>1. \A n \in NativeValues : n \in Int
    BY DEF NativeValues
  <2>2. ASSUME NEW s \in Keys PROVE EnumToNative(s) \in Int
    <3>1. PICK i \in DOMAIN kvMap : s = kvMap[i].key
      BY DEF Keys
    <3> QED  BY <3>1, ValueOfEntry DEF EnumToNative
  <2> QED  BY <2>1, <2>2, IntegerComesBack DEF EnumsInvert
<1> QED  BY <1>1, EnumInvariant, PTL

-----------------------------------------------------------------------------
(* Bitmasks. *)

(* The bits of a bitmask's symbols: each symbol has one. *)
Ranks(flags) == {r \in 0..MaxBit : \E s \in flags : ValueOf(s) = Pow2[r]}

LEMMA SymbolBit ==
  ASSUME EnumIInv, isBitmask, NEW s \in Keys
  PROVE  \E r \in 0..MaxBit : ValueOf(s) = Pow2[r] /\ Bits(ValueOf(s)) = {r}
<1>1. PICK i \in DOMAIN kvMap : s = kvMap[i].key
  BY DEF Keys
<1>2. PICK r \in 0..MaxBit : kvMap[i].val = Pow2[r]
  BY DEF EnumIInv, Powers
<1> QED  BY <1>1, <1>2, ValueOfEntry, OneBit

LEMMA NamedBits ==
  ASSUME EnumIInv, isBitmask, NEW flags \in SUBSET Keys
  PROVE  /\ UNION {Bits(ValueOf(s)) : s \in flags} = Ranks(flags)
         /\ Ranks(flags) \in SUBSET (0..MaxBit)
<1> SUFFICES ASSUME NEW r
             PROVE  r \in UNION {Bits(ValueOf(s)) : s \in flags} <=> r \in Ranks(flags)
  BY DEF Ranks
<1>1. ASSUME NEW s \in flags, r \in Bits(ValueOf(s)) PROVE r \in Ranks(flags)
  <2>1. PICK q \in 0..MaxBit : ValueOf(s) = Pow2[q] /\ Bits(ValueOf(s)) = {q}
    BY SymbolBit
  <2> QED  BY <1>1, <2>1 DEF Ranks
<1>2. ASSUME r \in Ranks(flags) PROVE \E s \in flags : r \in Bits(ValueOf(s))
  <2>1. PICK s \in flags : r \in 0..MaxBit /\ ValueOf(s) = Pow2[r]
    BY <1>2 DEF Ranks
  <2> QED  BY <2>1, OneBit
<1> QED  BY <1>1, <1>2

(* The flags of a value are those whose bit it has. *)
LEMMA FlagsByRank ==
  ASSUME EnumIInv, isBitmask, NEW n \in Int
  PROVE  /\ FlagsIn(n) \in SUBSET Keys
         /\ FlagsIn(n) = {s \in Keys : \E r \in Bits(n) : ValueOf(s) = Pow2[r]}
         /\ Ranks(FlagsIn(n)) \subseteq Bits(n)
<1>1. Bits(n) \subseteq 0..MaxBit
  BY DEF Bits
<1>2. ASSUME NEW s \in Keys, NEW r \in Bits(n), ValueOf(s) = Pow2[r]
      PROVE  s \in FlagsIn(n)
  <2>1. Bits(ValueOf(s)) = {r}
    BY <1>1, <1>2, OneBit
  <2> QED  BY <2>1 DEF FlagsIn
<1>3. ASSUME NEW s \in FlagsIn(n) PROVE s \in Keys /\ \E r \in Bits(n) : ValueOf(s) = Pow2[r] /\ Bits(ValueOf(s)) = {r}
  <2>1. s \in Keys /\ Bits(ValueOf(s)) \cap Bits(n) # {}
    BY DEF FlagsIn
  <2> QED  BY <2>1, SymbolBit
<1>4. ASSUME NEW r \in Ranks(FlagsIn(n)) PROVE r \in Bits(n)
  <2>1. PICK s \in FlagsIn(n) : r \in 0..MaxBit /\ ValueOf(s) = Pow2[r]
    BY DEF Ranks
  <2>2. PICK q \in Bits(n) : Bits(ValueOf(s)) = {q}
    BY <1>3
  <2> QED  BY <2>1, <2>2, OneBit
<1> QED  BY <1>2, <1>3, <1>4

(* The native type's numbers. *)
LEMMA Width ==
  ASSUME EnumIInv
  PROVE  /\ native.bits \in 1..MaxBit /\ native.bits \in 0..(MaxBit + 1)
         /\ native.signed \in BOOLEAN /\ native.listed \in BOOLEAN /\ (native.listed => native.signed)
         /\ Pow2[native.bits] \in Nat \ {0} /\ Pow2[native.bits - 1] \in Nat \ {0}
         /\ Pow2[native.bits] = 2 * Pow2[native.bits - 1]
         /\ Pow2[native.bits] < Pow2[MaxBit + 1] /\ Pow2[MaxBit + 1] \in Nat
<1>1. /\ native.bits \in 1..MaxBit /\ MaxBit \in Nat
      /\ native.signed \in BOOLEAN /\ native.listed \in BOOLEAN /\ (native.listed => native.signed)
  BY EnumAssumption DEF EnumIInv
<1> DEFINE k == native.bits
<1>2. /\ k \in 0..(MaxBit + 1) /\ k - 1 \in 0..MaxBit /\ k - 1 \in 0..(MaxBit + 1) /\ (k - 1) + 1 = k
      /\ MaxBit + 1 \in 0..(MaxBit + 1) /\ k < MaxBit + 1
  BY <1>1
<1> HIDE DEF k
<1>3. /\ Pow2[k] \in Nat \ {0} /\ Pow2[k - 1] \in Nat \ {0} /\ Pow2[MaxBit + 1] \in Nat
      /\ Pow2[k] = 2 * Pow2[k - 1]
  BY <1>2, PowerDef
<1>4. Pow2[k] < Pow2[MaxBit + 1]
  BY <1>2, PowersGrow
<1> QED  BY <1>1, <1>2, <1>3, <1>4 DEF k

LEMMA NativeTyped ==
  ASSUME EnumIInv, NEW n \in NativeValues
  PROVE  /\ n \in Int
         /\ native.signed => n >= -Pow2[native.bits - 1] /\ n < Pow2[native.bits - 1]
         /\ ~native.signed => n >= 0 /\ n < Pow2[native.bits]
<1> DEFINE h == Pow2[native.bits - 1]
           p == Pow2[native.bits]
<1>1. h \in Nat \ {0} /\ p \in Nat \ {0}
  BY Width
<1>2. n \in -p..p /\ IF native.signed THEN n \in -h..(h - 1) ELSE n \in 0..(p - 1)
  BY DEF NativeValues, InRange
<1> HIDE DEF h, p
<1>3. n \in Int
  BY <1>1, <1>2
<1>4. native.signed => n >= -h /\ n < h
  BY <1>1, <1>2
<1>5. ~native.signed => n >= 0 /\ n < p
  BY <1>1, <1>2
<1> QED  BY <1>3, <1>4, <1>5 DEF h, p

(* What C gives: to_native puts together the bits of the flags and of the      *)
(* remainder, which are the flags' and the value's.                            *)
LEMMA GivenBack ==
  ASSUME EnumIInv, isBitmask, NEW n \in Int
  PROVE  \E W \in SUBSET (0..MaxBit) :
           /\ (UNION {Bits(ValueOf(s)) : s \in FlagsIn(n)}) \cup Bits(Remainder(n)) = W
           /\ W \cap (0..(native.bits - 1)) = Bits(n) \cap (0..(native.bits - 1))
           /\ W \subseteq Bits(n)
           /\ ~native.listed => W = Bits(n)
           /\ Remainder(n) < 0 <=> ~native.listed /\ n < 0
<1> DEFINE named == UNION {Bits(ValueOf(s)) : s \in FlagsIn(n)}
           low == 0..(native.bits - 1)
           val == IF native.listed THEN Bits(n) \cap low ELSE Bits(n)
           negative == ~native.listed /\ n < 0
           odd == (val \ named) \cup (named \ val)
<1>1. named \subseteq Bits(n) /\ Bits(n) \subseteq 0..MaxBit
  <2>1. named = Ranks(FlagsIn(n)) /\ Ranks(FlagsIn(n)) \subseteq Bits(n)
    BY FlagsByRank, NamedBits
  <2> QED  BY <2>1 DEF Bits
<1>2. Remainder(n) = RubyInteger(odd, negative)
  BY DEF Remainder
<1>3. odd \in SUBSET (0..MaxBit)
  <2> HIDE DEF named, low
  <2> QED  BY <1>1
<1>4. Bits(Remainder(n)) = odd /\ (Remainder(n) < 0 <=> negative)
  <2>1. negative \in BOOLEAN
    OBVIOUS
  <2> HIDE DEF odd, negative
  <2> QED  BY <1>2, <1>3, <2>1, RubyBits
<1> HIDE DEF named, low
<1>5. named \cup odd \in SUBSET (0..MaxBit)
  BY <1>1, <1>3
<1>6. (named \cup odd) \cap low = Bits(n) \cap low
  BY <1>1
<1>7. named \cup odd \subseteq Bits(n) /\ (~native.listed => named \cup odd = Bits(n))
  BY <1>1
<1> HIDE DEF odd
<1> QED  BY <1>4, <1>5, <1>6, <1>7 DEF named, low

LEMMA NativeComesBack ==
  ASSUME EnumIInv, isBitmask, NEW n \in NativeValues
  PROVE  BitmaskToNative(FlagsIn(n), Remainder(n)) = n
<1> DEFINE k == native.bits
           h == Pow2[k - 1]
           p == Pow2[k]
<1>1. /\ k \in 1..MaxBit /\ k \in 0..(MaxBit + 1) /\ p \in Nat \ {0} /\ h \in Nat \ {0} /\ p = 2 * h
      /\ p < Pow2[MaxBit + 1] /\ Pow2[MaxBit + 1] \in Nat
  BY Width
<1>2. /\ n \in Int /\ (native.signed => n >= -h /\ n < h) /\ (~native.signed => n >= 0 /\ n < p)
  BY NativeTyped
<1>3. PICK W \in SUBSET (0..MaxBit) :
        /\ (UNION {Bits(ValueOf(s)) : s \in FlagsIn(n)}) \cup Bits(Remainder(n)) = W
        /\ W \cap (0..(k - 1)) = Bits(n) \cap (0..(k - 1))
        /\ W \subseteq Bits(n)
        /\ ~native.listed => W = Bits(n)
        /\ Remainder(n) < 0 <=> ~native.listed /\ n < 0
  BY <1>2, GivenBack
<1> DEFINE res == OfBits(W)
           ored == RubyInteger(W, Remainder(n) < 0)
<1>4. BitmaskToNative(FlagsIn(n), Remainder(n)) =
        IF native.listed /\ ored >= h THEN -((-ored) % p) ELSE ored
  BY <1>3 DEF BitmaskToNative
<1>10. native.listed => ored = res
  <2> DEFINE below == Remainder(n) < 0
  <2>1. native.listed => below = FALSE
    BY <1>3
  <2>2. ored = RubyInteger(W, below)
    OBVIOUS
  <2> HIDE DEF below, ored
  <2> QED  BY <2>1, <2>2, RubyBits
<1>5. n >= 0 => OfBits(Bits(n)) = n
  <2>1. n >= 0 => n \in 0..(Pow2[MaxBit + 1] - 1)
    BY <1>1, <1>2
  <2> QED  BY <2>1, OfBitsBits
<1>6. res \in Nat /\ res % p = n % p
  <2>1. res \in 0..(Pow2[MaxBit + 1] - 1)
    BY BitsOfBits
  <2>2. res % p = Below(W)[k] /\ Below(W)[k] = Below(Bits(n))[k]
    <3>1. res % p = Below(W)[k]
      BY <1>1, BelowHigher
    <3>2. W \cap (0..(k - 1)) = Bits(n) \cap (0..(k - 1))
      BY <1>3
    <3>3. Below(W)[k] = Below(Bits(n))[k]
      <4> HIDE DEF k
      <4> QED  BY <1>1, <3>2, BelowSame
    <3> QED  BY <3>1, <3>3
  <2>3. Below(Bits(n))[k] = n % p
    BY <1>1, <1>2, BelowBits
  <2> QED  BY <1>1, <2>1, <2>2, <2>3
<1>11. -Pow2[MaxBit + 1] <= n /\ n < Pow2[MaxBit + 1]
  <2> HIDE DEF h, p
  <2> QED  BY <1>1, <1>2
<1>12. CASE ~native.listed
  <2>1. ored = RubyInteger(Bits(n), n < 0)
    <3>1. (Remainder(n) < 0) = (n < 0) /\ W = Bits(n)
      BY <1>3, <1>12
    <3> QED  BY <3>1
  <2>2. ored = n
    <3> HIDE DEF ored
    <3> QED  BY <1>2, <1>11, <2>1, RubyIntegerOfBits
  <2> HIDE DEF ored
  <2> QED  BY <1>4, <1>12, <2>2
<1>7. native.listed => /\ native.signed
                       /\ BitmaskToNative(FlagsIn(n), Remainder(n)) =
                            IF res >= h THEN -((-res) % p) ELSE res
  <2> HIDE DEF ored, res
  <2> QED  BY <1>4, <1>10, Width
<1> HIDE DEF h, p, ored
<1>8. CASE native.listed /\ n >= 0
  <2>1. W = Bits(n)
    <3>1. ASSUME NEW i \in Bits(n) PROVE i \in 0..(k - 1)
      <4>1. i \in 0..MaxBit /\ MaxBit \in Nat
        BY EnumAssumption DEF Bits
      <4>2. SUFFICES ASSUME k <= i PROVE FALSE
        BY <1>1, <4>1
      <4>3. i \in 0..(MaxBit + 1) /\ i + 1 \in 0..(MaxBit + 1) /\ k <= i + 1
        BY <1>1, <4>1, <4>2
      <4>4. ASSUME NEW j \in 0..(MaxBit + 1), k <= j PROVE n % Pow2[j] = n
        <5>1. Pow2[j] \in Nat \ {0} /\ p <= Pow2[j]
          <6>1. p = Pow2[j] \/ p < Pow2[j]
            BY <1>1, <4>4, PowersGrow DEF p
          <6> QED  BY <1>1, <6>1, PowerDef
        <5>2. n \in 0..(Pow2[j] - 1) /\ n = (Pow2[j] * 0) + n
          BY <1>1, <1>2, <1>7, <1>8, <5>1
        <5> QED  BY <1>2, <5>1, <5>2, Remaining
      <4>5. n % Pow2[i] = n /\ n % Pow2[i + 1] = n
        BY <4>2, <4>3, <4>4
      <4>6. n % Pow2[i + 1] = (n % Pow2[i]) + Pow2[i]
        BY <1>2, <4>1, BitStep
      <4>7. Pow2[i] \in Nat \ {0}
        BY <4>3, PowerDef
      <4> QED  BY <1>2, <4>5, <4>6, <4>7
    <3> QED  BY <1>3, <3>1
  <2>2. res = n
    BY <1>5, <1>8, <2>1
  <2> QED  BY <1>1, <1>2, <1>7, <1>8, <2>2
<1>9. CASE native.listed /\ ~(n >= 0)
  <2> HIDE DEF res
  <2>1. n + p \in 0..(p - 1) /\ n + p >= h /\ n = (p * (-1)) + (n + p)
    BY <1>1, <1>2, <1>7, <1>9
  <2>2. n % p = n + p
    BY <1>1, <1>2, <2>1, Remaining
  <2> DEFINE q == res \div p
  <2>3. q \in Int /\ res = (p * q) + (n + p)
    <3>1. res \in Int
      BY <1>6
    <3>2. q \in Int /\ res = (p * q) + (res % p)
      BY <1>1, <3>1, Quotient
    <3> HIDE DEF q
    <3> QED  BY <1>6, <2>2, <3>2
  <2> HIDE DEF q
  <2>4. q >= 0
    <3> SUFFICES ASSUME q <= -1 PROVE FALSE
      BY <2>3
    <3>1. p * q <= -p /\ p * q \in Int
      BY <1>1, <2>3
    <3> QED  BY <1>1, <1>2, <1>6, <1>7, <1>9, <2>3, <3>1
  <2>5. p * q >= 0 /\ p * q \in Int
    BY <1>1, <2>3, <2>4
  <2>6. res >= h
    BY <1>1, <1>2, <2>1, <2>3, <2>5
  <2>7. p * ((-q) - 1) = -(p * q) - p /\ (-q) - 1 \in Int
    BY <1>1, <2>3
  <2>8. -res = (p * ((-q) - 1)) + (-n) /\ -n \in 0..(p - 1) /\ -res \in Int
    BY <1>1, <1>2, <1>6, <1>7, <1>9, <2>3, <2>5, <2>7
  <2>9. (-res) % p = -n
    <3> DEFINE m == -res
               t == -n
               u == (-q) - 1
    <3>1. m \in Int /\ u \in Int /\ t \in 0..(p - 1) /\ m = (p * u) + t
      BY <2>7, <2>8
    <3> HIDE DEF m, t, u
    <3>2. m % p = t
      BY <1>1, <3>1, Remaining
    <3> QED  BY <3>2 DEF m, t
  <2>10. -(-n) = n
    BY <1>2
  <2> QED  BY <1>7, <1>9, <2>6, <2>9, <2>10
<1> QED  BY <1>2, <1>8, <1>9, <1>12

(* What Ruby gives: flags the type has room for become a number of the type    *)
(* that has their bits as its lowest.                                          *)
LEMMA FlagsToNative ==
  ASSUME EnumIInv, isBitmask,
         NEW flags \in SUBSET {s \in Keys : ValueOf(s) < Pow2[native.bits]}
  PROVE  LET n == BitmaskToNative(flags, 0)
         IN  /\ n \in Int /\ ((native.signed => native.listed) => InRange(n))
             /\ Ranks(flags) \subseteq 0..(native.bits - 1)
             /\ Bits(n) \cap (0..(native.bits - 1)) = Ranks(flags)
             /\ ~native.listed => Bits(n) = Ranks(flags) /\ n >= 0
<1> DEFINE k == native.bits
           h == Pow2[k - 1]
           p == Pow2[k]
           R == Ranks(flags)
           res == OfBits(R)
           n == BitmaskToNative(flags, 0)
<1>1. /\ k \in 1..MaxBit /\ k \in 0..(MaxBit + 1) /\ p \in Nat \ {0} /\ h \in Nat \ {0} /\ p = 2 * h
  BY Width
<1>2. UNION {Bits(ValueOf(s)) : s \in flags} = R /\ R \in SUBSET (0..MaxBit)
  BY NamedBits
<1>3. R \subseteq 0..(k - 1)
  <2> SUFFICES ASSUME NEW r \in R PROVE r \in 0..(k - 1)
    OBVIOUS
  <2>1. r \in 0..MaxBit /\ Pow2[r] < p /\ MaxBit \in Nat /\ r \in 0..(MaxBit + 1)
    BY EnumAssumption DEF Ranks
  <2>2. Pow2[r] \in Nat
    BY <2>1, PowerDef
  <2>3. ~(k <= r)
    <3>1. k < r => p < Pow2[r]
      BY <1>1, <2>1, PowersGrow
    <3> QED  BY <1>1, <2>1, <2>2, <3>1
  <2> QED  BY <1>1, <2>1, <2>3
<1>4. n = IF native.listed /\ res >= h THEN -((-res) % p) ELSE res
  <2>1. (UNION {Bits(ValueOf(s)) : s \in flags}) \cup Bits(0) = R
    BY <1>2, NoBits
  <2>2. RubyInteger(R, 0 < 0) = res
    <3>1. (0 < 0) = FALSE
      OBVIOUS
    <3>2. RubyInteger(R, FALSE) = res
      <4> HIDE DEF R
      <4> QED  BY <1>2, RubyBits
    <3> QED  BY <3>1, <3>2
  <2> HIDE DEF R, res, h, p
  <2>3. n = IF native.listed /\ RubyInteger(R, 0 < 0) >= Pow2[k - 1]
            THEN -((-RubyInteger(R, 0 < 0)) % Pow2[k]) ELSE RubyInteger(R, 0 < 0)
    BY <2>1 DEF BitmaskToNative
  <2> QED  BY <2>2, <2>3 DEF h, p
<1>5. Bits(res) = R
  BY <1>2, BitsOfBits
<1>6. res \in 0..(p - 1)
  <2>1. R \cap (k..MaxBit) = {}
    BY <1>1, <1>2, <1>3
  <2>2. res = Below(R)[k]
    BY <1>1, <2>1, BelowHigher
  <2>3. Below(R)[k] \in Nat /\ Below(R)[k] < p
    BY <1>1, BelowDef
  <2> QED  BY <1>1, <2>2, <2>3
<1>7. InRange(n) <=> IF native.signed THEN n \in -h..(h - 1) ELSE n \in 0..(p - 1)
  BY DEF InRange
<1> HIDE DEF R, res, n
<1>8. /\ n \in Int /\ n % p = res % p
      /\ (native.signed => native.listed) =>
           IF native.signed THEN n \in -h..(h - 1) ELSE n \in 0..(p - 1)
      /\ ~native.listed => n = res /\ n >= 0
  <2> HIDE DEF p, h
  <2>1. CASE ~(native.listed /\ res >= h)
    BY <1>1, <1>4, <1>6, <2>1, Width
  <2>2. CASE native.listed /\ res >= h
    <3> DEFINE m == -res
               t == p - res
               u == -1
    <3>1. m \in Int /\ u \in Int /\ t \in 0..(p - 1) /\ m = (p * u) + t
      BY <1>1, <1>6, <2>2
    <3>2. m % p = t
      <4> HIDE DEF m, t, u
      <4> QED  BY <1>1, <3>1, Remaining
    <3>3. n = -t
      <4> HIDE DEF t
      <4> QED  BY <1>4, <2>2, <3>2
    <3>4. n = res - p /\ n \in -h..(h - 1) /\ n \in Int
      BY <1>1, <1>6, <2>2, <3>3
    <3>5. n = (p * u) + res
      BY <1>1, <1>6, <3>4
    <3>6. n % p = res
      <4> HIDE DEF u
      <4> QED  BY <1>1, <1>6, <3>1, <3>4, <3>5, Remaining
    <3>7. res = (p * 0) + res /\ res \in Int
      BY <1>1, <1>6
    <3>8. res % p = res
      BY <1>1, <1>6, <3>7, Remaining
    <3> QED  BY <2>2, <3>4, <3>6, <3>8, Width
  <2> QED  BY <2>1, <2>2
<1>9. Bits(n) \cap (0..(k - 1)) = Bits(res) \cap (0..(k - 1))
  <2>1. res \in Int
    BY <1>1, <1>6
  <2> HIDE DEF k
  <2> QED  BY <1>1, <1>8, <2>1, SameLowBits
<1>10. Bits(n) \cap (0..(k - 1)) = R
  <2> HIDE DEF k
  <2> QED  BY <1>3, <1>5, <1>9
<1>11. ~native.listed => Bits(n) = R /\ n >= 0
  BY <1>5, <1>8
<1> QED  BY <1>3, <1>7, <1>8, <1>10, <1>11 DEF R, n

(* They come back with their synonyms, no others, and without a remainder.     *)
LEMMA FlagsComeBack ==
  ASSUME EnumIInv, isBitmask, \A s \in Keys : ValueOf(s) < Pow2[native.bits],
         NEW flags \in SUBSET Keys
  PROVE  LET n == BitmaskToNative(flags, 0)
         IN  /\ FlagsIn(n) = {s \in Keys : \E f \in flags : ValueOf(f) = ValueOf(s)}
             /\ Remainder(n) = 0
<1> DEFINE n == BitmaskToNative(flags, 0)
           low == 0..(native.bits - 1)
           R == Ranks(flags)
<1>1. flags \in SUBSET {s \in Keys : ValueOf(s) < Pow2[native.bits]}
  OBVIOUS
<1>2. /\ n \in Int /\ R \subseteq low /\ Bits(n) \cap low = R
      /\ ~native.listed => Bits(n) = R /\ n >= 0
  BY <1>1, FlagsToNative
<1> HIDE DEF n
<1>3. ASSUME NEW s \in Keys, NEW r \in 0..MaxBit, ValueOf(s) = Pow2[r] PROVE r \in low
  <2>1. s \in {x \in Keys : ValueOf(x) < Pow2[native.bits]}
    OBVIOUS
  <2>2. Ranks({s}) \subseteq low
    BY <2>1, FlagsToNative
  <2> QED  BY <1>3, <2>2 DEF Ranks
<1>4. Bits(n) \subseteq 0..MaxBit
  BY DEF Bits
<1>5. FlagsIn(n) = {s \in Keys : \E r \in R : ValueOf(s) = Pow2[r]}
  <2>1. FlagsIn(n) = {s \in Keys : \E r \in Bits(n) : ValueOf(s) = Pow2[r]}
    BY <1>2, FlagsByRank
  <2> HIDE DEF low, R
  <2>2. \A s \in Keys : (\E r \in Bits(n) : ValueOf(s) = Pow2[r]) <=> (\E r \in R : ValueOf(s) = Pow2[r])
    BY <1>2, <1>3, <1>4
  <2> QED  BY <2>1, <2>2
<1>6. FlagsIn(n) = {s \in Keys : \E f \in flags : ValueOf(f) = ValueOf(s)}
  <2>1. ASSUME NEW s \in Keys, NEW r \in R, ValueOf(s) = Pow2[r]
        PROVE  \E f \in flags : ValueOf(f) = ValueOf(s)
    BY <2>1 DEF Ranks
  <2>2. ASSUME NEW s \in Keys, NEW f \in flags, ValueOf(f) = ValueOf(s)
        PROVE  \E r \in R : ValueOf(s) = Pow2[r]
    <3>1. PICK r \in 0..MaxBit : ValueOf(f) = Pow2[r]
      BY SymbolBit
    <3> QED  BY <2>2, <3>1 DEF Ranks
  <2> HIDE DEF R
  <2> QED  BY <1>5, <2>1, <2>2
<1>7. Remainder(n) = 0
  <2> DEFINE val == IF native.listed THEN Bits(n) \cap low ELSE Bits(n)
             named == UNION {Bits(ValueOf(s)) : s \in FlagsIn(n)}
  <2>1. Remainder(n) = OfBits((val \ named) \cup (named \ val))
    <3> DEFINE odd == (val \ named) \cup (named \ val)
    <3>1. Remainder(n) = OfBits(odd) - IF ~native.listed /\ n < 0 THEN Pow2[MaxBit + 1] ELSE 0
      BY DEF Remainder, RubyInteger
    <3>2. ~(~native.listed /\ n < 0)
      BY <1>2
    <3>3. OfBits(odd) \in Int
      <4>1. MaxBit + 1 \in 0..(MaxBit + 1)
        BY EnumAssumption
      <4> HIDE DEF odd
      <4> QED  BY <4>1, BelowDef
    <3> HIDE DEF odd
    <3>4. Remainder(n) = OfBits(odd)
      BY <3>1, <3>2, <3>3
    <3> QED  BY <3>4 DEF odd
  <2>2. val = R
    BY <1>2
  <2>3. named = Ranks(FlagsIn(n))
    <3>1. FlagsIn(n) \in SUBSET Keys
      BY <1>2, FlagsByRank
    <3> QED  BY <3>1, NamedBits
  <2>4. Ranks(FlagsIn(n)) = R
    <3>1. ASSUME NEW r \in Ranks(FlagsIn(n)) PROVE r \in R
      <4>1. PICK s \in FlagsIn(n) : r \in 0..MaxBit /\ ValueOf(s) = Pow2[r]
        BY DEF Ranks
      <4>2. PICK f \in flags : ValueOf(f) = ValueOf(s)
        BY <1>6
      <4> QED  BY <4>1, <4>2 DEF Ranks
    <3>2. ASSUME NEW r \in R PROVE r \in Ranks(FlagsIn(n))
      <4>1. PICK f \in flags : r \in 0..MaxBit /\ ValueOf(f) = Pow2[r]
        BY DEF Ranks
      <4>2. f \in FlagsIn(n)
        BY <1>6
      <4> QED  BY <4>1, <4>2 DEF Ranks
    <3> QED  BY <3>1, <3>2
  <2> HIDE DEF val, named
  <2>5. (val \ named) \cup (named \ val) = {}
    BY <2>2, <2>3, <2>4
  <2> QED  BY <2>1, <2>5, NoBits
<1> QED  BY <1>6, <1>7 DEF n

(* For every bitmask and every native type: what C gives comes back to C       *)
(* unchanged, and flags that are a value of the type come back as they went,   *)
(* as all are that an unsigned type and INT8 to INT64 have room for.           *)
THEOREM BitmasksComeBack == EnumSpec => []BitmasksInvert
<1>1. EnumIInv => BitmasksInvert
  <2> SUFFICES ASSUME EnumIInv, isBitmask PROVE BitmasksInvert
    BY DEF BitmasksInvert
  <2> DEFINE roomy == \A s \in Keys : ValueOf(s) < Pow2[native.bits]
             Fitting == {s \in Keys : ValueOf(s) < Pow2[native.bits]}
             Same(flags, n) == /\ FlagsIn(n) = {s \in Keys : \E f \in flags : ValueOf(f) = ValueOf(s)}
                               /\ Remainder(n) = 0
  <2>1. \A n \in NativeValues : BitmaskToNative(FlagsIn(n), Remainder(n)) = n
    BY NativeComesBack
  <2>2. \A flags \in SUBSET Fitting :
          (native.signed => native.listed) => InRange(BitmaskToNative(flags, 0))
    BY FlagsToNative
  <2>3. ASSUME roomy, NEW flags \in SUBSET Fitting
        PROVE  Same(flags, BitmaskToNative(flags, 0))
    BY <2>3, FlagsComeBack
  <2> HIDE DEF Same
  <2>4. \A flags \in SUBSET Fitting : roomy => Same(flags, BitmaskToNative(flags, 0))
    BY <2>3
  <2> QED  BY <2>1, <2>2, <2>4 DEF BitmasksInvert, Same
<1> QED  BY <1>1, EnumInvariant, PTL

(* What C gives is not lost in Ruby, nor what Ruby gives and C's type can hold,*)
(* for every list of symbols and integers, every native type and every number. *)
THEOREM NothingLost == EnumSpec => []ConversionsInvert
BY EnumValuesComeBack, BitmasksComeBack, PTL DEF ConversionsInvert
=============================================================================
