---------------------------- MODULE Rfgen44Proofs ----------------------------
(***************************************************************************)
(* The command line program, for any generators, invocations, settings,    *)
(* lengths of a macro and number of cable changes:                         *)
(*                                                                         *)
(*   - it never programs a generator that was not meant (RightDevice);     *)
(*   - every variable keeps its type, and what goes to the flash fits its  *)
(*     fields (TypeOK);                                                    *)
(*   - the words of the registers put out the frequency they were computed *)
(*     for, for every frequency and every exact setting (WordsAreExact),   *)
(*     and so do those that a generator holds (WordsAgree);                *)
(*   - a program that ends without a report has done what it was asked     *)
(*     (DoneAsAsked), down to what the device plays of a macro.            *)
(*                                                                         *)
(* The first strengthening says where main() is: before its first          *)
(* operation no generator is chosen, afterwards it is the one that was     *)
(* named, and the blocks of a macro are written only when the version was  *)
(* read from it.  The last says what the operations that are over have     *)
(* left in the generator, as long as nothing failed.                       *)
(***************************************************************************)
EXTENDS Rfgen44, FiniteSetTheorems, SequenceTheorems, WellFoundedInduction, TLAPS

-----------------------------------------------------------------------------
(***************************************************************************)
(* The greatest common divisor: Euclid's algorithm as gcd has it computes  *)
(* it.                                                                     *)
(***************************************************************************)
(* A set of numbers that is not empty has a least one.                     *)
LEMMA LeastNumber ==
  ASSUME NEW S \in SUBSET Nat, S # {}
  PROVE  \E n \in S : \A m \in S : n <= m
<1> DEFINE Less == {p \in Nat \X Nat : p[1] < p[2]}
<1>1. IsWellFoundedOn(Less, Nat)
  BY NatLessThanWellFounded DEF OpToRel
<1>2. \A m, n \in Nat : m < n => <<m, n>> \in Less
  OBVIOUS
<1> HIDE DEF Less
<1>3. PICK n \in S : \A m \in S : ~(<<m, n>> \in Less)
  BY <1>1, WFMin
<1>4. ASSUME NEW m \in S PROVE n <= m
  <2>1. m \in Nat /\ n \in Nat /\ ~(<<m, n>> \in Less)
    BY <1>3
  <2>2. ~(m < n)
    BY <1>2, <2>1, Zenon
  <2> QED
    BY <2>1, <2>2
<1> QED
  BY <1>4

Divides(d, n) == \E q \in Nat : n = d * q
(* g is the greatest common divisor of a and b, by divisibility.           *)
Greatest(g, a, b) ==
  /\ Divides(g, a) /\ Divides(g, b)
  /\ \A d \in Nat : Divides(d, a) /\ Divides(d, b) => Divides(d, g)

(* Quotient and remainder, in the form the lemmas below need them.         *)
LEMMA Quotient ==
  ASSUME NEW a \in Nat, NEW b \in Nat \ {0}
  PROVE  /\ a \div b \in Nat /\ a % b \in Nat /\ a % b < b
         /\ a = b * (a \div b) + (a % b)
OBVIOUS

(* A common divisor divides sums                                           *)
LEMMA DividesSum ==
  ASSUME NEW d \in Nat, NEW m \in Nat, NEW n \in Nat, NEW k \in Nat,
         Divides(d, m), Divides(d, n)
  PROVE  Divides(d, m * k + n)
<1>1. PICK p \in Nat : m = d * p BY DEF Divides
<1>2. PICK q \in Nat : n = d * q BY DEF Divides
<1>3. m * k + n = d * (p * k + q) BY <1>1, <1>2
<1>4. p * k + q \in Nat OBVIOUS
<1> QED BY <1>3, <1>4 DEF Divides

(* and remainders; so a % b has with b the divisors that a has with b.     *)
LEMMA DividesRest ==
  ASSUME NEW d \in Nat, NEW m \in Nat, NEW n \in Nat, NEW k \in Nat,
         Divides(d, m), Divides(d, m * k + n)
  PROVE  Divides(d, n)
<1>1. PICK p \in Nat : m = d * p BY DEF Divides
<1>2. PICK q \in Nat : m * k + n = d * q BY DEF Divides
<1>3. n = d * (q - p * k) BY <1>1, <1>2
<1>4. CASE d = 0
  <2>1. n = d * 0 BY <1>3, <1>4
  <2> QED BY <2>1 DEF Divides
<1>5. CASE d > 0
  <2>1. q - p * k \in Int OBVIOUS
  <2>2. q - p * k >= 0 
    <3>1. ASSUME NEW e \in Int, e < 0 PROVE d * e < 0 BY <1>5, <3>1
    <3> QED BY <1>3, <2>1, <3>1
  <2>3. q - p * k \in Nat BY <2>1, <2>2
  <2> QED BY <1>3, <2>3 DEF Divides
<1> QED BY <1>4, <1>5

(* The greatest divisor of b and a % b is that of a and b.                 *)
LEMMA SameDivisors ==
  ASSUME NEW a \in Nat, NEW b \in Nat \ {0}, NEW d \in Nat, Divides(d, b)
  PROVE  Divides(d, a) <=> Divides(d, a % b)
<1> DEFINE q == a \div b
           r == a % b
<1>1. r \in Nat /\ q \in Nat /\ a = b * q + r BY Quotient
<1> HIDE DEF q, r
<1>2. Divides(d, r) => Divides(d, b * q + r) BY <1>1, DividesSum
<1>3. Divides(d, b * q + r) => Divides(d, r) BY <1>1, DividesRest
<1> QED BY <1>1, <1>2, <1>3 DEF r

(* Numbers that divide each other are equal.                               *)
LEMMA DividesAntisymmetric ==
  ASSUME NEW g \in Nat, NEW h \in Nat, Divides(g, h), Divides(h, g)
  PROVE  g = h
<1>1. PICK p \in Nat : h = g * p BY DEF Divides
<1>2. PICK q \in Nat : g = h * q BY DEF Divides
<1>3. CASE g = 0 BY <1>1, <1>3
<1>4. CASE h = 0 BY <1>2, <1>4
<1>5. CASE g > 0 /\ h > 0
  <2>1. p >= 1 /\ q >= 1 BY <1>1, <1>2, <1>5
  <2>2. ASSUME NEW x \in Nat, NEW y \in Nat, x > 0, y >= 1 PROVE x * y >= x BY <2>2
  <2>3. h >= g /\ g >= h BY <1>1, <1>2, <1>5, <2>1, <2>2
  <2> QED BY <2>3
<1> QED BY <1>3, <1>4, <1>5

(* A number divides itself and 0.                                          *)
LEMMA DividesItself ==
  ASSUME NEW n \in Nat
  PROVE  Divides(n, n) /\ Divides(n, 0)
<1>1. n = n * 1 /\ 0 = n * 0 OBVIOUS
<1> QED BY <1>1 DEF Divides

(* The greatest divisor of a number and 0 is the number.                   *)
LEMMA GreatestWithNone ==
  ASSUME NEW a \in Nat, NEW g \in Nat
  PROVE  (Greatest(g, a, 0) <=> g = a) /\ (Greatest(g, 0, a) <=> g = a)
<1>1. Divides(a, a) /\ Divides(a, 0) BY DividesItself
<1>2. Greatest(a, a, 0) /\ Greatest(a, 0, a) BY <1>1 DEF Greatest
<1>3. ASSUME Greatest(g, a, 0) \/ Greatest(g, 0, a) PROVE g = a
  <2>1. Divides(g, a) /\ Divides(a, g) BY <1>1, <1>3 DEF Greatest
  <2> QED BY <2>1, DividesAntisymmetric
<1> QED BY <1>2, <1>3

(* One step of the algorithm keeps the greatest common divisor.            *)
LEMMA GreatestOfRest ==
  ASSUME NEW a \in Nat, NEW b \in Nat \ {0}, NEW g \in Nat
  PROVE  /\ Greatest(g, a, b) <=> Greatest(g, a % b, b)
         /\ Greatest(g, b, a) <=> Greatest(g, b, a % b)
<1>1. \A d \in Nat : Divides(d, b) => (Divides(d, a) <=> Divides(d, a % b)) BY SameDivisors
<1> QED BY <1>1 DEF Greatest

NextGcd(g) ==
  [p \in Nat \X Nat |->
     LET a == p[1]
         b == p[2]
     IN IF a = 0 THEN b
        ELSE IF b = 0 THEN a
        ELSE IF a > b THEN g[<<a % b, b>>]
        ELSE g[<<a, b % a>>]]

(* The recursive definition of gcd has a solution, so gcd unfolds.         *)
LEMMA GcdExists == \E g : g = NextGcd(g)
<1> DEFINE G(a, b) == CHOOSE g \in Nat : Greatest(g, a, b)
           h == [p \in Nat \X Nat |-> G(p[1], p[2])]
<1>1. ASSUME NEW a \in Nat, NEW b \in Nat
      PROVE  G(a, b) = IF a = 0 THEN b
                       ELSE IF b = 0 THEN a
                       ELSE IF a > b THEN G(a % b, b)
                       ELSE G(a, b % a)
  <2>1. CASE a = 0
    <3>1. \A g \in Nat : Greatest(g, a, b) <=> g = b BY <2>1, GreatestWithNone
    <3>2. G(a, b) = b BY <3>1
    <3> QED BY <2>1, <3>2
  <2>2. CASE a # 0 /\ b = 0
    <3>1. \A g \in Nat : Greatest(g, a, b) <=> g = a BY <2>2, GreatestWithNone
    <3>2. G(a, b) = a BY <3>1
    <3> QED BY <2>2, <3>2
  <2>3. CASE a # 0 /\ b # 0 /\ a > b
    <3>1. \A g \in Nat : Greatest(g, a, b) <=> Greatest(g, a % b, b) BY <2>3, GreatestOfRest
    <3>2. G(a, b) = G(a % b, b) BY <3>1, Zenon
    <3> HIDE DEF G
    <3> QED BY <2>3, <3>2
  <2>4. CASE a # 0 /\ b # 0 /\ ~(a > b)
    <3>1. \A g \in Nat : Greatest(g, a, b) <=> Greatest(g, a, b % a) BY <2>4, GreatestOfRest
    <3>2. G(a, b) = G(a, b % a) BY <3>1, Zenon
    <3> HIDE DEF G
    <3> QED BY <2>4, <3>2
  <2> HIDE DEF G
  <2> QED BY <2>1, <2>2, <2>3, <2>4
<1> HIDE DEF G
<1>2. \A p \in Nat \X Nat : h[p] = G(p[1], p[2]) OBVIOUS
<1>3. \A a, b \in Nat : h[<<a, b>>] = G(a, b) BY <1>2
<1> HIDE DEF h
<1>4. ASSUME NEW p \in Nat \X Nat PROVE h[p] = NextGcd(h)[p]
  <2>1. PICK a \in Nat, b \in Nat : p = <<a, b>> OBVIOUS
  <2>2. h[p] = IF a = 0 THEN b ELSE IF b = 0 THEN a
               ELSE IF a > b THEN G(a % b, b) ELSE G(a, b % a)
    BY <1>1, <1>2, <2>1
  <2>3. NextGcd(h)[p] = IF a = 0 THEN b ELSE IF b = 0 THEN a
               ELSE IF a > b THEN h[<<a % b, b>>] ELSE h[<<a, b % a>>]
    BY <2>1 DEF NextGcd
  <2>4. b # 0 => h[<<a % b, b>>] = G(a % b, b) BY <1>3, Quotient
  <2>5. a # 0 => h[<<a, b % a>>] = G(a, b % a) BY <1>3, Quotient
  <2> QED BY <2>2, <2>3, <2>4, <2>5
<1>5. h = [p \in Nat \X Nat |-> h[p]] BY DEF h
<1>6. NextGcd(h) = [p \in Nat \X Nat |-> NextGcd(h)[p]] BY DEF NextGcd
<1>7. h = NextGcd(h) BY <1>4, <1>5, <1>6
<1> QED BY <1>7

(* gcd satisfies its own definition.                                       *)
LEMMA GcdUnfolds ==
  ASSUME NEW a \in Nat, NEW b \in Nat
  PROVE  gcd[<<a, b>>] = IF a = 0 THEN b
                         ELSE IF b = 0 THEN a
                         ELSE IF a > b THEN gcd[<<a % b, b>>]
                         ELSE gcd[<<a, b % a>>]
<1>1. gcd = CHOOSE g : g = NextGcd(g) BY DEF gcd, NextGcd
<1> HIDE DEF gcd
<1>2. gcd = NextGcd(gcd) BY <1>1, GcdExists
<1> DEFINE g == gcd
<1>3. g = NextGcd(g) BY <1>2
<1> HIDE DEF g
<1>4. g[<<a, b>>] = IF a = 0 THEN b ELSE IF b = 0 THEN a
                    ELSE IF a > b THEN g[<<a % b, b>>] ELSE g[<<a, b % a>>]
  BY <1>3 DEF NextGcd
<1> QED BY <1>4 DEF g

(* gcd is the greatest common divisor of any two numbers.                  *)
LEMMA GcdIsGreatest ==
  ASSUME NEW x \in Nat, NEW y \in Nat
  PROVE  gcd[<<x, y>>] \in Nat /\ Greatest(gcd[<<x, y>>], x, y)
<1> DEFINE Right(a, b) == gcd[<<a, b>>] \in Nat /\ Greatest(gcd[<<a, b>>], a, b)
           S == {n \in Nat : \E a, b \in Nat : a + b = n /\ ~Right(a, b)}
<1>1. SUFFICES ASSUME S # {} PROVE FALSE
  <2>1. x + y \in Nat OBVIOUS
  <2>2. ~Right(x, y) => x + y \in S BY <2>1
  <2> QED BY <2>2
<1>2. PICK n \in S : \A m \in S : n <= m BY <1>1, LeastNumber
<1>3. PICK a \in Nat, b \in Nat : a + b = n /\ ~Right(a, b) BY <1>2
<1>4. ASSUME NEW c \in Nat, NEW d \in Nat, c + d < a + b PROVE Right(c, d)
  <2>1. SUFFICES ASSUME ~Right(c, d) PROVE FALSE OBVIOUS
  <2>2. c + d \in S
    <3>1. c + d \in Nat OBVIOUS
    <3> HIDE DEF Right
    <3> QED BY <2>1, <3>1
  <2> HIDE DEF S, Right
  <2> QED BY <1>2, <1>3, <1>4, <2>2
<1> HIDE DEF S
<1>5. CASE a = 0
  <2>1. gcd[<<a, b>>] = b BY <1>5, GcdUnfolds
  <2>2. Greatest(b, a, b) BY <1>5, GreatestWithNone
  <2> QED BY <1>3, <2>1, <2>2
<1>6. CASE a # 0 /\ b = 0
  <2>1. gcd[<<a, b>>] = a BY <1>6, GcdUnfolds
  <2>2. Greatest(a, a, b) BY <1>6, GreatestWithNone
  <2> QED BY <1>3, <2>1, <2>2
<1>7. CASE a # 0 /\ b # 0 /\ a > b
  <2>1. gcd[<<a, b>>] = gcd[<<a % b, b>>] BY <1>7, GcdUnfolds
  <2>2. a % b \in Nat /\ a % b < b BY <1>7, Quotient
  <2>3. (a % b) + b < a + b BY <1>7, <2>2
  <2>4. Right(a % b, b) BY <1>4, <2>2, <2>3
  <2>5. Right(a, b) BY <1>7, <2>1, <2>4, GreatestOfRest
  <2> QED BY <1>3, <2>5
<1>8. CASE a # 0 /\ b # 0 /\ ~(a > b)
  <2>1. gcd[<<a, b>>] = gcd[<<a, b % a>>] BY <1>8, GcdUnfolds
  <2>2. b % a \in Nat /\ b % a < a BY <1>8, Quotient
  <2>3. a + (b % a) < a + b BY <1>8, <2>2
  <2>4. Right(a, b % a) BY <1>4, <2>2, <2>3
  <2>5. Right(a, b) BY <1>8, <2>1, <2>4, GreatestOfRest
  <2> QED BY <1>3, <2>5
<1> QED BY <1>5, <1>6, <1>7, <1>8

-----------------------------------------------------------------------------
(***************************************************************************)
(* Settings and frequencies. A setting is exact when the modulus is a      *)
(* whole number that its field holds, and the PFD frequency is a finite    *)
(* binary fraction of a MHz.                                               *)
(***************************************************************************)
Exact(s) ==
  /\ InBinary(s)
  /\ (10 * Crystal(s)) % Divided(s) = 0
  /\ \/ 10 * Crystal(s) <= 4095 * Divided(s)
     \/ Crystal(s) % Divided(s) = 0 /\ Crystal(s) <= 4095 * Divided(s)
  /\ MaxFreq * Divided(s) < 65536 * Crystal(s)
  /\ 8 * Crystal(s) <= 255 * 100 * Divided(s)

(* A quotient and a remainder below the divisor are what \div and %        *)
(* return.                                                                 *)
LEMMA DivisionIsUnique ==
  ASSUME NEW b \in Nat \ {0}, NEW q \in Int, NEW r \in Nat, r < b
  PROVE  (b * q + r) \div b = q /\ (b * q + r) % b = r
<1> DEFINE a == b * q + r
<1>1. a \in Int /\ a \div b \in Int /\ a % b \in 0 .. b - 1 /\ a = b * (a \div b) + (a % b)
  OBVIOUS
<1>2. ASSUME NEW x \in Int, NEW y \in Int, y >= 0, y < b, b * q + r = b * x + y PROVE x = q
  <2>1. b * (q - x) = y - r BY <1>2
  <2>2. ASSUME q - x >= 1 PROVE FALSE
    <3>1. b * (q - x) >= b BY <2>2
    <3> QED BY <2>1, <3>1, <1>2
  <2>3. ASSUME q - x <= -1 PROVE FALSE
    <3>1. b * (q - x) <= -b BY <2>3
    <3> QED BY <2>1, <3>1, <1>2
  <2> QED BY <2>2, <2>3, <1>2
<1>3. a \div b = q
  <2> DEFINE x == a \div b
             y == a % b
  <2>1. x \in Int /\ y \in Int /\ y >= 0 /\ y < b /\ b * q + r = b * x + y BY <1>1
  <2> HIDE DEF x, y, a
  <2>2. x = q BY <2>1, <1>2
  <2> QED BY <2>2 DEF x
<1>4. a % b = a - b * (a \div b) BY <1>1
<1> QED BY <1>3, <1>4

(* The bounds of the values, for the provers: no interval of many numbers. *)
LEMMA Bounds ==
  /\ MinFreq \in Nat /\ MinFreq >= 3500 /\ MinFreq <= 3500
  /\ MaxFreq \in Nat /\ MaxFreq >= 440000 /\ MaxFreq <= 440000
  /\ MinVco \in Nat /\ MinVco >= 220000 /\ MinVco <= 220000
  /\ MinRef \in Nat /\ MinRef >= 1000 /\ MinRef <= 1000
  /\ MaxRef \in Nat /\ MaxRef >= 25000 /\ MaxRef <= 25000
  /\ MaxR \in Nat /\ MaxR >= 1023 /\ MaxR <= 1023
BY SMT DEF MinFreq, MaxFreq, MinVco, MinRef, MaxRef, MaxR

(* What the provers need to know of a frequency                            *)
LEMMA Frequencies ==
  ASSUME NEW f \in MinFreq .. MaxFreq
  PROVE  f \in Nat /\ f >= 3500 /\ f <= 440000
BY Bounds, SMT

(* The divider brings the frequency into the range of the VCO.             *)
LEMMA Bands ==
  ASSUME NEW f \in MinFreq .. MaxFreq
  PROVE  /\ Band(f) \in 0 .. 6
         /\ 2 ^ Band(f) \in 1 .. 64
         /\ f * 2 ^ Band(f) \in Nat
         /\ f * 2 ^ Band(f) >= 220000 /\ f * 2 ^ Band(f) <= 440000
<1>1. f \in Nat /\ f >= 3500 /\ f <= 440000 BY Frequencies, SMT
<1>2. Band(f) = IF f >= 220000 THEN 0 ELSE IF f >= 110000 THEN 1 ELSE IF f >= 55000 THEN 2
                ELSE IF f >= 27500 THEN 3 ELSE IF f >= 13750 THEN 4 ELSE IF f >= 6875 THEN 5 ELSE 6
  BY SMT DEF Band, MinVco
<1> DEFINE b == Band(f)
<1> HIDE DEF b
<1>3. b = IF f >= 220000 THEN 0 ELSE IF f >= 110000 THEN 1 ELSE IF f >= 55000 THEN 2
                ELSE IF f >= 27500 THEN 3 ELSE IF f >= 13750 THEN 4 ELSE IF f >= 6875 THEN 5 ELSE 6
  BY <1>2, SMT DEF b
<1>4. b \in 0 .. 6 BY <1>3, SMT
<1>5. CASE b = 0
  <2>1. 2 ^ b = 1 BY <1>5, SMT
  <2>2. f >= 220000 /\ f <= 440000 BY <1>1, <1>3, <1>5, SMT
  <2>3. f * 2 ^ b = 1 * f BY <1>1, <2>1, SMT
  <2> QED BY <1>1, <1>4, <2>1, <2>2, <2>3, SMT DEF b
<1>6. CASE b = 1
  <2>1. 2 ^ b = 2 BY <1>6, SMT
  <2>2. f >= 110000 /\ f <= 219999 BY <1>1, <1>3, <1>6, SMT
  <2>3. f * 2 ^ b = 2 * f BY <1>1, <2>1, SMT
  <2> QED BY <1>1, <1>4, <2>1, <2>2, <2>3, SMT DEF b
<1>7. CASE b = 2
  <2>1. 2 ^ b = 4 BY <1>7, SMT
  <2>2. f >= 55000 /\ f <= 109999 BY <1>1, <1>3, <1>7, SMT
  <2>3. f * 2 ^ b = 4 * f BY <1>1, <2>1, SMT
  <2> QED BY <1>1, <1>4, <2>1, <2>2, <2>3, SMT DEF b
<1>8. CASE b = 3
  <2>1. 2 ^ b = 8 BY <1>8, SMT
  <2>2. f >= 27500 /\ f <= 54999 BY <1>1, <1>3, <1>8, SMT
  <2>3. f * 2 ^ b = 8 * f BY <1>1, <2>1, SMT
  <2> QED BY <1>1, <1>4, <2>1, <2>2, <2>3, SMT DEF b
<1>9. CASE b = 4
  <2>1. 2 ^ b = 16 BY <1>9, SMT
  <2>2. f >= 13750 /\ f <= 27499 BY <1>1, <1>3, <1>9, SMT
  <2>3. f * 2 ^ b = 16 * f BY <1>1, <2>1, SMT
  <2> QED BY <1>1, <1>4, <2>1, <2>2, <2>3, SMT DEF b
<1>10. CASE b = 5
  <2>1. 2 ^ b = 32 BY <1>10, SMT
  <2>2. f >= 6875 /\ f <= 13749 BY <1>1, <1>3, <1>10, SMT
  <2>3. f * 2 ^ b = 32 * f BY <1>1, <2>1, SMT
  <2> QED BY <1>1, <1>4, <2>1, <2>2, <2>3, SMT DEF b
<1>11. CASE b = 6
  <2>1. 2 ^ b = 64 BY <1>11, SMT
  <2>2. f >= 3500 /\ f <= 6874 BY <1>1, <1>3, <1>11, SMT
  <2>3. f * 2 ^ b = 64 * f BY <1>1, <2>1, SMT
  <2> QED BY <1>1, <1>4, <2>1, <2>2, <2>3, SMT DEF b
<1> QED BY <1>4, <1>5, <1>6, <1>7, <1>8, <1>9, <1>10, <1>11, SMT

(* Crystal and divider are positive and within what their fields hold.     *)
LEMMA Clock ==
  ASSUME NEW s \in Setting
  PROVE  /\ Crystal(s) \in Nat /\ Crystal(s) >= 1000 /\ Crystal(s) <= 50000
         /\ Divided(s) \in Nat /\ Divided(s) >= 1 /\ Divided(s) <= 2046
         /\ Modulus(s) \in Nat \ {0}
<1>1. s.ref \in MinRef .. MaxRef /\ s.r \in 1 .. MaxR BY SMT DEF Setting
<1>2. s.ref \in Nat /\ s.ref >= 1000 /\ s.ref <= 25000 /\ s.r \in Nat /\ s.r >= 1 /\ s.r <= 1023
  BY <1>1, Bounds, SMT
<1>3. Crystal(s) = s.ref \/ Crystal(s) = 2 * s.ref BY <1>2, SMT DEF Crystal
<1>4. Divided(s) = s.r \/ Divided(s) = 2 * s.r BY <1>2, SMT DEF Divided
<1>5. /\ Crystal(s) \in Nat /\ Crystal(s) >= 1000 /\ Crystal(s) <= 50000
      /\ Divided(s) \in Nat /\ Divided(s) >= 1 /\ Divided(s) <= 2046
  BY <1>2, <1>3, <1>4, SMT
<1>6. ASSUME NEW a \in Nat, a >= 10000, NEW b \in Nat, b >= 1, b <= 2046
      PROVE  Rounded(a, b) \in Nat \ {0}
  <2> DEFINE x == 2 * a + b
             y == 2 * b
  <2>1. x \in Nat /\ y \in Nat \ {0} /\ x >= y BY <1>6, SMT
  <2> HIDE DEF x, y
  <2>2. x \div y \in Nat /\ x = y * (x \div y) + (x % y) /\ x % y < y /\ x % y \in Nat
    BY <2>1, Quotient
  <2>3. x \div y # 0
    <3>1. ASSUME x \div y = 0 PROVE x = x % y BY <2>1, <2>2, <3>1, SMT
    <3> QED BY <2>1, <2>2, <3>1, SMT
  <2> QED BY <2>2, <2>3 DEF Rounded, x, y
<1>7. 10 * Crystal(s) \in Nat /\ 10 * Crystal(s) >= 10000 BY <1>5, SMT
<1> QED BY <1>5, <1>6, <1>7, SMT DEF Modulus

(* Rounding a multiple of the divisor leaves the quotient.                 *)
LEMMA RoundedExactly ==
  ASSUME NEW b \in Nat \ {0}, NEW x \in Nat
  PROVE  Rounded(b * x, b) = x
<1> DEFINE c == 2 * b
<1>1. c \in Nat \ {0} /\ b < c BY SMT
<1>2. 2 * (b * x) + b = c * x + b OBVIOUS
<1> HIDE DEF c
<1>3. (c * x + b) \div c = x BY <1>1, DivisionIsUnique
<1> QED BY <1>2, <1>3 DEF Rounded, c

(* With an exact setting, the modulus is not rounded.                      *)
LEMMA ModulusIsExact ==
  ASSUME NEW s \in Setting, (10 * Crystal(s)) % Divided(s) = 0
  PROVE  Divided(s) * Modulus(s) = 10 * Crystal(s)
<1> DEFINE D == Divided(s)
           a == 10 * Crystal(s)
<1>1. D \in Nat \ {0} /\ a \in Nat BY Clock, SMT
<1>2. a % D = 0 OBVIOUS
<1>3. Modulus(s) = Rounded(a, D) BY DEF Modulus
<1> HIDE DEF D, a
<1>4. a \div D \in Nat /\ a = D * (a \div D) BY <1>1, <1>2
<1>5. Rounded(a, D) = a \div D BY <1>1, <1>4, RoundedExactly
<1> QED BY <1>3, <1>4, <1>5 DEF a, D

-----------------------------------------------------------------------------
(***************************************************************************)
(* The fraction and its reduction                                          *)
(***************************************************************************)
(* N is whole + x / M: with M the exact modulus, no remainder is lost.     *)
IsFraction(C, M, n, t) ==
  LET part == n % C
      x    == t - M * (n \div C)
  IN /\ x \in 0 .. M - 1
     /\ part * M = C * x
     /\ Rounded(part * M, C) = x

(* N in lowest terms, or a whole N, is what Reduced returns of it.         *)
LEMMA Fraction ==
  ASSUME NEW C \in Nat \ {0}, NEW M \in Nat \ {0}, NEW n \in Nat, NEW t \in Nat, n * M = C * t
  PROVE  IsFraction(C, M, n, t)
<1> DEFINE part == n % C
           whole == n \div C
           x == t - M * whole
<1>1. part \in Nat /\ whole \in Nat /\ part < C /\ n = C * whole + part
  OBVIOUS
<1> HIDE DEF part, whole
<1>2. part * M = C * x
  <2>1. n * M = (C * whole) * M + part * M BY <1>1
  <2>2. (C * whole) * M = C * (M * whole) BY <1>1
  <2>3. C * x = C * t - C * (M * whole) BY <1>1
  <2>4. part * M \in Int /\ C * t \in Int /\ C * (M * whole) \in Int BY <1>1
  <2> QED BY <2>1, <2>2, <2>3, <2>4
<1>3. x \in Int BY <1>1
<1> HIDE DEF x
<1>4. x >= 0
  <2>1. ASSUME x <= -1 PROVE C * x < 0 BY <1>3, <2>1
  <2>2. part * M >= 0 BY <1>1
  <2>3. C * x \in Int BY <1>3
  <2> QED BY <1>2, <1>3, <2>1, <2>2, <2>3
<1>5. x < M
  <2>1. ASSUME x >= M PROVE C * x >= C * M BY <1>3, <2>1
  <2>2. part * M < C * M BY <1>1
  <2>3. C * x \in Int /\ C * M \in Int BY <1>3
  <2> QED BY <1>2, <1>3, <2>1, <2>2, <2>3
<1>6. Rounded(part * M, C) = x BY <1>2, <1>3, <1>4, RoundedExactly
<1> QED BY <1>2, <1>3, <1>4, <1>5, <1>6 DEF IsFraction, part, whole, x

(* What is left of the fraction x / M, reduced, keeps its value.           *)
LEMMA ReducedExactly ==
  ASSUME NEW M \in Nat \ {0}, NEW x \in 0 .. M - 1, NEW int \in Nat
  PROVE  LET p == Reduced(int, x, M)
         IN /\ p.INT = int /\ p.FRAC \in Nat /\ p.MOD \in Nat /\ p.FRAC < p.MOD
            /\ p.FRAC * M = x * p.MOD
            /\ \A k \in Nat \ {0} : Divides(k, M) /\ Divides(k, x) => k * p.MOD <= M \/ p.MOD = 2
<1> DEFINE g == gcd[<<M, x>>]
           m == M \div g
           y == x \div g
<1>1. x \in Nat /\ x < M OBVIOUS
<1>2. g \in Nat /\ Greatest(g, M, x) BY <1>1, GcdIsGreatest
<1>3. Reduced(int, x, M) = [INT |-> int, FRAC |-> y, MOD |-> IF m = 1 THEN 2 ELSE m]
  BY DEF Reduced
<1> HIDE DEF g, m, y
<1>4. PICK u \in Nat : M = g * u BY <1>2 DEF Greatest, Divides
<1>5. PICK v \in Nat : x = g * v BY <1>2 DEF Greatest, Divides
<1>6. g # 0 /\ u # 0
  <2>1. g = 0 \/ u = 0 => g * u = 0 BY <1>2
  <2> QED BY <1>4, <2>1
<1>7. m = u
  <2>1. M = g * u + 0 BY <1>4
  <2>2. M \div g = u BY <1>2, <1>6, <2>1, DivisionIsUnique
  <2> QED BY <2>2 DEF m
<1>8. y = v
  <2>1. x = g * v + 0 BY <1>5
  <2>2. x \div g = v BY <1>2, <1>6, <2>1, DivisionIsUnique
  <2> QED BY <2>2 DEF y
<1>9. v < u
  <2>1. ASSUME v >= u PROVE g * v >= g * u BY <1>2, <2>1
  <2>2. g * v \in Int /\ g * u \in Int BY <1>2
  <2> QED BY <1>1, <1>4, <1>5, <2>1, <2>2
<1>10. y * M = x * m
  <2>1. v * (g * u) = (g * v) * u BY <1>2
  <2> QED BY <1>4, <1>5, <1>7, <1>8, <2>1
<1>11. ASSUME NEW k \in Nat \ {0}, Divides(k, M), Divides(k, x) PROVE k * m <= M
  <2>1. PICK q \in Nat : g = k * q BY <1>2, <1>11 DEF Greatest, Divides
  <2>2. q >= 1 BY <1>6, <2>1
  <2>3. M = (k * u) * q BY <1>4, <2>1
  <2>4. ASSUME NEW z \in Nat PROVE z * q >= z BY <2>2
  <2>5. k * u \in Nat OBVIOUS
  <2> QED BY <1>7, <2>3, <2>4, <2>5
<1>12. CASE m = 1
  <2>1. y = 0 /\ u = 1 BY <1>7, <1>8, <1>9, <1>12
  <2>2. x = 0 BY <1>2, <1>5, <1>8, <2>1
  <2> QED BY <1>3, <1>12, <2>1, <2>2
<1>13. CASE m # 1
  <2>1. Reduced(int, x, M) = [INT |-> int, FRAC |-> v, MOD |-> u] BY <1>3, <1>7, <1>8, <1>13
  <2> QED BY <1>7, <1>8, <1>9, <1>10, <1>11, <2>1
<1> QED BY <1>12, <1>13

-----------------------------------------------------------------------------
(***************************************************************************)
(* The fields of the words                                                 *)
(***************************************************************************)
(* What the synthesiser reads from the words is what was put into them.    *)
LEMMA FirstTwoFields ==
  ASSUME NEW p, NEW f, NEW s, p.INT \in Nat, p.INT < 65536,
         p.FRAC \in Nat, p.FRAC < 4096, p.MOD \in Nat, p.MOD < 4096
  PROVE  /\ Field(Words(p, f, s)[1], 15, 16) = p.INT
         /\ Field(Words(p, f, s)[1], 3, 12) = p.FRAC
         /\ Field(Words(p, f, s)[2], 3, 12) = p.MOD
<1> DEFINE i == p.INT
           c == p.FRAC
           m == p.MOD
<1>1. i \in Nat /\ i < 65536 /\ c \in Nat /\ c < 4096 /\ m \in Nat /\ m < 4096 BY SMT
<1>2. Words(p, f, s)[1] = (i % 65536) * 2^15 + (c % 4096) * 2^3 BY SMT DEF Words
<1>3. Words(p, f, s)[2] = 2^27 + 2^15 + (m % 4096) * 2^3 + 1 BY SMT DEF Words
<1> HIDE DEF i, c, m
<1>4. i % 65536 = i /\ c % 4096 = c /\ m % 4096 = m BY <1>1, SMT
<1>5. Words(p, f, s)[1] = i * 32768 + c * 8 BY <1>2, <1>4, SMT
<1>6. Words(p, f, s)[2] = 134250497 + m * 8
  <2>1. 2^27 = 134217728 BY SMT
  <2>2. 2^15 = 32768 /\ 2^3 = 8 BY SMT
  <2>3. Words(p, f, s)[2] = 2^27 + 2^15 + m * 2^3 + 1 BY <1>3, <1>4, SMT
  <2> QED BY <1>1, <2>1, <2>2, <2>3, SMT
<1>7. (i * 32768 + c * 8) \div 32768 = i BY <1>1, SMT
<1>8. Field(Words(p, f, s)[1], 15, 16) = i BY <1>1, <1>5, <1>7, SMT DEF Field
<1>9. (i * 32768 + c * 8) \div 8 = i * 4096 + c
  <2>1. i * 32768 + c * 8 = 8 * (i * 4096 + c) + 0 BY <1>1, SMT
  <2>2. i * 4096 + c \in Int BY <1>1, SMT
  <2> QED BY <2>1, <2>2, DivisionIsUnique, SMT
<1>10. (i * 4096 + c) % 4096 = c BY <1>1, SMT
<1>11. Field(Words(p, f, s)[1], 3, 12) = c BY <1>5, <1>9, <1>10, SMT DEF Field
<1>12. (134250497 + m * 8) \div 8 = 16781312 + m BY <1>1, SMT
<1>13. (16781312 + m) % 4096 = m BY <1>1, SMT
<1>14. Field(Words(p, f, s)[2], 3, 12) = m BY <1>6, <1>12, <1>13, SMT DEF Field
<1> QED BY <1>8, <1>11, <1>14, SMT DEF i, c, m

(* The fields of the setting are read back from the words.                 *)
LEMMA SettingFields ==
  ASSUME NEW p, NEW f, NEW s \in Setting
  PROVE  LET word == Words(p, f, s)[3]
         IN /\ s.doubler <=> Field(word, 25, 1) = 1
            /\ s.div2 <=> Field(word, 24, 1) = 1
            /\ Field(word, 14, 10) = s.r
<1> DEFINE word == Words(p, f, s)[3]
           a == Bit(s.doubler)
           b == Bit(s.div2)
           r == s.r
<1>1. a \in 0 .. 1 /\ b \in 0 .. 1 BY DEF Bit
<1>2. (s.doubler <=> a = 1) /\ (s.div2 <=> b = 1) BY DEF Bit, Setting
<1>3. r \in Nat /\ r <= 1023
  <2>1. r \in 1 .. MaxR BY SMT DEF Setting
  <2> QED BY <2>1, Bounds, SMT
<1>4. word = a * 2^25 + b * 2^24 + r * 2^14 + 7 * 2^9 + 2^6 + 2 BY SMT DEF Words
<1> HIDE DEF a, b, r, word
<1>5. word = a * 33554432 + b * 16777216 + r * 16384 + 3650 BY <1>1, <1>3, <1>4, SMT
<1>6. word \div 33554432 = a BY <1>1, <1>3, <1>5, SMT
<1>7. Field(word, 25, 1) = a BY <1>1, <1>6, SMT DEF Field
<1>8. word \div 16777216 = 2 * a + b BY <1>1, <1>3, <1>5, SMT
<1>9. Field(word, 24, 1) = b BY <1>1, <1>8, SMT DEF Field
<1>10. word \div 16384 = 2048 * a + 1024 * b + r BY <1>1, <1>3, <1>5, SMT
<1>11. Field(word, 14, 10) = r BY <1>1, <1>3, <1>10, SMT DEF Field
<1> QED BY <1>2, <1>7, <1>9, <1>11, Zenon DEF word, r

(* So are the band and the band select divider.                            *)
LEMMA BandFields ==
  ASSUME NEW p, NEW f, NEW s \in Setting, Band(f) \in 0 .. 6, BandSelect(s) \in Nat, BandSelect(s) <= 255
  PROVE  LET word == Words(p, f, s)[5]
         IN /\ s.feedback <=> Field(word, 23, 1) = 1
            /\ Field(word, 20, 3) = Band(f)
            /\ Field(word, 12, 8) = BandSelect(s)
<1> DEFINE word == Words(p, f, s)[5]
           a == Bit(s.feedback)
           b == Band(f)
           c == BandSelect(s)
<1>1. a \in 0 .. 1 BY DEF Bit
<1>2. s.feedback <=> a = 1 BY DEF Bit, Setting
<1>3. b \in 0 .. 6 /\ c \in Nat /\ c <= 255 BY SMT
<1>4. word = a * 2^23 + b * 2^20 + c * 2^12 + 2^5 + 3 * 2^3 + 4 BY SMT DEF Words
<1> HIDE DEF a, b, c, word
<1>5. word = a * 8388608 + b * 1048576 + c * 4096 + 60 BY <1>1, <1>3, <1>4, SMT
<1>6. word \div 8388608 = a BY <1>1, <1>3, <1>5, SMT
<1>7. Field(word, 23, 1) = a BY <1>1, <1>6, SMT DEF Field
<1>8. word \div 1048576 = 8 * a + b BY <1>1, <1>3, <1>5, SMT
<1>9. Field(word, 20, 3) = b BY <1>1, <1>3, <1>8, SMT DEF Field
<1>10. word \div 4096 = 2048 * a + 256 * b + c BY <1>1, <1>3, <1>5, SMT
<1>11. Field(word, 12, 8) = c BY <1>1, <1>3, <1>10, SMT DEF Field
<1> QED BY <1>2, <1>7, <1>9, <1>11, Zenon DEF word, b, c

-----------------------------------------------------------------------------
(***************************************************************************)
(* What fits the fields                                                    *)
(***************************************************************************)
(* A common factor of an equation may be cancelled.                        *)
LEMMA CancelFactor ==
  ASSUME NEW M \in Nat \ {0}, NEW a \in Int, NEW b \in Int, a * M = b * M
  PROVE  a = b
<1>1. ASSUME a > b PROVE a * M > b * M BY <1>1
<1>2. ASSUME a < b PROVE a * M < b * M BY <1>2
<1>3. a * M \in Int /\ b * M \in Int OBVIOUS
<1> QED BY <1>1, <1>2, <1>3

(* How much the output divider multiplies N by                             *)
Factor(f, s) == IF s.feedback THEN 2 ^ Band(f) ELSE 1

(* The factor of N: the output divider, if the feedback is the             *)
(* fundamental.                                                            *)
LEMMA Factors ==
  ASSUME NEW s \in Setting, NEW f \in MinFreq .. MaxFreq
  PROVE  /\ Factor(f, s) \in Nat
         /\ f * Factor(f, s) \in Nat /\ f * Factor(f, s) <= 440000
         /\ Multiplied(f, s) = f * Divided(s) * Factor(f, s)
<1> DEFINE k == 2 ^ Band(f)
<1>1. f \in Nat /\ f <= 440000 BY Frequencies, SMT
<1>2. k \in Nat /\ f * k \in Nat /\ f * k <= 440000 BY Bands, SMT
<1>3. Factor(f, s) = k \/ Factor(f, s) = 1 BY SMT DEF Factor
<1>4. Multiplied(f, s) = f * Divided(s) * Factor(f, s) BY SMT DEF Multiplied, Factor
<1> HIDE DEF k
<1> QED BY <1>1, <1>2, <1>3, <1>4, SMT

(* INT fits its field.                                                     *)
LEMMA WholeFits ==
  ASSUME NEW C \in Nat \ {0}, NEW n \in Nat, n < 65536 * C
  PROVE  n \div C \in Nat /\ n \div C < 65536
<1> DEFINE q == n \div C
<1>1. q \in Nat /\ n % C \in Nat /\ n = C * q + (n % C) BY SMT
<1> HIDE DEF q
<1>2. ASSUME q >= 65536 PROVE C * q >= 65536 * C BY <1>1, <1>2, SMT
<1>3. C * q \in Int BY <1>1, SMT
<1>4. q < 65536 BY <1>1, <1>2, <1>3, SMT
<1> QED BY <1>1, <1>4, SMT DEF q

(* The reduced modulus fits its field.                                     *)
FitsField(m) == m < 4096

(* MOD fits its field.                                                     *)
LEMMA ModulusFits ==
  ASSUME NEW s \in Setting, Exact(s), NEW f \in Nat, NEW k \in Nat, NEW whole \in Nat, NEW x \in Nat,
         x = 10 * f * k - Modulus(s) * whole,
         NEW m \in Nat,
         \A d \in Nat \ {0} : Divides(d, Modulus(s)) /\ Divides(d, x) => d * m <= Modulus(s) \/ m = 2
  PROVE  FitsField(m)
<1> DEFINE C == Crystal(s)
           D == Divided(s)
           M == Modulus(s)
<1>1. C \in Nat /\ D \in Nat \ {0} /\ M \in Nat \ {0} BY Clock, SMT
<1>2. D * M = 10 * C BY ModulusIsExact, SMT DEF Exact
<1>3. 10 * C <= 4095 * D \/ (C % D = 0 /\ C <= 4095 * D) BY SMT DEF Exact
<1>4. x = 10 * f * k - M * whole BY SMT
<1>5. \A d \in Nat \ {0} : Divides(d, M) /\ Divides(d, x) => d * m <= M \/ m = 2 OBVIOUS
<1> HIDE DEF C, D, M
<1>6. CASE 10 * C <= 4095 * D
  <2>1. M <= 4095
    <3>1. ASSUME M > 4095 PROVE D * M > 4095 * D BY <1>1, <3>1, SMT
    <3>2. D * M \in Int /\ 4095 * D \in Int BY <1>1, SMT
    <3> QED BY <1>1, <1>2, <1>6, <3>1, <3>2, SMT
  <2>2. Divides(1, M) /\ Divides(1, x)
    <3>1. M = 1 * M /\ x = 1 * x BY <1>1
    <3> QED BY <1>1, <3>1 DEF Divides
  <2>3. 1 * m <= M \/ m = 2 BY <1>5, <2>2
  <2>4. m < 4096 BY <1>1, <2>1, <2>3, SMT
  <2> QED BY <2>4, SMT DEF FitsField
<1>7. CASE C % D = 0 /\ C <= 4095 * D
  <2> DEFINE e == C \div D
  <2>1. e \in Nat /\ C = D * e BY <1>1, <1>7, SMT
  <2> HIDE DEF e
  <2>2. e <= 4095
    <3>1. ASSUME e > 4095 PROVE D * e > 4095 * D BY <1>1, <2>1, <3>1, SMT
    <3>2. D * e \in Int /\ 4095 * D \in Int BY <1>1, <2>1, SMT
    <3> QED BY <1>7, <2>1, <3>1, <3>2, SMT
  <2>3. M = 10 * e
    <3>1. M * D = (10 * e) * D BY <1>1, <1>2, <2>1, SMT
    <3> QED BY <1>1, <2>1, <3>1, CancelFactor
  <2>4. Divides(10, M) BY <2>1, <2>3 DEF Divides
  <2>5. Divides(10, x)
    <3>1. Divides(10, M * whole + x)
      <4>1. M * whole + x = 10 * (f * k) BY <1>1, <1>4, SMT
      <4>2. f * k \in Nat OBVIOUS
      <4> QED BY <4>1, <4>2 DEF Divides
    <3> QED BY <1>1, <2>4, <3>1, DividesRest
  <2>6. 10 * m <= M \/ m = 2 BY <1>5, <2>4, <2>5
  <2>7. m < 4096 BY <2>1, <2>2, <2>3, <2>6, SMT
  <2> QED BY <2>7, SMT DEF FitsField
<1> QED BY <1>3, <1>6, <1>7, SMT

(* The band select clock is at most 125 kHz.                               *)
LEMMA BandSelects ==
  ASSUME NEW s \in Setting, 8 * Crystal(s) <= 255 * 100 * Divided(s)
  PROVE  /\ BandSelect(s) \in Nat /\ BandSelect(s) <= 255
         /\ 8 * Crystal(s) <= BandSelect(s) * 100 * Divided(s)
<1> DEFINE a == 8 * Crystal(s)
           b == 100 * Divided(s)
           q == (a + b - 1) \div b
<1>1. a \in Nat /\ b \in Nat \ {0} /\ a >= 1 BY Clock, SMT
<1>2. BandSelect(s) = IF q > 255 THEN 255 ELSE q BY SMT DEF BandSelect, RoundedUp
<1>3. a <= 255 * b BY Clock, SMT
<1>4. BandSelect(s) * 100 * Divided(s) = BandSelect(s) * b
  <2>1. ASSUME NEW x \in Int, NEW y \in Int PROVE x * 100 * y = x * (100 * y) BY SMT
  <2>2. q \in Int BY <1>1, SMT
  <2>3. BandSelect(s) \in Int BY <1>2, <2>2, SMT
  <2> QED BY <2>1, <2>3, Clock, SMT
<1>5. q \in Nat /\ a + b - 1 = b * q + ((a + b - 1) % b) /\ (a + b - 1) % b < b
      /\ (a + b - 1) % b \in Nat
  <2> DEFINE c == a + b - 1
  <2>1. c \in Nat BY <1>1, SMT
  <2> HIDE DEF c
  <2>2. c \div b \in Nat /\ c % b \in Nat /\ c % b < b /\ c = b * (c \div b) + (c % b) BY <1>1, <2>1, Quotient
  <2> QED BY <2>2 DEF c, q
<1> HIDE DEF q
<1>6. a <= b * q
  <2> DEFINE r == (a + b - 1) % b
             z == b * q
  <2>1. z \in Int /\ r \in Nat /\ r < b /\ a + b - 1 = z + r BY <1>1, <1>5, SMT
  <2> HIDE DEF r, z
  <2>2. a <= z BY <1>1, <2>1, SMT
  <2> QED BY <2>2 DEF z
<1> HIDE DEF a, b
<1>7. a <= BandSelect(s) * b /\ BandSelect(s) \in Nat /\ BandSelect(s) <= 255
  <2>1. CASE q > 255
    <3>1. BandSelect(s) = 255 BY <1>2, <2>1
    <3> QED BY <1>3, <3>1, SMT
  <2>2. CASE ~(q > 255)
    <3>1. BandSelect(s) = q BY <1>2, <2>2
    <3>2. q \in Nat /\ q <= 255 BY <1>5, <2>2, SMT
    <3>3. b * q = q * b BY <1>1, <1>5
    <3> QED BY <1>6, <3>1, <3>2, <3>3, SMT
  <2> QED BY <2>1, <2>2
<1> QED BY <1>4, <1>7, SMT DEF a

-----------------------------------------------------------------------------
(***************************************************************************)
(* The words of an exact setting put out the frequency, for every          *)
(* frequency of the synthesiser.                                           *)
(***************************************************************************)
(* With an exact setting there is one outcome: the double is not below N.  *)
LEMMA OneDivision ==
  ASSUME NEW s \in Setting, Exact(s), NEW f \in MinFreq .. MaxFreq
  PROVE  LET C     == Crystal(s)
             M     == Modulus(s)
             n     == Multiplied(f, s)
             whole == n \div C
             x     == 10 * f * Factor(f, s) - M * whole
         IN /\ n \in Nat /\ n < 65536 * C /\ x \in 0 .. M - 1
            /\ (n % C) * M = C * x
            /\ Divisions(f, s) = {Reduced(whole, x, M)}
<1> DEFINE C == Crystal(s)
           D == Divided(s)
           M == Modulus(s)
           k == Factor(f, s)
           n == Multiplied(f, s)
           t == 10 * f * k
<1>1. C \in Nat \ {0} /\ D \in Nat \ {0} /\ M \in Nat \ {0} BY Clock, SMT
<1>2. f \in Nat /\ k \in Nat /\ f * k <= 440000 /\ n = f * D * k
  BY Factors, Frequencies, SMT
<1>3. D * M = 10 * C BY ModulusIsExact, SMT DEF Exact
<1>4. 440000 * D < 65536 * C
  <2>1. MaxFreq * D < 65536 * C BY SMT DEF Exact
  <2> HIDE DEF C, D
  <2>2. MaxFreq = 440000 BY Bounds, SMT
  <2> QED BY <2>1, <2>2, SMT
<1>5. Divisions(f, s) = {Reduced(n \div C, Rounded((n % C) * M, C), M)}
  BY SMT DEF Divisions, Exact
<1> HIDE DEF C, D, M, k, n
<1>6. n * M = C * t
  <2>1. n * M = (f * k) * (D * M) BY <1>1, <1>2, SMT
  <2>2. C * t = (f * k) * (10 * C) BY <1>1, <1>2, SMT
  <2> QED BY <1>3, <2>1, <2>2, SMT
<1>7. n \in Nat /\ n < 65536 * C
  <2>1. n = (f * k) * D BY <1>1, <1>2, SMT
  <2>2. f * k \in Nat BY <1>2, SMT
  <2>3. (f * k) * D <= 440000 * D BY <1>1, <1>2, <2>2, SMT
  <2>4. (f * k) * D \in Nat BY <1>1, <2>2, SMT
  <2> QED BY <1>1, <1>4, <2>1, <2>3, <2>4, SMT
<1>8. t \in Nat BY <1>2, SMT
<1> HIDE DEF t
<1> DEFINE x == t - M * (n \div C)
<1>9. x \in 0 .. M - 1 /\ (n % C) * M = C * x /\ Rounded((n % C) * M, C) = x
  <2>1. n \in Nat BY <1>7, SMT
  <2> HIDE DEF x
  <2>2. C \in Nat \ {0} /\ M \in Nat \ {0} BY <1>1, SMT
  <2>3. IsFraction(C, M, n, t) BY <1>6, <1>8, <2>1, <2>2, Fraction, Zenon
  <2> QED BY <2>3, SMT DEF IsFraction, x
<1>10. Divisions(f, s) = {Reduced(n \div C, x, M)} BY <1>5, <1>9, SMT
<1> QED BY <1>7, <1>9, <1>10, SMT DEF C, M, n, t, k

(* The words put out the frequency they were computed for, exactly.        *)
THEOREM WordsAreExact ==
  ASSUME NEW s \in Setting, Exact(s), NEW f \in MinFreq .. MaxFreq, NEW w \in BuildRegisters(f, s)
  PROVE  Outputs(w, s.ref, f)
<1> DEFINE C == Crystal(s)
           D == Divided(s)
           M == Modulus(s)
           k == Factor(f, s)
           n == Multiplied(f, s)
           whole == n \div C
           part == n % C
           x == 10 * f * k - M * whole
           p == Reduced(whole, x, M)
           d == 2 ^ Band(f)
<1>1. C \in Nat \ {0} /\ D \in Nat \ {0} /\ M \in Nat \ {0} BY Clock, SMT
<1>2. f \in Nat /\ k \in Nat /\ f * k <= 440000 /\ n = f * D * k
  BY Factors, Frequencies, SMT
<1>3. /\ n \in Nat /\ n < 65536 * C /\ x \in 0 .. M - 1
      /\ part * M = C * x
      /\ Divisions(f, s) = {p}
  BY OneDivision, SMT
<1>4. w = Words(p, f, s) BY <1>3, SMT DEF BuildRegisters
<1>5. whole \in Nat /\ whole < 65536 BY <1>1, <1>3, WholeFits, SMT
<1>6. part \in Nat BY <1>1, <1>3, SMT
<1>7. /\ p.INT = whole /\ p.FRAC \in Nat /\ p.MOD \in Nat /\ p.FRAC < p.MOD
      /\ p.FRAC * M = x * p.MOD
      /\ \A e \in Nat \ {0} : Divides(e, M) /\ Divides(e, x) => e * p.MOD <= M \/ p.MOD = 2
  <2>1. whole \in Nat BY <1>5, SMT
  <2> HIDE DEF x, M, whole
  <2> QED BY <1>1, <1>3, <2>1, ReducedExactly, SMT
<1>8. p.MOD < 4096
  <2>1. whole \in Nat /\ x \in Nat /\ x = 10 * f * k - M * whole BY <1>3, <1>5, SMT
  <2>2. f \in Nat /\ k \in Nat BY <1>2, SMT
  <2> DEFINE m == p.MOD
  <2>3. /\ m \in Nat
        /\ \A e \in Nat \ {0} : Divides(e, Modulus(s)) /\ Divides(e, x) => e * m <= Modulus(s) \/ m = 2
    BY <1>7, Zenon
  <2> HIDE DEF m, p, x, whole, k
  <2>4. FitsField(m) BY <2>1, <2>2, <2>3, ModulusFits, Zenon
  <2> QED BY <2>4, SMT DEF FitsField, m
<1>9. p.FRAC < 4096 BY <1>7, <1>8, SMT
<1>10. Band(f) \in 0 .. 6 /\ f * d \in MinVco .. MaxFreq BY Bands, Bounds, SMT
<1>11. BandSelect(s) \in Nat /\ BandSelect(s) <= 255 /\ 8 * C <= BandSelect(s) * 100 * D
  BY BandSelects, SMT DEF Exact
<1>12. /\ Field(w[1], 15, 16) = whole /\ Field(w[1], 3, 12) = p.FRAC /\ Field(w[2], 3, 12) = p.MOD
  BY <1>4, <1>5, <1>7, <1>8, <1>9, FirstTwoFields, SMT
<1>13. /\ s.doubler <=> Field(w[3], 25, 1) = 1
       /\ s.div2 <=> Field(w[3], 24, 1) = 1
       /\ Field(w[3], 14, 10) = s.r
  BY <1>4, SettingFields, SMT
<1>14. /\ s.feedback <=> Field(w[5], 23, 1) = 1
       /\ Field(w[5], 20, 3) = Band(f)
       /\ Field(w[5], 12, 8) = BandSelect(s)
  BY <1>4, <1>10, <1>11, BandFields, SMT
<1>15. p.FRAC * C - part * p.MOD = 0
  <2>1. ASSUME NEW y \in Nat, NEW m \in Nat, y * M = x * m PROVE y * C = part * m
    <3> HIDE DEF C, M, part, x
    <3>1. x \in Nat BY <1>3, SMT
    <3>2. (y * C) * M = C * (y * M) BY <1>1, SMT
    <3>3. C * (x * m) = (C * x) * m BY <1>1, <3>1, SMT
    <3>4. (part * M) * m = (part * m) * M BY <1>1, <1>6, SMT
    <3>5. (y * C) * M = (part * m) * M BY <1>3, <2>1, <3>2, <3>3, <3>4, SMT
    <3>6. y * C \in Int /\ part * m \in Int BY <1>1, <1>6, SMT
    <3> QED BY <1>1, <3>5, <3>6, CancelFactor
  <2>2. p.FRAC * C = part * p.MOD BY <1>7, <2>1, SMT
  <2>3. p.FRAC * C \in Int /\ part * p.MOD \in Int BY <1>1, <1>6, <1>7, SMT
  <2> QED BY <2>2, <2>3, SMT
<1> DEFINE read == [ref |-> s.ref, doubler |-> Field(w[3], 25, 1) = 1, div2 |-> Field(w[3], 24, 1) = 1,
                    r |-> Field(w[3], 14, 10), feedback |-> Field(w[5], 23, 1) = 1]
<1>16. read = s
  <2> DEFINE u == Field(w[3], 25, 1) = 1
             v == Field(w[3], 24, 1) = 1
             z == Field(w[5], 23, 1) = 1
             r == Field(w[3], 14, 10)
  <2>1. u \in BOOLEAN /\ v \in BOOLEAN /\ z \in BOOLEAN OBVIOUS
  <2>2. (s.doubler <=> u) /\ (s.div2 <=> v) /\ (s.feedback <=> z) /\ r = s.r
    BY <1>13, <1>14, Zenon
  <2>3. read = [ref |-> s.ref, doubler |-> u, div2 |-> v, r |-> r, feedback |-> z] BY Zenon
  <2>4. /\ s = [ref |-> s.ref, doubler |-> s.doubler, div2 |-> s.div2, r |-> s.r,
                feedback |-> s.feedback]
        /\ s.doubler \in BOOLEAN /\ s.div2 \in BOOLEAN /\ s.feedback \in BOOLEAN
    BY SMT DEF Setting
  <2> HIDE DEF u, v, z, r, read
  <2>5. s.doubler = u /\ s.div2 = v /\ s.feedback = z BY <2>1, <2>2, <2>4, Zenon
  <2> QED BY <2>2, <2>3, <2>4, <2>5, Zenon
<1> DEFINE e == IF read.feedback THEN 2 ^ Field(w[5], 20, 3) ELSE 1
           N == f * Divided(read) * e
           off == Field(w[1], 3, 12) * Crystal(read) - (N % Crystal(read)) * Field(w[2], 3, 12)
<1> HIDE DEF read, p, x, whole, part
<1>17. e = k BY <1>14, <1>16, SMT DEF Factor
<1> HIDE DEF e, k
<1>18. N = n BY <1>2, <1>16, <1>17, SMT
<1> HIDE DEF N, n
<1>19. off = 0 BY <1>12, <1>15, <1>16, <1>18, SMT DEF part
<1> HIDE DEF off
<1>22. Field(w[1], 15, 16) = N \div Crystal(read) BY <1>12, <1>16, <1>18, SMT DEF whole
<1>23. Field(w[1], 3, 12) < Field(w[2], 3, 12) BY <1>7, <1>12, SMT
<1>24. f * 2 ^ Field(w[5], 20, 3) \in MinVco .. MaxFreq BY <1>10, <1>14, SMT
<1>25. 8 * Crystal(read) <= Field(w[5], 12, 8) * 100 * Divided(read) BY <1>11, <1>14, <1>16, SMT
<1> QED BY <1>19, <1>22, <1>23, <1>24, <1>25, SMT DEF Outputs, read, off, N, e

-----------------------------------------------------------------------------
(***************************************************************************)
(* The types of the words                                                  *)
(***************************************************************************)
WordList == [1 .. 6 -> Nat]

(* The types of INT, FRAC and MOD, of the words and of their fields        *)
LEMMA ReducedTypes ==
  ASSUME NEW M \in Nat \ {0}, NEW frac \in Nat, NEW int \in Int
  PROVE  LET p == Reduced(int, frac, M)
         IN p.INT \in Int /\ p.FRAC \in Nat /\ p.MOD \in Nat
<1> DEFINE g == gcd[<<M, frac>>]
           m == M \div g
           y == frac \div g
<1>1. g \in Nat /\ Greatest(g, M, frac) BY GcdIsGreatest
<1>2. Reduced(int, frac, M) = [INT |-> int, FRAC |-> y, MOD |-> IF m = 1 THEN 2 ELSE m]
  BY DEF Reduced
<1>3. g # 0
  <2> HIDE DEF g
  <2>1. PICK u \in Nat : M = g * u BY <1>1 DEF Greatest, Divides
  <2>2. g = 0 => g * u = 0 BY <1>1
  <2> QED BY <2>1, <2>2
<1>4. m \in Nat /\ y \in Nat
  <2> HIDE DEF g
  <2> QED BY <1>1, <1>3
<1> HIDE DEF m, y
<1> QED BY <1>2, <1>4

LEMMA DivisionTypes ==
  ASSUME NEW s \in Setting, NEW f \in MinFreq .. MaxFreq, NEW p \in Divisions(f, s)
  PROVE  p.INT \in Int /\ p.FRAC \in Nat /\ p.MOD \in Nat
<1> DEFINE C == Crystal(s)
           M == Modulus(s)
           n == Multiplied(f, s)
           whole == n \div C
           part == n % C
           frac == Rounded(part * M, C)
<1>1. C \in Nat \ {0} /\ M \in Nat \ {0} BY Clock, SMT
<1>2. n \in Nat
  <2>1. f \in Nat /\ Factor(f, s) \in Nat /\ Divided(s) \in Nat BY Factors, Clock, Frequencies, SMT
  <2>2. n = f * Divided(s) * Factor(f, s) BY Factors, SMT
  <2> QED BY <2>1, <2>2, SMT
<1>3. p = Reduced(whole, frac, M) \/ p = Reduced(whole - 1, M, M)
  BY SMT DEF Divisions
<1> HIDE DEF C, M, n
<1>4. whole \in Int /\ part \in Nat BY <1>1, <1>2
<1> HIDE DEF whole, part
<1>5. frac \in Nat
  <2>1. part * M \in Nat BY <1>1, <1>4
  <2>2. 2 * (part * M) + C \in Nat /\ 2 * C \in Nat \ {0} BY <1>1, <2>1
  <2>3. ASSUME NEW x \in Nat, NEW y \in Nat \ {0} PROVE x \div y \in Nat OBVIOUS
  <2> QED BY <2>2, <2>3 DEF Rounded
<1> HIDE DEF frac
<1>6. whole - 1 \in Int BY <1>4
<1> QED BY <1>1, <1>3, <1>4, <1>5, <1>6, ReducedTypes

LEMMA BandSelectType ==
  ASSUME NEW s \in Setting
  PROVE  BandSelect(s) \in Nat
<1> DEFINE a == 8 * Crystal(s) + 100 * Divided(s) - 1
           b == 100 * Divided(s)
<1>1. a \in Nat /\ b \in Nat \ {0} BY Clock, SMT
<1>2. a \div b \in Nat
  <2> HIDE DEF a, b
  <2> QED BY <1>1
<1> QED BY <1>2, SMT DEF BandSelect, RoundedUp

(* The words are six numbers, for any setting.                             *)
LEMMA WordsTypes ==
  ASSUME NEW s \in Setting, NEW f \in MinFreq .. MaxFreq, NEW w \in BuildRegisters(f, s)
  PROVE  w \in WordList
<1>1. PICK p \in Divisions(f, s) : w = Words(p, f, s) BY SMT DEF BuildRegisters
<1>2. p.INT \in Int /\ p.FRAC \in Int /\ p.MOD \in Int BY <1>1, DivisionTypes
<1>3. Band(f) \in 0 .. 6 BY Bands, SMT
<1>4. BandSelect(s) \in Nat BY BandSelectType
<1>5. s.r \in Nat BY SMT DEF Setting
<1>6. Bit(s.doubler) \in Nat /\ Bit(s.div2) \in Nat /\ Bit(s.feedback) \in Nat BY DEF Bit
<1> DEFINE w1 == (p.INT % 65536) * 2^15 + (p.FRAC % 4096) * 2^3
           w2 == 2^27 + 2^15 + (p.MOD % 4096) * 2^3 + 1
           w3 == Bit(s.doubler) * 2^25 + Bit(s.div2) * 2^24 + s.r * 2^14 + 7 * 2^9 + 2^6 + 2
           w4 == 150 * 2^3 + 3
           w5 == Bit(s.feedback) * 2^23 + Band(f) * 2^20 + BandSelect(s) * 2^12 + 2^5 + 3 * 2^3 + 4
           w6 == 2^22 + 3 * 2^19 + 5
<1>7. w1 \in Nat BY <1>2, SMT
<1>8. w2 \in Nat BY <1>2, SMT
<1>9. w3 \in Nat BY <1>5, <1>6, SMT
<1>10. w4 \in Nat /\ w6 \in Nat BY SMT
<1>11. w5 \in Nat BY <1>3, <1>4, <1>6, SMT
<1>12. w = <<w1, w2, w3, w4, w5, w6>> BY <1>1, SMT DEF Words
<1> HIDE DEF w1, w2, w3, w4, w5, w6
<1> QED BY <1>7, <1>8, <1>9, <1>10, <1>11, <1>12 DEF WordList

(* There are words for every frequency of the synthesiser.                 *)
LEMMA SomeWords ==
  ASSUME NEW f, NEW s
  PROVE  BuildRegisters(f, s) # {}
BY SMT DEF BuildRegisters, Divisions

(* rfgen44.py's own setting is exact.                                      *)
LEMMA DefaultIsExact == Default \in Setting /\ Exact(Default)
<1>1. Default \in Setting BY Bounds, SMT DEF Default, Setting
<1>2. Crystal(Default) = 2500 /\ Divided(Default) = 50 BY SMT DEF Crystal, Divided, Default
<1>3. InBinary(Default)
  <2>1. gcd[<<5000, 2500>>] = gcd[<<5000 % 2500, 2500>>] BY GcdUnfolds, SMT
  <2>2. 5000 % 2500 = 0 BY SMT
  <2>3. gcd[<<0, 2500>>] = 2500
    <3>1. \A b \in Nat : gcd[<<0, b>>] = b BY GcdUnfolds
    <3> QED BY <3>1, SMT
  <2>4. gcd[<<5000, 2500>>] = 2500 BY <2>1, <2>2, <2>3, SMT
  <2>5. 100 * Divided(Default) = 5000 BY <1>2, SMT
  <2>6. (100 * Divided(Default)) \div gcd[<<100 * Divided(Default), Crystal(Default)>>] = 5000 \div 2500
    BY <1>2, <2>4, <2>5, SMT
  <2>7. 5000 \div 2500 = 2 ^ 1 BY SMT
  <2> QED BY <2>6, <2>7, SMT DEF InBinary
<1> QED BY <1>1, <1>2, <1>3, SMT DEF Exact, MaxFreq

-----------------------------------------------------------------------------
(***************************************************************************)
(* Where main() is, and that it programs no generator but the right one    *)
(***************************************************************************)
(* The shape of what a generator holds                                     *)
Holding(d) == d = [ram |-> d.ram, flash |-> d.flash, blocks |-> d.blocks, rf |-> d.rf]

Inv ==
  /\ plugged \subseteq Serials
  /\ args.ops \subseteq Operations
  /\ devs = [d \in Serials |-> devs[d]]
  /\ \A d \in Serials : Holding(devs[d])
  /\ at = "start" => serial = None
  /\ at # "start" => args.serial_number \in {serial, None}
  /\ at \in {"block0", "block1"} => NewEnough(Firmware[serial])

-----------------------------------------------------------------------------
(* main() goes on to an operation that was asked for, or ends.             *)
LEMMA Indices ==
  /\ Index("write") = 1 /\ Index("info") = 2 /\ Index("flashwrite") = 3
  /\ Index("devindetify") = 4 /\ Index("erase") = 5 /\ Index("programsweep") = 6
  /\ Index("programmacro") = 7 /\ Index("rfstate") = 8
BY DEF Index, Order

LEMMA OperationsAre ==
  Operations = {"write", "info", "flashwrite", "devindetify", "erase", "programsweep",
                "programmacro", "rfstate"}
BY DEF Operations, Order

LEMMA FirstIsAsked ==
  ASSUME NEW S \in SUBSET Operations, S # {}
  PROVE  First(S) \in S
<1>1. S \subseteq {"write", "info", "flashwrite", "devindetify", "erase", "programsweep",
                   "programmacro", "rfstate"}
  BY OperationsAre
<1> DEFINE Least(op) == op \in S /\ \A o \in S : Index(op) <= Index(o)
<1>2. \E op \in S : Least(op)
  <2>1. CASE "write" \in S       BY <1>1, <2>1, Indices
  <2>2. CASE "write" \notin S /\ "info" \in S
    <3>1. Least("info") BY <1>1, <2>2, Indices
    <3> QED BY <3>1
  <2>3. CASE S \cap {"write", "info"} = {} /\ "flashwrite" \in S
    <3>1. Least("flashwrite") BY <1>1, <2>3, Indices
    <3> QED BY <3>1
  <2>4. CASE S \cap {"write", "info", "flashwrite"} = {} /\ "devindetify" \in S
    <3>1. Least("devindetify") BY <1>1, <2>4, Indices
    <3> QED BY <3>1
  <2>5. CASE S \subseteq {"erase", "programsweep", "programmacro", "rfstate"} /\ "erase" \in S
    <3>1. Least("erase") BY <2>5, Indices
    <3> QED BY <3>1
  <2>6. CASE S \subseteq {"programsweep", "programmacro", "rfstate"} /\ "programsweep" \in S
    <3>1. Least("programsweep") BY <2>6, Indices
    <3> QED BY <3>1
  <2>7. CASE S \subseteq {"programmacro", "rfstate"} /\ "programmacro" \in S
    <3>1. Least("programmacro") BY <2>7, Indices
    <3> QED BY <3>1
  <2>8. CASE S \subseteq {"rfstate"}
    <3>1. S = {"rfstate"} BY <2>8
    <3>2. Least("rfstate") BY <3>1, Indices
    <3> QED BY <3>2
  <2> QED BY <1>1, <2>1, <2>2, <2>3, <2>4, <2>5, <2>6, <2>7, <2>8
<1> QED BY <1>2 DEF First

LEMMA GoesOn ==
  ASSUME NEW S \in SUBSET Operations, GoOn(S)
  PROVE  at' \in Operations \cup {"end"}
BY FirstIsAsked DEF GoOn

-----------------------------------------------------------------------------
(* The packets change one part of what a generator holds.                  *)
LEMMA PartsKept ==
  ASSUME NEW h, Holding(h), NEW x
  PROVE  /\ Holding([h EXCEPT !.ram = x]) /\ [h EXCEPT !.ram = x].blocks = h.blocks
         /\ Holding([h EXCEPT !.flash = x]) /\ [h EXCEPT !.flash = x].blocks = h.blocks
         /\ Holding([h EXCEPT !.rf = x]) /\ [h EXCEPT !.rf = x].blocks = h.blocks
<1>1. h = [ram |-> h.ram, flash |-> h.flash, blocks |-> h.blocks, rf |-> h.rf]
  BY DEF Holding
<1>2. [h EXCEPT !.ram = x] = [ram |-> x, flash |-> h.flash, blocks |-> h.blocks, rf |-> h.rf]
  BY <1>1
<1>3. [h EXCEPT !.flash = x] = [ram |-> h.ram, flash |-> x, blocks |-> h.blocks, rf |-> h.rf]
  BY <1>1
<1>4. [h EXCEPT !.rf = x] = [ram |-> h.ram, flash |-> h.flash, blocks |-> h.blocks, rf |-> x]
  BY <1>1
<1> QED BY <1>2, <1>3, <1>4 DEF Holding

LEMMA BlockKept ==
  ASSUME NEW h, Holding(h), NEW k, NEW b
  PROVE  Holding([h EXCEPT !.blocks[k] = b])
<1>1. h = [ram |-> h.ram, flash |-> h.flash, blocks |-> h.blocks, rf |-> h.rf]
  BY DEF Holding
<1>2. [h EXCEPT !.blocks[k] = b] =
        [ram |-> h.ram, flash |-> h.flash, blocks |-> [h.blocks EXCEPT ![k] = b], rf |-> h.rf]
  BY <1>1
<1> QED BY <1>2 DEF Holding

(* What a step may do to the generators: RightDevice, of one step.         *)
Target ==
  \A d \in Serials :
    /\ devs'[d] # devs[d] /\ plugged' = plugged =>
         d = serial /\ args.serial_number \in {d, None}
    /\ devs'[d].blocks # devs[d].blocks => Firmware[d] >= 2
    /\ at = "start" /\ serial' = d /\ args.serial_number = None => plugged = {d}

LEMMA WrittenIsMeant ==
  ASSUME Inv, at # "start", NEW d, serial \in plugged => Holding(d), Written(d),
         serial \in plugged => d.blocks = Device.blocks \/ NewEnough(Firmware[serial])
  PROVE  /\ devs' = [e \in Serials |-> devs'[e]]
         /\ \A e \in Serials : Holding(devs'[e])
         /\ Target
<1>1. CASE serial \in plugged
  <2>1. serial \in Serials /\ devs' = [devs EXCEPT ![serial] = d]
    BY <1>1 DEF Inv, Written
  <2>2. devs' = [e \in Serials |-> IF e = serial THEN d ELSE devs[e]]
    BY <2>1 DEF Inv
  <2>3. \A e \in Serials : devs'[e] = IF e = serial THEN d ELSE devs[e]
    BY <2>2
  <2>4. \A e \in Serials : Holding(devs'[e])
    BY <1>1, <2>3 DEF Inv
  <2>5. Target
    BY <1>1, <2>3 DEF Inv, Target, Device, NewEnough
  <2> QED BY <2>2, <2>4, <2>5
<1>2. CASE serial \notin plugged
  BY <1>2 DEF Inv, Target, Written
<1> QED BY <1>1, <1>2

LEMMA SameDevices ==
  ASSUME Inv, at # "start", UNCHANGED devs
  PROVE  Target
BY DEF Inv, Target

-----------------------------------------------------------------------------
(* An operation that is over, or stops the program, keeps Inv with what it *)
(* did to the generators.                                                  *)
LEMMA InvKept ==
  ASSUME Inv, plugged' = plugged, args' = args, serial' = serial, at # "start",
         at' # "start", at' \in {"block0", "block1"} => NewEnough(Firmware[serial]),
         devs' = [e \in Serials |-> devs'[e]], \A e \in Serials : Holding(devs'[e])
  PROVE  Inv'
BY DEF Inv, Holding, NewEnough

LEMMA DoneGoesOn ==
  ASSUME Inv, NEW op, Done(op)
  PROVE  at' \in Operations \cup {"end"} /\ at' \notin {"start", "block0", "block1"}
<1>1. {o \in args.ops : Index(o) > Index(op)} \subseteq Operations => at' \in Operations \cup {"end"}
  BY GoesOn DEF Done
<1> QED BY <1>1, OperationsAre DEF Inv

LEMMA StopKeeps ==
  ASSUME Inv, at # "start", NEW how, Stop(how)
  PROVE  Inv' /\ Target
<1>1. /\ plugged' = plugged /\ args' = args /\ serial' = serial /\ devs' = devs /\ at' = "end"
  BY DEF Stop
<1> QED BY <1>1, InvKept, SameDevices DEF Inv

LEMMA FailsKeeps ==
  ASSUME Inv, at # "start", NEW op, Fails(op)
  PROVE  Inv' /\ Target
<1>1. plugged' = plugged /\ args' = args /\ serial' = serial /\ devs' = devs /\ Done(op)
  BY DEF Fails
<1> QED BY <1>1, InvKept, SameDevices, DoneGoesOn DEF Inv

LEMMA AskKeeps ==
  ASSUME Inv, at # "start", NEW reading, reading \notin {"start", "block0", "block1"}, Ask(reading)
  PROVE  Inv' /\ Target
<1>1. /\ plugged' = plugged /\ args' = args /\ serial' = serial /\ devs' = devs /\ at' = reading
  BY DEF Ask
<1> QED BY <1>1, InvKept, SameDevices DEF Inv

(* An operation that writes d and is over.                                 *)
LEMMA WritingKeeps ==
  ASSUME Inv, at # "start", NEW op, NEW d, serial \in plugged => Holding(d) /\ d.blocks = Device.blocks,
         Written(d), Done(op), Closed
  PROVE  Inv' /\ Target
<1>1. plugged' = plugged /\ args' = args /\ serial' = serial
  BY DEF Closed
<1>2. /\ devs' = [e \in Serials |-> devs'[e]]
      /\ \A e \in Serials : Holding(devs'[e])
      /\ Target
  BY WrittenIsMeant
<1> QED BY <1>1, <1>2, InvKept, DoneGoesOn

LEMMA DeviceHolds ==
  ASSUME Inv, serial \in plugged
  PROVE  Holding(Device)
BY DEF Inv, Device

LEMMA StartKeeps ==
  ASSUME Inv, Start
  PROVE  Inv' /\ Target
<1>1. at = "start" /\ plugged' = plugged /\ devs' = devs /\ args' = args /\ serial = None
  BY DEF Start, Stop, Inv
<1>2. at' \in Operations \cup {"end"}
  BY GoesOn DEF Start, Stop, Inv
<1>3. args.serial_number = None => serial' = None \/ (FindsOne /\ serial' \in plugged)
  BY <1>1 DEF Start, Stop
<1>4. args.serial_number \in {serial', None}
  BY DEF Start, Stop
<1>5. FindsOne /\ serial' \in plugged => plugged = {serial'}
  <2> SUFFICES ASSUME FindsOne, serial' \in plugged PROVE plugged = {serial'}
    OBVIOUS
  <2>1. IsFiniteSet(plugged) BY SerialsAssumption, FS_Subset DEF Inv
  <2>2. PICK x : plugged = {x} BY <2>1, FS_Singleton DEF FindsOne
  <2> QED BY <2>2
<1>6. Inv'
  <2>1. at' \notin {"start", "block0", "block1"} BY <1>2, OperationsAre
  <2> QED BY <1>1, <1>4, <2>1 DEF Inv, Holding
<1>7. Target
  BY <1>1, <1>3, <1>5, SerialsAssumption DEF Target
<1> QED BY <1>6, <1>7

-----------------------------------------------------------------------------
(* One step per operation of main(), and one per cable.                    *)
LEMMA ProgramKeeps ==
  ASSUME Inv, Program
  PROVE  Inv' /\ Target
<1>1. CASE Start BY <1>1, StartKeeps
<1>2. CASE Write
  <2>1. at # "start" BY <1>2 DEF Write
  <2>2. CASE Stop("exit") BY <2>1, <2>2, StopKeeps
  <2>3. CASE /\ Written([Device EXCEPT !.ram = Payload(args.frequency)])
             /\ Done("write") /\ Closed
    BY <2>1, <2>3, DeviceHolds, PartsKept, WritingKeeps
  <2> QED BY <1>2, <2>2, <2>3 DEF Write
<1>3. CASE FlashWrite
  <2>1. at # "start" BY <1>3 DEF FlashWrite
  <2>2. CASE Stop("exit") BY <2>1, <2>2, StopKeeps
  <2>3. CASE /\ Written([Device EXCEPT !.flash = [mode |-> "fixed", ram |-> Payload(args.frequency),
                                                 sweep |-> NoSweep]])
             /\ Done("flashwrite") /\ Closed
    BY <2>1, <2>3, DeviceHolds, PartsKept, WritingKeeps
  <2> QED BY <1>3, <2>2, <2>3 DEF FlashWrite
<1>4. CASE Identify
  <2>1. at # "start" /\ Written(Device) /\ Done("devindetify") /\ Closed BY <1>4 DEF Identify
  <2> QED BY <2>1, DeviceHolds, WritingKeeps
<1>5. CASE Erase
  <2>1. /\ at # "start" /\ Written([Device EXCEPT !.flash = Erased])
        /\ Done("erase") /\ Closed
    BY <1>5 DEF Erase
  <2> QED BY <2>1, DeviceHolds, PartsKept, WritingKeeps
<1>6. CASE ProgramSweep
  <2>1. at # "start" BY <1>6 DEF ProgramSweep
  <2>2. CASE Stop("exit") \/ Stop("exception") BY <2>1, <2>2, StopKeeps
  <2>3. CASE /\ Written([Device EXCEPT !.flash = programSweep(args.sweep)])
             /\ Done("programsweep") /\ Closed
    BY <2>1, <2>3, DeviceHolds, PartsKept, WritingKeeps
  <2> QED BY <1>6, <2>2, <2>3 DEF ProgramSweep
<1>7. CASE Info \/ InfoRead
  <2>1. at # "start" BY <1>7 DEF Info, InfoRead
  <2>2. CASE Ask("info.read") BY <2>1, <2>2, AskKeeps
  <2>3. CASE Fails("info") BY <2>1, <2>3, FailsKeeps
  <2>4. CASE Stop("exception") BY <2>1, <2>4, StopKeeps
  <2>5. CASE Done("info") /\ UNCHANGED <<plugged, devs, args, serial, failed, plugs>>
    BY <2>1, <2>5, InvKept, SameDevices, DoneGoesOn DEF Inv
  <2> QED BY <1>7, <2>2, <2>3, <2>4, <2>5 DEF Info, InfoRead
<1>8. CASE ProgramMacro
  <2>1. at # "start" BY <1>8 DEF ProgramMacro
  <2>2. CASE Stop("exit") BY <2>1, <2>2, StopKeeps
  <2>3. CASE Ask("version") BY <2>1, <2>3, AskKeeps
  <2> QED BY <1>8, <2>2, <2>3 DEF ProgramMacro
<1>9. CASE Version
  <2>1. at # "start" BY <1>9 DEF Version
  <2>2. CASE Stop("exit") \/ Stop("exception") BY <2>1, <2>2, StopKeeps
  <2>3. CASE /\ NewEnough(Firmware[serial]) /\ at' = "block0"
             /\ UNCHANGED <<plugged, devs, args, serial, status, failed, plugs>>
    BY <2>1, <2>3, InvKept, SameDevices DEF Inv
  <2> QED BY <1>9, <2>2, <2>3 DEF Version
<1>10. CASE Block0 \/ Block1
  <2>1. PICK k \in 0 .. 1 : MacroBlock(k) BY <1>10 DEF Block0, Block1
  <2>2. /\ at # "start" /\ at' \notin {"start", "block0"} /\ NewEnough(Firmware[serial])
    BY <1>10 DEF Block0, Block1, Inv
  <2> DEFINE d == [Device EXCEPT !.blocks[k] = pack_macro_block(args.steps, k)]
  <2>3. Written(d) /\ Closed BY <2>1 DEF MacroBlock
  <2>4. serial \in plugged => Holding(d) BY DeviceHolds, BlockKept
  <2> HIDE DEF d
  <2>5. /\ devs' = [e \in Serials |-> devs'[e]]
        /\ \A e \in Serials : Holding(devs'[e])
        /\ Target
    BY <2>2, <2>3, <2>4, WrittenIsMeant
  <2>6. plugged' = plugged /\ args' = args /\ serial' = serial BY <2>3 DEF Closed
  <2> QED BY <2>2, <2>5, <2>6, InvKept
<1>11. CASE EnableMacro
  <2>1. /\ at # "start"
        /\ Written([Device EXCEPT !.flash = [mode |-> "macro", ram |-> Payload(args.steps[1].frequency),
                                             sweep |-> NoSweep]])
        /\ Done("programmacro") /\ Closed
    BY <1>11 DEF EnableMacro
  <2> QED BY <2>1, DeviceHolds, PartsKept, WritingKeeps
<1>12. CASE RfState \/ RfStateRead
  <2>1. at # "start" BY <1>12 DEF RfState, RfStateRead
  <2>2. CASE Ask("rfstate.read") BY <2>1, <2>2, AskKeeps
  <2>3. CASE Stop("exception") BY <2>1, <2>3, StopKeeps
  <2>4. CASE Fails("rfstate") BY <2>1, <2>4, FailsKeeps
  <2>5. CASE Written([Device EXCEPT !.rf = (args.rfstate = "on")]) /\ Done("rfstate") /\ Closed
    <3> DEFINE on == args.rfstate = "on"
               d  == [Device EXCEPT !.rf = on]
    <3>1. Written(d) /\ Done("rfstate") /\ Closed BY <2>5
    <3> HIDE DEF on
    <3>2. serial \in plugged => Holding(d) /\ d.blocks = Device.blocks BY DeviceHolds, PartsKept
    <3> HIDE DEF d
    <3> QED BY <2>1, <3>1, <3>2, WritingKeeps
  <2>6. CASE Done("rfstate") /\ UNCHANGED <<plugged, devs, args, serial>>
    BY <2>1, <2>6, InvKept, SameDevices, DoneGoesOn DEF Inv
  <2> QED BY <1>12, <2>2, <2>3, <2>4, <2>5, <2>6 DEF RfState, RfStateRead, Closed
<1> QED
  BY <1>1, <1>2, <1>3, <1>4, <1>5, <1>6, <1>7, <1>8, <1>9, <1>10, <1>11, <1>12 DEF Program

LEMMA CablesKeep ==
  ASSUME Inv, NEW d \in Serials, Unplug(d) \/ Plug(d)
  PROVE  Inv' /\ Target
<1>1. /\ plugged' # plugged /\ plugged' \subseteq Serials
      /\ args' = args /\ at' = at /\ serial' = serial
  BY DEF Unplug, Plug, Inv
<1>2. devs' = devs \/ devs' = [devs EXCEPT ![d].ram = devs[d].flash.ram]
  BY DEF Unplug, Plug
<1>3. /\ devs' = [e \in Serials |-> devs'[e]]
      /\ \A e \in Serials : Holding(devs'[e]) /\ devs'[e].blocks = devs[e].blocks
  <2>1. CASE devs' = devs BY <2>1 DEF Inv
  <2>2. CASE devs' = [devs EXCEPT ![d].ram = devs[d].flash.ram]
    <3>1. devs' = [e \in Serials |-> IF e = d THEN [devs[d] EXCEPT !.ram = devs[d].flash.ram]
                                     ELSE devs[e]]
      BY <2>2 DEF Inv
    <3>2. \A e \in Serials : devs'[e] = IF e = d THEN [devs[d] EXCEPT !.ram = devs[d].flash.ram]
                                        ELSE devs[e]
      BY <3>1
    <3>3. Holding(devs[d]) BY DEF Inv
    <3> DEFINE h == [devs[d] EXCEPT !.ram = devs[d].flash.ram]
    <3>4. Holding(h) /\ h.blocks = devs[d].blocks BY <3>3, PartsKept
    <3>5. \A e \in Serials : devs'[e] = IF e = d THEN h ELSE devs[e] BY <3>2
    <3> HIDE DEF h
    <3>6. \A e \in Serials : Holding(devs'[e]) /\ devs'[e].blocks = devs[e].blocks
      BY <3>4, <3>5 DEF Inv
    <3>7. devs' = [e \in Serials |-> devs'[e]] BY <3>1
    <3> QED BY <3>6, <3>7
  <2> QED BY <1>2, <2>1, <2>2
<1>4. Target
  BY <1>1, <1>3, SerialsAssumption DEF Inv, Target
<1>5. Inv'
  BY <1>1, <1>3 DEF Inv, Holding, NewEnough
<1> QED BY <1>4, <1>5

LEMMA Initially == Init => Inv
<1> SUFFICES ASSUME Init PROVE Inv
  OBVIOUS
<1>1. PICK h : Holding(h) /\ devs = [d \in Serials |-> h]
  <2>1. PICK l \in Left : \E r \in BuildRegisters(l.frequency, l.setting) :
          devs = [d \in Serials |->
            [ram |-> [reg |-> r, frequency |-> frequency_to_uint32(l.frequency)],
             flash |-> [mode |-> "macro",
                        ram |-> [reg |-> r, frequency |-> frequency_to_uint32(l.frequency)],
                        sweep |-> NoSweep],
             blocks |-> [k \in 0 .. 1 |-> pack_macro_block(OldMacro, k)], rf |-> TRUE]]
    BY DEF Init
  <2> QED BY <2>1 DEF Holding
<1>2. devs = [d \in Serials |-> devs[d]] /\ \A d \in Serials : Holding(devs[d])
  BY <1>1
<1> QED BY <1>2, InvocationsAssumption DEF Init, Inv

LEMMA StutterKeeps ==
  ASSUME Inv, UNCHANGED vars
  PROVE  Inv' /\ (\A d \in Serials : devs'[d] = devs[d])
BY DEF Inv, Holding, NewEnough, vars

(* Only the generator that was named, or that was the only one when the    *)
(* program looked, is programmed, and blocks of a macro go only to a       *)
(* firmware that plays them.                                               *)
THEOREM OnlyTheRightDevice == Spec => RightDevice
<1>1. Inv /\ [Next]_vars => Inv'
  BY ProgramKeeps, CablesKeep, StutterKeeps DEF Next
<1>2. Inv /\ [Next]_vars => [Target]_vars
  BY ProgramKeeps, CablesKeep DEF Next
<1>3. [Target]_vars => [\A d \in Serials :
       /\ devs'[d] # devs[d] /\ plugged' = plugged =>
            d = serial /\ args.serial_number \in {d, None}
       /\ devs'[d].blocks # devs[d].blocks => Firmware[d] >= 2
       /\ at = "start" /\ serial' = d /\ args.serial_number = None => plugged = {d}]_vars
  BY DEF Target
<1> QED BY <1>1, <1>2, <1>3, Initially, PTL DEF Spec, RightDevice

-----------------------------------------------------------------------------
(***************************************************************************)
(* What main() has validated where it is                                   *)
(***************************************************************************)
(* Where main() is, and what it has validated on the way there.            *)
Control ==
  /\ args \in Invocations
  /\ at \in Operations \cup Within \cup {"start", "end"}
  /\ serial \in Serials \cup {None} /\ open \in BOOLEAN /\ failed \in BOOLEAN
  /\ status \in {"running", "done", "exit", "exception"} /\ plugs \in 0 .. MaxPlugs
  /\ at \in {"version", "block0", "block1", "enable"} => Programmable(Len(args.steps))
  /\ at \in {"block0", "block1", "enable"} =>
       \A i \in 1 .. Len(args.steps) : parse_macro_step(args.steps[i])

Positions == Operations \cup Within \cup {"start", "end"}

(* Where main() is when an operation is over                               *)
LEMMA DonePosition ==
  ASSUME Control, NEW op, Done(op)
  PROVE  /\ at' \in Positions /\ at' \notin Within \cup {"start"}
         /\ status' \in {"running", "done"}
<1>1. args.ops \subseteq Operations BY InvocationsAssumption DEF Control
<1>2. at' \in Operations \cup {"end"} BY <1>1, GoesOn DEF Done
<1>3. status' \in {"running", "done"} BY DEF Done, GoOn
<1> QED BY <1>2, <1>3, OperationsAre DEF Positions, Within

(* An operation that is over, having left what it has not to do with.      *)
LEMMA DoneControls ==
  ASSUME Control, NEW op, Done(op), args' = args, serial' = serial, open' \in BOOLEAN,
         failed' \in BOOLEAN, plugs' = plugs
  PROVE  Control'
BY DonePosition DEF Control, Positions, Within

(* Control is kept when the program stops                                  *)
LEMMA StopControls ==
  ASSUME Control, NEW how \in {"exit", "exception"}, Stop(how)
  PROVE  Control'
BY DEF Control, Stop

(* when it waits for a reply                                               *)
LEMMA AskControls ==
  ASSUME Control, NEW reading \in Within, Ask(reading),
         reading \notin {"block0", "block1", "enable"},
         reading = "version" => Programmable(Len(args.steps))
  PROVE  Control'
BY DEF Control, Ask

(* when an operation fails                                                 *)
LEMMA FailsControls ==
  ASSUME Control, NEW op, Fails(op)
  PROVE  Control'
BY DoneControls DEF Fails

(* and when one writes.                                                    *)
LEMMA WrittenFails ==
  ASSUME Control, NEW d, Written(d)
  PROVE  failed' \in BOOLEAN
BY DEF Control, Written

LEMMA WritingControls ==
  ASSUME Control, NEW op, NEW d, Written(d), Done(op), Closed
  PROVE  Control'
BY DoneControls, WrittenFails DEF Closed, Control

(* What Start and the blocks of a macro do to Control                      *)
LEMMA StartControls ==
  ASSUME Inv, Control, Start
  PROVE  Control'
<1>1. CASE Stop("exit") BY <1>1, StopControls
<1>2. CASE GoOn(args.ops) /\ UNCHANGED <<plugged, devs, args, open, failed, plugs>>
  <2>1. args.ops \subseteq Operations /\ args.serial_number \in Serials \cup {None}
    BY InvocationsAssumption DEF Control
  <2>2. at' \in Operations \cup {"end"} BY <1>2, <2>1, GoesOn
  <2>3. status' \in {"running", "done"} BY <1>2 DEF GoOn
  <2>4. serial' \in Serials \cup {None}
    <3>1. serial' = args.serial_number \/ serial' \in plugged \/ Stop("exit") BY DEF Start
    <3>2. Stop("exit") => serial' = serial BY DEF Stop
    <3> QED BY <2>1, <3>1, <3>2 DEF Inv, Control
  <2>5. at' \notin Within BY <2>2, OperationsAre DEF Within
  <2> QED BY <1>2, <2>2, <2>3, <2>4, <2>5 DEF Control, Within
<1> QED BY <1>1, <1>2 DEF Start

LEMMA BlockControls ==
  ASSUME Control, Block0 \/ Block1
  PROVE  Control'
<1>1. PICK k \in 0 .. 1 : MacroBlock(k) BY DEF Block0, Block1
<1>2. failed' \in BOOLEAN BY <1>1, WrittenFails DEF MacroBlock
<1>3. UNCHANGED <<args, serial, open, plugs, status>> BY <1>1 DEF MacroBlock, Closed
<1>4. at \in {"block0", "block1"} /\ at' \in {"block1", "enable"} BY DEF Block0, Block1
<1> QED BY <1>2, <1>3, <1>4 DEF Control, Within

(* One step per operation of main()                                        *)
LEMMA ProgramControls ==
  ASSUME Inv, Control, Program
  PROVE  Control'
<1>1. CASE Start BY <1>1, StartControls
<1>2. CASE Write BY <1>2, StopControls, WritingControls DEF Write
<1>3. CASE FlashWrite BY <1>3, StopControls, WritingControls DEF FlashWrite
<1>4. CASE Identify BY <1>4, WritingControls DEF Identify
<1>5. CASE Erase BY <1>5, WritingControls DEF Erase
<1>6. CASE ProgramSweep BY <1>6, StopControls, WritingControls DEF ProgramSweep
<1>7. CASE Info BY <1>7, AskControls, FailsControls DEF Info, Within
<1>8. CASE InfoRead
  <2>1. CASE open' = FALSE /\ Done("info") /\ UNCHANGED <<plugged, devs, args, serial, failed, plugs>>
    <3>1. failed' \in BOOLEAN BY <2>1 DEF Control
    <3> QED BY <2>1, <3>1, DoneControls
  <2> QED BY <1>8, <2>1, StopControls, FailsControls DEF InfoRead
<1>9. CASE ProgramMacro
  <2>1. CASE Programmable(Len(args.steps)) /\ Ask("version")
    BY <2>1, AskControls DEF Within
  <2> QED BY <1>9, <2>1, StopControls DEF ProgramMacro
<1>10. CASE Version
  <2>1. CASE /\ \A i \in 1 .. Len(args.steps) : parse_macro_step(args.steps[i])
             /\ open' = FALSE /\ at' = "block0" /\ at = "version"
             /\ UNCHANGED <<plugged, devs, args, serial, status, failed, plugs>>
    BY <2>1 DEF Control, Within
  <2> QED BY <1>10, <2>1, StopControls DEF Version
<1>11. CASE Block0 \/ Block1 BY <1>11, BlockControls
<1>12. CASE EnableMacro BY <1>12, WritingControls DEF EnableMacro
<1>13. CASE RfState
  <2>1. CASE Written([Device EXCEPT !.rf = (args.rfstate = "on")]) /\ Done("rfstate") /\ Closed
    <3> DEFINE on == args.rfstate = "on"
               d  == [Device EXCEPT !.rf = on]
    <3>1. Written(d) /\ Done("rfstate") /\ Closed BY <2>1
    <3> HIDE DEF on, d
    <3> QED BY <3>1, WritingControls
  <2>2. CASE Done("rfstate") /\ Closed /\ UNCHANGED <<devs, failed>>
    <3>1. failed' \in BOOLEAN /\ open' \in BOOLEAN BY <2>2 DEF Control, Closed
    <3> QED BY <2>2, <3>1, DoneControls DEF Closed
  <2>3. CASE Ask("rfstate.read") BY <2>3, AskControls DEF Within
  <2>4. CASE Stop("exception") BY <2>4, StopControls
  <2> QED BY <1>13, <2>1, <2>2, <2>3, <2>4 DEF RfState
<1>14. CASE RfStateRead
  <2>1. CASE open' = FALSE /\ Done("rfstate") /\ UNCHANGED <<plugged, devs, args, serial, failed, plugs>>
    <3>1. failed' \in BOOLEAN BY <2>1 DEF Control
    <3> QED BY <2>1, <3>1, DoneControls
  <2> QED BY <1>14, <2>1, StopControls, FailsControls DEF RfStateRead
<1> QED
  BY <1>1, <1>2, <1>3, <1>4, <1>5, <1>6, <1>7, <1>8, <1>9, <1>10, <1>11, <1>12, <1>13, <1>14
     DEF Program

(* Control is an invariant with Inv.                                       *)
LEMMA Controls == Inv /\ Control /\ [Next]_vars => Control'
<1> SUFFICES ASSUME Inv, Control, [Next]_vars PROVE Control'
  OBVIOUS
<1>1. CASE Program BY <1>1, ProgramControls
<1>2. ASSUME NEW d \in Serials, Unplug(d) \/ Plug(d) PROVE Control'
  <2>1. UNCHANGED <<args, at, serial, status>> /\ plugs' = plugs + 1 /\ plugs < MaxPlugs
    BY <1>2 DEF Unplug, Plug
  <2>2. open' \in BOOLEAN /\ failed' \in BOOLEAN
    BY <1>2 DEF Unplug, Plug, Control
  <2>3. plugs' \in 0 .. MaxPlugs BY <2>1, LimitsAssumption DEF Control
  <2> QED BY <2>1, <2>2, <2>3 DEF Control
<1>3. CASE UNCHANGED vars BY <1>3 DEF Control, vars
<1> QED BY <1>1, <1>2, <1>3 DEF Next

LEMMA ControlInitially == Init => Control
<1> SUFFICES ASSUME Init PROVE Control
  OBVIOUS
<1>1. /\ args \in Invocations /\ at = "start" /\ serial = None /\ open = FALSE
      /\ status = "running" /\ failed = FALSE /\ plugs = 0
  BY DEF Init
<1>2. 0 \in 0 .. MaxPlugs BY LimitsAssumption
<1> QED BY <1>1, <1>2 DEF Control

-----------------------------------------------------------------------------
(***************************************************************************)
(* How a generator changes                                                 *)
(***************************************************************************)
(* What a command may put into the flash                                   *)
Stored(p) ==
  \/ p = Erased
  \/ p = programSweep(args.sweep) /\ ~Refused(args.sweep) /\ args.sweep.step >= 0
  \/ \E m \in {"fixed", "macro"}, f \in MinFreq .. MaxFreq :
       p = [mode |-> m, ram |-> Payload(f), sweep |-> NoSweep]
(* g is what a command, or getting power again, makes of the generator h.  *)
Changed(h, g) ==
  \/ g = h
  \/ \E f \in MinFreq .. MaxFreq : g = [h EXCEPT !.ram = Payload(f)]
  \/ \E p : Stored(p) /\ g = [h EXCEPT !.flash = p]
  \/ \E k \in 0 .. 1 : /\ g = [h EXCEPT !.blocks[k] = pack_macro_block(args.steps, k)]
                       /\ at \in {"block0", "block1"}
  \/ \E on \in BOOLEAN : g = [h EXCEPT !.rf = on]
  \/ g = [h EXCEPT !.ram = h.flash.ram]

(* A write changes the generator it goes to and no other.                  *)
LEMMA WrittenTo ==
  ASSUME Inv, NEW d, Written(d), NEW e \in Serials
  PROVE  devs'[e] = devs[e] \/ (e = serial /\ serial \in plugged /\ devs'[e] = d)
<1>1. devs = [x \in Serials |-> devs[x]] BY DEF Inv
<1> QED BY <1>1 DEF Written

LEMMA WrittenChange ==
  ASSUME Inv, NEW d, Written(d), Changed(Device, d), NEW e \in Serials
  PROVE  Changed(devs[e], devs'[e])
<1>1. devs'[e] = devs[e] => Changed(devs[e], devs'[e]) BY DEF Changed
<1>2. e = serial /\ devs'[e] = d => Changed(devs[e], devs'[e]) BY DEF Device
<1> QED BY <1>1, <1>2, WrittenTo

LEMMA SameChange ==
  ASSUME devs' = devs, NEW e \in Serials
  PROVE  Changed(devs[e], devs'[e])
BY DEF Changed

(* One step per operation of main()                                        *)
LEMMA ProgramChanges ==
  ASSUME Inv, Control, Program, NEW e \in Serials
  PROVE  Changed(devs[e], devs'[e])
<1>1. CASE devs' = devs BY <1>1, SameChange
<1>2. ASSUME NEW f \in MinFreq .. MaxFreq, Written([Device EXCEPT !.ram = Payload(f)])
      PROVE  Changed(devs[e], devs'[e])
  <2>1. Changed(Device, [Device EXCEPT !.ram = Payload(f)]) BY Zenon DEF Changed
  <2> QED BY <1>2, <2>1, WrittenChange
<1>3. ASSUME NEW p, Stored(p), Written([Device EXCEPT !.flash = p])
      PROVE  Changed(devs[e], devs'[e])
  <2>1. Changed(Device, [Device EXCEPT !.flash = p]) BY <1>3, Zenon DEF Changed
  <2> QED BY <1>3, <2>1, WrittenChange
<1>4. ASSUME NEW k \in 0 .. 1, at \in {"block0", "block1"},
             Written([Device EXCEPT !.blocks[k] = pack_macro_block(args.steps, k)])
      PROVE  Changed(devs[e], devs'[e])
  <2>1. Changed(Device, [Device EXCEPT !.blocks[k] = pack_macro_block(args.steps, k)])
    BY <1>4, Zenon DEF Changed
  <2> QED BY <1>4, <2>1, WrittenChange
<1>5. ASSUME NEW on \in BOOLEAN, Written([Device EXCEPT !.rf = on])
      PROVE  Changed(devs[e], devs'[e])
  <2>1. Changed(Device, [Device EXCEPT !.rf = on]) BY Zenon DEF Changed
  <2> QED BY <1>5, <2>1, WrittenChange
<1>6. ASSUME Written(Device) PROVE Changed(devs[e], devs'[e])
  <2>1. Changed(Device, Device) BY Zenon DEF Changed
  <2> QED BY <1>6, <2>1, WrittenChange
<1>7. ASSUME NEW m \in {"fixed", "macro"}, NEW f \in MinFreq .. MaxFreq
      PROVE  Stored([mode |-> m, ram |-> Payload(f), sweep |-> NoSweep])
  BY Zenon DEF Stored
<1>8. CASE Start BY <1>1, <1>8 DEF Start, Stop
<1>9. CASE Write BY <1>1, <1>2, <1>9 DEF Write, Stop, Valid
<1>10. CASE FlashWrite
  <2>1. CASE Stop("exit") BY <1>1, <2>1 DEF Stop
  <2>2. CASE Valid(args.frequency) /\ Written([Device EXCEPT !.flash = [mode |-> "fixed", ram |-> Payload(args.frequency),
                                             sweep |-> NoSweep]])
    BY <1>3, <1>7, <2>2 DEF Valid
  <2> QED BY <1>10, <2>1, <2>2 DEF FlashWrite
<1>11. CASE Identify BY <1>6, <1>11 DEF Identify
<1>12. CASE Erase
  <2>1. Stored(Erased) BY Zenon DEF Stored
  <2> QED BY <1>3, <1>12, <2>1 DEF Erase
<1>13. CASE ProgramSweep
  <2>1. CASE Stop("exit") \/ Stop("exception") BY <1>1, <2>1 DEF Stop
  <2>2. CASE /\ ~Refused(args.sweep) /\ args.sweep.step >= 0
             /\ Written([Device EXCEPT !.flash = programSweep(args.sweep)])
    <3>1. Stored(programSweep(args.sweep)) BY <2>2, Zenon DEF Stored
    <3> QED BY <1>3, <2>2, <3>1
  <2> QED BY <1>13, <2>1, <2>2 DEF ProgramSweep
<1>14. CASE Info \/ InfoRead \/ ProgramMacro \/ Version \/ RfStateRead
  BY <1>1, <1>14 DEF Info, InfoRead, ProgramMacro, Version, RfStateRead, Ask, Stop, Fails
<1>15. CASE Block0 \/ Block1 BY <1>4, <1>15 DEF Block0, Block1, MacroBlock
<1>16. CASE EnableMacro
  <2>1. at = "enable" /\ Written([Device EXCEPT !.flash =
           [mode |-> "macro", ram |-> Payload(args.steps[1].frequency), sweep |-> NoSweep]])
    BY <1>16 DEF EnableMacro
  <2>2. 1 \in 1 .. Len(args.steps) BY <2>1, InvocationsAssumption DEF Control, Programmable
  <2>3. args.steps[1].frequency \in MinFreq .. MaxFreq
    BY <2>1, <2>2 DEF Control, parse_macro_step, Valid
  <2> QED BY <1>3, <1>7, <2>1, <2>3
<1>17. CASE RfState
  <2>1. CASE devs' = devs BY <1>1, <2>1
  <2>2. CASE Written([Device EXCEPT !.rf = (args.rfstate = "on")])
    <3> DEFINE on == args.rfstate = "on"
    <3>1. on \in BOOLEAN /\ Written([Device EXCEPT !.rf = on]) BY <2>2
    <3> HIDE DEF on
    <3> QED BY <1>5, <3>1
  <2>3. \/ devs' = devs
        \/ Written([Device EXCEPT !.rf = (args.rfstate = "on")])
    BY <1>17 DEF RfState, Ask, Stop
  <2> QED BY <2>1, <2>2, <2>3
<1> QED
  BY <1>8, <1>9, <1>10, <1>11, <1>12, <1>13, <1>14, <1>15, <1>16, <1>17 DEF Program

(* Whatever happens, a generator changes in one of these ways or not at    *)
(* all.                                                                    *)
LEMMA Changes ==
  ASSUME Inv, Control, [Next]_vars, NEW e \in Serials
  PROVE  Changed(devs[e], devs'[e])
<1>1. CASE Program BY <1>1, ProgramChanges
<1>2. ASSUME NEW d \in Serials, Unplug(d) PROVE Changed(devs[e], devs'[e])
  BY <1>2, SameChange DEF Unplug
<1>3. ASSUME NEW d \in Serials, Plug(d) PROVE Changed(devs[e], devs'[e])
  <2>1. CASE devs' = devs BY <2>1, SameChange
  <2>2. CASE devs' = [devs EXCEPT ![d].ram = devs[d].flash.ram]
    <3>1. devs = [x \in Serials |-> devs[x]] BY DEF Inv
    <3>2. devs'[e] = devs[e] \/ devs'[e] = [devs[e] EXCEPT !.ram = devs[e].flash.ram]
      BY <2>2, <3>1
    <3> QED BY <3>2 DEF Changed
  <2> QED BY <1>3, <2>1, <2>2 DEF Plug
<1>4. CASE UNCHANGED vars BY <1>4, SameChange DEF vars
<1> QED BY <1>1, <1>2, <1>3, <1>4 DEF Next

-----------------------------------------------------------------------------
(***************************************************************************)
(* Frequencies, steps and blocks as they are sent                          *)
(***************************************************************************)
(* The product by 100 is exact, or falls short by one unit.                *)
LEMMA HundredfoldIs ==
  ASSUME NEW n \in Int
  PROVE  Hundredfold(n) \in Int /\ n - Hundredfold(n) \in {0, 1} /\ (n \in Nat => Hundredfold(n) \in Nat)
<1> DEFINE e == Exponent((128 * n) \div 100) - 7
           more == Exponent(n) - e - (IF n = 2 ^ Exponent(n) THEN 1 ELSE 0)
           short == Remainder(n, e) > 2 ^ (more - 1)
<1>1. Hundredfold(n) = IF n = 0 THEN 0 ELSE IF short THEN n - 1 ELSE n BY SMT DEF Hundredfold
<1> HIDE DEF short
<1> QED BY <1>1, SMT

MacroStep == [frequency : Int, duration : Int, rf : BOOLEAN]

(* The fields of a packed step                                             *)
LEMMA StepPacked ==
  ASSUME NEW steps \in Seq(MacroStep), NEW i \in 1 .. Len(steps)
  PROVE  /\ pack_step(steps, i) \in Step
         /\ pack_step(steps, i) =
              [frequency |-> frequency_to_uint32(steps[i].frequency) % 16777216,
               step_ms |-> steps[i].duration % 16777216, enabled |-> TRUE,
               rf |-> IF steps[i].rf THEN 1 ELSE 2, recalc |-> Recalc(steps, i)]
<1> DEFINE f == frequency_to_uint32(steps[i].frequency)
           t == steps[i].duration
           re == Recalc(steps, i)
           on == steps[i].rf
<1>1. steps[i] \in MacroStep BY ElementOfSeq, SMT
<1>2. t \in Int BY <1>1 DEF MacroStep
<1>3. f \in Int BY <1>1, HundredfoldIs DEF MacroStep, frequency_to_uint32
<1>4. re \in BOOLEAN BY Zenon DEF Recalc
<1>5. pack_step(steps, i) =
        [frequency |-> f % 2^24, step_ms |-> t % 2^24, enabled |-> TRUE,
         rf |-> IF on THEN 1 ELSE 2, recalc |-> re]
  BY Zenon DEF pack_step, uint24_to_bytes, STEP_FLAG_RF_ON, STEP_FLAG_RF_OFF
<1> HIDE DEF f, t, re, on
<1>6. f % 2^24 = f % 16777216 /\ t % 2^24 = t % 16777216 BY SMT
<1>7. f % 2^24 \in 0 .. 2^24 - 1 /\ t % 2^24 \in 0 .. 2^24 - 1 BY <1>2, <1>3, SMT
<1>8. (IF on THEN 1 ELSE 2) \in 0 .. 3 BY SMT
<1>9. pack_step(steps, i) \in Step
  <2> DEFINE F == f % 2^24
             T == t % 2^24
             R == IF on THEN 1 ELSE 2
  <2>1. pack_step(steps, i) = [frequency |-> F, step_ms |-> T, enabled |-> TRUE, rf |-> R, recalc |-> re]
    BY <1>5, Zenon
  <2>2. F \in 0 .. 2^24 - 1 /\ T \in 0 .. 2^24 - 1 /\ R \in 0 .. 3 BY <1>7, <1>8, Zenon
  <2> HIDE DEF F, T, R
  <2>3. [frequency |-> F, step_ms |-> T, enabled |-> TRUE, rf |-> R, recalc |-> re] \in Step
    BY <1>4, <2>2, Zenon DEF Step
  <2> QED BY <2>1, <2>3
<1>10. pack_step(steps, i) =
        [frequency |-> f % 16777216, step_ms |-> t % 16777216, enabled |-> TRUE,
         rf |-> IF on THEN 1 ELSE 2, recalc |-> re]
  BY <1>5, <1>6, SMT
<1> QED BY <1>9, <1>10, SMT DEF f, t, re, on

(* The lengths of the two blocks                                           *)
Count(n, k) == IF k = 0 THEN IF n < MACRO_STEPS_PER_BLOCK THEN n ELSE MACRO_STEPS_PER_BLOCK
               ELSE IF n > MACRO_STEPS_PER_BLOCK THEN n - MACRO_STEPS_PER_BLOCK ELSE 0

(* The block that is sent, step by step                                    *)
LEMMA BlockPacked ==
  ASSUME NEW steps \in Seq(MacroStep), Len(steps) <= 2 * MACRO_STEPS_PER_BLOCK, NEW k \in 0 .. 1
  PROVE  /\ Count(Len(steps), k) \in 0 .. MACRO_STEPS_PER_BLOCK
         /\ pack_macro_block(steps, k) =
              [stepConfig |-> [i \in 1 .. Count(Len(steps), k) |->
                                 pack_step(steps, k * MACRO_STEPS_PER_BLOCK + i)],
               macroSteps |-> Count(Len(steps), k)]
         /\ pack_macro_block(steps, k) \in Block
<1> DEFINE n == Len(steps)
           B == MACRO_STEPS_PER_BLOCK
           c == Count(n, k)
           all == [i \in 1 .. n |-> pack_step(steps, i)]
           slice == [i \in 1 .. c |-> pack_step(steps, k * B + i)]
<1>1. n \in Nat /\ B \in Nat \ {0} /\ n <= 2 * B BY BlockAssumption
<1>2. \A i \in 1 .. n : all[i] = pack_step(steps, i) /\ pack_step(steps, i) \in Step
  BY StepPacked
<1>3. all \in Seq(Step) /\ Len(all) = n
  <2> HIDE DEF n
  <2> QED BY <1>1, <1>2
<1>4. Slice(steps, k) = IF k = 0 THEN SubSeq(all, 1, IF Len(all) < B THEN Len(all) ELSE B)
                        ELSE SubSeq(all, B + 1, Len(all))
  BY DEF Slice
<1>5. c \in 0 .. B /\ (k = 0 => c = IF n < B THEN n ELSE B) /\ (k = 1 => c = IF n > B THEN n - B ELSE 0)
  BY <1>1 DEF Count
<1> HIDE DEF n, B, c, all
<1>6. SubSeq(all, k * B + 1, k * B + c) = slice
  <2>1. \A i \in 1 .. c : k * B + i \in 1 .. n BY <1>1, <1>5
  <2>2. SubSeq(all, k * B + 1, k * B + c) = [i \in 1 .. c |-> all[k * B + i]]
    <3>1. SubSeq(all, k * B + 1, k * B + c) =
            [i \in 1 .. (k * B + c - (k * B + 1) + 1) |-> all[(i + (k * B + 1)) - 1]]
      BY <1>1, <1>3, <1>5 
    <3>2. k * B + c - (k * B + 1) + 1 = c BY <1>1, <1>5
    <3>3. \A i \in 1 .. c : (i + (k * B + 1)) - 1 = k * B + i BY <1>1, <1>5
    <3> QED BY <3>1, <3>2, <3>3
  <2>3. \A i \in 1 .. c : all[k * B + i] = pack_step(steps, k * B + i) BY <1>2, <2>1
  <2> QED BY <2>2, <2>3
<1>7. Slice(steps, k) = slice
  <2>1. CASE k = 0
    <3>1. k * B + 1 = 1 /\ k * B + c = IF Len(all) < B THEN Len(all) ELSE B BY <1>1, <1>3, <1>5, <2>1
    <3> QED BY <1>4, <1>6, <2>1, <3>1
  <2>2. CASE k = 1 /\ n > B
    <3>1. k * B + 1 = B + 1 /\ k * B + c = Len(all) BY <1>1, <1>3, <1>5, <2>2
    <3> QED BY <1>4, <1>6, <2>2, <3>1
  <2>3. CASE k = 1 /\ ~(n > B)
    <3>1. c = 0 /\ Len(all) < B + 1 BY <1>1, <1>3, <1>5, <2>3
    <3>2. SubSeq(all, B + 1, Len(all)) = << >> BY <1>1, <1>3, <3>1
    <3>3. slice = << >> BY <3>1
    <3>4. k # 0 BY <2>3
    <3> HIDE DEF slice
    <3>5. Slice(steps, k) = SubSeq(all, B + 1, Len(all)) BY <1>4, <3>4, Zenon
    <3> QED BY <3>2, <3>3, <3>5, Zenon
  <2>4. k = 0 \/ (k = 1 /\ n > B) \/ (k = 1 /\ ~(n > B)) OBVIOUS
  <2> QED BY <2>1, <2>2, <2>3, <2>4, Zenon
<1>8. slice \in Seq(Step) /\ Len(slice) = c
  <2>1. \A i \in 1 .. c : pack_step(steps, k * B + i) \in Step
    <3>1. \A i \in 1 .. c : k * B + i \in 1 .. n BY <1>1, <1>5
    <3> QED BY <1>2, <3>1
  <2>2. c \in Nat BY <1>1, <1>5
  <2> QED BY <2>1, <2>2
<1> HIDE DEF slice
<1>9. pack_macro_block(steps, k) = [stepConfig |-> slice, macroSteps |-> c]
  BY <1>7, <1>8 DEF pack_macro_block
<1>10. [stepConfig |-> slice, macroSteps |-> c] \in Block BY <1>5, <1>8, Zenon DEF Block, B
<1> QED BY <1>5, <1>9, <1>10 DEF slice, B, c, n

-----------------------------------------------------------------------------
(***************************************************************************)
(* The types, and the agreement of words and frequency, are kept by every  *)
(* change.                                                                 *)
(***************************************************************************)
Kept(h) ==
  /\ h.ram \in Registers /\ h.flash \in Flash /\ h.rf \in BOOLEAN
  /\ h.blocks \in [0 .. 1 -> Block]
Tuned(h) == Agree(h.ram) /\ Agree(h.flash.ram)

(* What --write and the others send puts out the frequency asked for.      *)
LEMMA PayloadOfDefault ==
  ASSUME NEW f \in MinFreq .. MaxFreq
  PROVE  /\ Payload(f) \in Registers /\ Agree(Payload(f))
         /\ Outputs(Payload(f).reg, Default.ref, f)
<1> DEFINE r == CHOOSE w \in BuildRegisters(f, Default) : TRUE
           u == frequency_to_uint32(f)
<1>1. r \in BuildRegisters(f, Default) BY SomeWords, Zenon
<1>2. Payload(f) = [reg |-> r, frequency |-> u] BY Zenon DEF Payload
<1>3. f \in Nat BY Frequencies, SMT
<1>4. u \in Nat /\ f - u \in {0, 1} BY <1>3, HundredfoldIs, SMT DEF frequency_to_uint32
<1> HIDE DEF r, u
<1>5. r \in WordList /\ Outputs(r, Default.ref, f)
  BY <1>1, DefaultIsExact, WordsTypes, WordsAreExact, Zenon
<1>6. Payload(f) \in Registers BY <1>2, <1>4, <1>5, SMT DEF Registers, WordList
<1>7. Payload(f).reg = r /\ Payload(f).frequency = u BY <1>2, SMT
<1>8. PICK short \in {0, 1} : f = u + short BY <1>3, <1>4, SMT
<1>9. Agree(Payload(f)) BY <1>5, <1>7, <1>8, Zenon DEF Agree
<1> QED BY <1>5, <1>6, <1>7, <1>9, Zenon

(* What is stored has its type, and puts out its frequency.                *)
LEMMA StoredTypes ==
  ASSUME Control, NEW p, Stored(p)
  PROVE  p \in Flash /\ Agree(p.ram)
<1>1. 3500 \in MinFreq .. MaxFreq BY Bounds, SMT
<1>2. CASE p = Erased
  <2> DEFINE r == Payload(3500)
  <2>1. r \in Registers /\ Agree(r) BY <1>1, PayloadOfDefault, SMT
  <2>2. p = [mode |-> "erased", ram |-> r, sweep |-> << >>] BY <1>2, Zenon DEF Erased, NoSweep
  <2> HIDE DEF r
  <2> QED BY <2>1, <2>2, SMT DEF Flash
<1>3. CASE p = programSweep(args.sweep) /\ ~Refused(args.sweep) /\ args.sweep.step >= 0
  <2> DEFINE r == Payload(3500)
             s == args.sweep
             q == <<frequency_to_uint32(s.start), frequency_to_uint32(s.stop),
                    frequency_to_uint32(s.step), s.ms % 2^16>>
  <2>1. r \in Registers /\ Agree(r) BY <1>1, PayloadOfDefault, SMT
  <2>2. p = [mode |-> "sweep", ram |-> r, sweep |-> q] BY <1>3, Zenon DEF programSweep
  <2>3. s \in [start : Int, stop : Int, step : Int, ms : Int] BY InvocationsAssumption, Zenon DEF Control
  <2>4. s.start \in MinFreq .. MaxFreq /\ s.stop \in MinFreq .. MaxFreq
    BY <1>3, Zenon DEF Refused, Valid
  <2>5. s.start \in Nat /\ s.stop \in Nat /\ s.step \in Nat /\ s.ms \in Int
    BY <1>3, <2>3, <2>4, Frequencies, SMT
  <2>6. /\ frequency_to_uint32(s.start) \in Nat /\ frequency_to_uint32(s.stop) \in Nat
        /\ frequency_to_uint32(s.step) \in Nat
    BY <2>5, HundredfoldIs, SMT DEF frequency_to_uint32
  <2>7. s.ms % 2^16 \in Nat BY <2>5, SMT
  <2>8. q \in Seq(Nat)
    <3>1. ASSUME NEW a \in Nat, NEW b \in Nat, NEW c \in Nat, NEW d \in Nat
          PROVE  <<a, b, c, d>> \in Seq(Nat)
      OBVIOUS
    <3> QED BY <2>6, <2>7, <3>1, Zenon
  <2> HIDE DEF r, q
  <2> QED BY <2>1, <2>2, <2>8, SMT DEF Flash
<1>4. ASSUME NEW m \in {"fixed", "macro"}, NEW f \in MinFreq .. MaxFreq,
             p = [mode |-> m, ram |-> Payload(f), sweep |-> NoSweep]
      PROVE  p \in Flash /\ Agree(p.ram)
  <2> DEFINE r == Payload(f)
  <2>1. r \in Registers /\ Agree(r) BY PayloadOfDefault, Zenon
  <2>2. p = [mode |-> m, ram |-> r, sweep |-> << >>] BY <1>4, Zenon DEF NoSweep
  <2> HIDE DEF r
  <2> QED BY <2>1, <2>2, SMT DEF Flash
<1> QED BY <1>2, <1>3, <1>4, Zenon DEF Stored

(* A macro that passed the checks fits the two blocks.                     *)
LEMMA MacroIsTyped ==
  ASSUME Control
  PROVE  /\ args.steps \in Seq(MacroStep)
         /\ at \in {"block0", "block1", "enable"} => Len(args.steps) <= 2 * MACRO_STEPS_PER_BLOCK
<1>1. args.steps \in Seq(MacroStep) BY InvocationsAssumption, Zenon DEF Control, MacroStep
<1>2. Programmable(Len(args.steps)) => Len(args.steps) <= 2 * MACRO_STEPS_PER_BLOCK
  BY LimitsAssumption, BlockAssumption, <1>1, SMT DEF Programmable
<1> QED BY <1>1, <1>2, Zenon DEF Control

(* A change keeps the types of what a generator holds                      *)
LEMMA ChangeKeeps ==
  ASSUME Control, NEW h, Holding(h), NEW g, Changed(h, g), Kept(h)
  PROVE  Kept(g)
<1>1. h = [ram |-> h.ram, flash |-> h.flash, blocks |-> h.blocks, rf |-> h.rf] BY DEF Holding
<1>2. ASSUME NEW r \in Registers, g = [h EXCEPT !.ram = r] PROVE Kept(g)
  <2>1. g = [ram |-> r, flash |-> h.flash, blocks |-> h.blocks, rf |-> h.rf] BY <1>1, <1>2
  <2> QED BY <1>2, <2>1 DEF Kept
<1>3. ASSUME NEW p \in Flash, g = [h EXCEPT !.flash = p] PROVE Kept(g)
  <2>1. g = [ram |-> h.ram, flash |-> p, blocks |-> h.blocks, rf |-> h.rf] BY <1>1, <1>3
  <2> QED BY <1>3, <2>1 DEF Kept
<1>4. ASSUME NEW on \in BOOLEAN, g = [h EXCEPT !.rf = on] PROVE Kept(g)
  <2>1. g = [ram |-> h.ram, flash |-> h.flash, blocks |-> h.blocks, rf |-> on] BY <1>1, <1>4
  <2> QED BY <1>4, <2>1 DEF Kept
<1>5. ASSUME NEW k \in 0 .. 1, NEW b \in Block, g = [h EXCEPT !.blocks[k] = b] PROVE Kept(g)
  <2>1. g = [ram |-> h.ram, flash |-> h.flash, blocks |-> [h.blocks EXCEPT ![k] = b], rf |-> h.rf]
    BY <1>1, <1>5
  <2>2. [h.blocks EXCEPT ![k] = b] \in [0 .. 1 -> Block] BY <1>5 DEF Kept
  <2> HIDE DEF Kept
  <2> QED BY <2>1, <2>2 DEF Kept
<1>6. \A f \in MinFreq .. MaxFreq : Payload(f) \in Registers BY PayloadOfDefault, Zenon
<1>7. \A p : Stored(p) => p \in Flash BY StoredTypes, Zenon
<1>8. at \in {"block0", "block1"} => \A k \in 0 .. 1 : pack_macro_block(args.steps, k) \in Block
  BY MacroIsTyped, BlockPacked, SMT
<1>9. h.flash.ram \in Registers BY SMT DEF Kept, Flash
<1> HIDE DEF Kept
<1> QED BY <1>2, <1>3, <1>4, <1>5, <1>6, <1>7, <1>8, <1>9, Zenon DEF Changed

(* and the agreement of its words and its frequency.                       *)
LEMMA ChangeTunes ==
  ASSUME Control, NEW h, Holding(h), NEW g, Changed(h, g), Tuned(h)
  PROVE  Tuned(g)
<1>1. h = [ram |-> h.ram, flash |-> h.flash, blocks |-> h.blocks, rf |-> h.rf] BY DEF Holding
<1>2. ASSUME NEW r, Agree(r), g = [h EXCEPT !.ram = r] PROVE Tuned(g)
  <2>1. g.ram = r /\ g.flash = h.flash BY <1>1, <1>2
  <2> QED BY <1>2, <2>1 DEF Tuned
<1>3. ASSUME NEW p, Agree(p.ram), g = [h EXCEPT !.flash = p] PROVE Tuned(g)
  <2>1. g.ram = h.ram /\ g.flash = p BY <1>1, <1>3
  <2> QED BY <1>3, <2>1 DEF Tuned
<1>4. ASSUME NEW on \in BOOLEAN, g = [h EXCEPT !.rf = on] PROVE Tuned(g)
  <2>1. g.ram = h.ram /\ g.flash = h.flash BY <1>1, <1>4
  <2> QED BY <2>1 DEF Tuned
<1>5. ASSUME NEW k \in 0 .. 1, NEW b, g = [h EXCEPT !.blocks[k] = b] PROVE Tuned(g)
  <2>1. g.ram = h.ram /\ g.flash = h.flash BY <1>1, <1>5
  <2> QED BY <2>1 DEF Tuned
<1>6. \A f \in MinFreq .. MaxFreq : Agree(Payload(f)) BY PayloadOfDefault, Zenon
<1>7. \A p : Stored(p) => Agree(p.ram) BY StoredTypes, Zenon
<1>8. Agree(h.flash.ram) BY DEF Tuned
<1> QED BY <1>2, <1>3, <1>4, <1>5, <1>6, <1>7, <1>8, Zenon DEF Changed

TypeInv == Inv /\ Control /\ \A d \in Serials : Kept(devs[d])

(* What the generators hold at first: what the application sent them.      *)
LEMMA LeftByTheApplication ==
  ASSUME Init
  PROVE  \E l \in Left : \E r \in BuildRegisters(l.frequency, l.setting) :
           \A d \in Serials :
             /\ devs[d].ram = [reg |-> r, frequency |-> frequency_to_uint32(l.frequency)]
             /\ devs[d].flash = [mode |-> "macro", ram |-> devs[d].ram, sweep |-> NoSweep]
             /\ devs[d].blocks = [k \in 0 .. 1 |-> pack_macro_block(OldMacro, k)]
             /\ devs[d].rf = TRUE
<1>1. PICK l \in Left : \E r \in BuildRegisters(l.frequency, l.setting) :
          devs = [d \in Serials |->
            [ram |-> [reg |-> r, frequency |-> frequency_to_uint32(l.frequency)],
             flash |-> [mode |-> "macro",
                        ram |-> [reg |-> r, frequency |-> frequency_to_uint32(l.frequency)],
                        sweep |-> NoSweep],
             blocks |-> [k \in 0 .. 1 |-> pack_macro_block(OldMacro, k)], rf |-> TRUE]]
  BY DEF Init
<1> QED BY <1>1

LEMMA KeptInitially ==
  ASSUME Init, NEW d \in Serials
  PROVE  Kept(devs[d])
<1> DEFINE ram == devs[d].ram
<1>a. PICK l \in Left : \E r \in BuildRegisters(l.frequency, l.setting) :
        /\ ram = [reg |-> r, frequency |-> frequency_to_uint32(l.frequency)]
        /\ devs[d].flash = [mode |-> "macro", ram |-> ram, sweep |-> NoSweep]
        /\ devs[d].blocks = [k \in 0 .. 1 |-> pack_macro_block(OldMacro, k)]
        /\ devs[d].rf = TRUE
  BY LeftByTheApplication, Zenon
<1>1. PICK w \in BuildRegisters(l.frequency, l.setting) :
        /\ ram = [reg |-> w, frequency |-> frequency_to_uint32(l.frequency)]
        /\ devs[d].flash = [mode |-> "macro", ram |-> ram, sweep |-> NoSweep]
        /\ devs[d].blocks = [k \in 0 .. 1 |-> pack_macro_block(OldMacro, k)]
        /\ devs[d].rf = TRUE
  BY <1>a, Zenon
<1> HIDE DEF ram
<1>2. l.frequency \in MinFreq .. MaxFreq /\ l.setting \in Setting BY LeftAssumption, Zenon
<1>3. w \in WordList BY <1>2, WordsTypes, Zenon
<1>4. frequency_to_uint32(l.frequency) \in Nat
  BY <1>2, Frequencies, HundredfoldIs, SMT DEF frequency_to_uint32
<1>5. ram \in Registers BY <1>1, <1>3, <1>4, SMT DEF Registers, WordList
<1>6. devs[d].flash \in Flash BY <1>1, <1>5, SMT DEF Flash, NoSweep
<1>7. devs[d].blocks \in [0 .. 1 -> Block]
  <2>1. OldMacro \in Seq(MacroStep) /\ Len(OldMacro) <= 2 * MACRO_STEPS_PER_BLOCK
    <3>1. [frequency : MinFreq .. MaxFreq, duration : Nat, rf : BOOLEAN] \subseteq MacroStep
      BY Frequencies, SMT DEF MacroStep
    <3>2. ASSUME NEW S, NEW R, S \subseteq R, NEW q \in Seq(S) PROVE q \in Seq(R)
      <4>1. q = [i \in 1 .. Len(q) |-> q[i]] /\ Len(q) \in Nat BY <3>2
      <4>2. \A i \in 1 .. Len(q) : q[i] \in R BY <3>2
      <4> QED BY <4>1, <4>2
    <3> QED BY <3>1, <3>2, OldMacroAssumption, Zenon
  <2>2. \A k \in 0 .. 1 : pack_macro_block(OldMacro, k) \in Block BY <2>1, BlockPacked, SMT
  <2> QED BY <1>1, <2>2, SMT
<1> QED BY <1>1, <1>5, <1>6, <1>7 DEF Kept, ram

(* The types are an invariant.                                             *)
LEMMA TypeInvHolds ==
  /\ Init => TypeInv
  /\ TypeInv /\ [Next]_vars => TypeInv'
<1>1. Init => TypeInv BY Initially, ControlInitially, KeptInitially DEF TypeInv
<1>2. ASSUME TypeInv, [Next]_vars PROVE TypeInv'
  <2>1. Inv' BY <1>2, ProgramKeeps, CablesKeep, StutterKeeps DEF TypeInv, Next
  <2>2. Control' BY <1>2, Controls DEF TypeInv
  <2>3. ASSUME NEW d \in Serials PROVE Kept(devs'[d])
    <3>1. Holding(devs[d]) /\ Kept(devs[d]) BY <1>2 DEF TypeInv, Inv
    <3>2. Changed(devs[d], devs'[d]) BY <1>2, Changes DEF TypeInv
    <3> QED BY <1>2, <3>1, <3>2, ChangeKeeps DEF TypeInv
  <2>4. \A d \in Serials : Kept(devs[d])' BY <2>3 DEF Kept
  <2> QED BY <2>1, <2>2, <2>4 DEF TypeInv
<1> QED BY <1>1, <1>2

(* Every variable keeps its type, and what goes to flash fits its fields.  *)
THEOREM TypesKept == Spec => []TypeOK
<1>1. TypeInv => TypeOK
  BY SMT DEF TypeInv, Inv, Control, Kept, TypeOK
<1> QED BY <1>1, TypeInvHolds, PTL DEF Spec

(* The registers a generator holds always put out their frequency.         *)
THEOREM WordsAlwaysAgree ==
  ASSUME \A l \in Left : Exact(l.setting)
  PROVE  Spec => []WordsAgree
<1>1. ASSUME Init, NEW d \in Serials PROVE Tuned(devs[d])
  <2> DEFINE ram == devs[d].ram
  <2>a. PICK l \in Left : \E r \in BuildRegisters(l.frequency, l.setting) :
          /\ ram = [reg |-> r, frequency |-> frequency_to_uint32(l.frequency)]
          /\ devs[d].flash = [mode |-> "macro", ram |-> ram, sweep |-> NoSweep]
    BY <1>1, LeftByTheApplication, Zenon
  <2>1. PICK w \in BuildRegisters(l.frequency, l.setting) :
          /\ ram = [reg |-> w, frequency |-> frequency_to_uint32(l.frequency)]
          /\ devs[d].flash = [mode |-> "macro", ram |-> ram, sweep |-> NoSweep]
    BY <2>a, Zenon
  <2> HIDE DEF ram
  <2>2. /\ l.frequency \in MinFreq .. MaxFreq /\ l.setting \in Setting /\ Exact(l.setting)
        /\ l.setting.ref = Default.ref
    BY LeftAssumption, Zenon
  <2>3. Outputs(w, Default.ref, l.frequency) BY <2>2, WordsAreExact, Zenon
  <2>4. ram.reg = w /\ ram.frequency = frequency_to_uint32(l.frequency) BY <2>1, SMT
  <2>5. PICK short \in {0, 1} : l.frequency = ram.frequency + short
    <3>1. l.frequency \in Int BY <2>2, Frequencies, SMT
    <3>2. ram.frequency \in Int /\ l.frequency - ram.frequency \in {0, 1}
      BY <2>4, <3>1, HundredfoldIs, SMT DEF frequency_to_uint32
    <3> QED BY <3>1, <3>2, SMT
  <2>6. Agree(ram) BY <2>3, <2>4, <2>5, Zenon DEF Agree
  <2>7. devs[d].flash.ram = ram BY <2>1, SMT
  <2> QED BY <2>6, <2>7, Zenon DEF Tuned, ram
<1> DEFINE AllTuned == \A d \in Serials : Tuned(devs[d])
<1>2. Init => AllTuned BY <1>1
<1>3. ASSUME TypeInv, [Next]_vars, AllTuned PROVE AllTuned'
  <2>1. ASSUME NEW d \in Serials PROVE Tuned(devs'[d])
    <3>1. Holding(devs[d]) /\ Tuned(devs[d]) BY <1>3 DEF TypeInv, Inv
    <3>2. Changed(devs[d], devs'[d]) BY <1>3, Changes DEF TypeInv
    <3> QED BY <1>3, <3>1, <3>2, ChangeTunes DEF TypeInv
  <2> QED BY <2>1
<1>4. AllTuned => WordsAgree BY DEF Tuned, WordsAgree
<1> HIDE DEF AllTuned
<1> QED BY <1>2, <1>3, <1>4, TypeInvHolds, PTL DEF Spec

-----------------------------------------------------------------------------
(***************************************************************************)
(* What the device plays of a macro that was sent                          *)
(***************************************************************************)
(* An interval from 1 has as many members as its last.                     *)
LEMMA Interval ==
  ASSUME NEW c \in Nat
  PROVE  Cardinality(1 .. c) = c
<1>1. Cardinality(1 .. c) = IF 1 > c THEN 0 ELSE c - 1 + 1
  BY FS_Interval, SMT
<1> QED BY <1>1

(* A block whose steps are all enabled plays them all.                     *)
LEMMA AllEnabled ==
  ASSUME NEW c \in Nat, NEW e, NEW b, e = [i \in 1 .. c |-> e[i]],
         b.stepConfig = e, b.macroSteps = c, \A i \in 1 .. c : e[i].enabled
  PROVE  Enabled(b) = e
<1> DEFINE on == {i \in 1 .. b.macroSteps : b.stepConfig[i].enabled}
           nth(k) == CHOOSE i \in on : Cardinality({j \in on : j < i}) = k - 1
<1>1. on = 1 .. c OBVIOUS
<1>2. Cardinality(on) = c
  <2> HIDE DEF on
  <2>1. Cardinality(1 .. c) = c BY Interval, Zenon
  <2> QED BY <1>1, <2>1
<1> HIDE DEF on
<1>3. ASSUME NEW i \in 1 .. c PROVE Cardinality({j \in on : j < i}) = i - 1
  <2>1. {j \in on : j < i} = 1 .. (i - 1) BY <1>1
  <2>2. i - 1 \in Nat BY <1>3
  <2>3. Cardinality(1 .. (i - 1)) = i - 1 BY <2>2, Interval, Zenon
  <2> QED BY <2>1, <2>3
<1>4. ASSUME NEW k \in 1 .. c PROVE nth(k) = k
  <2>1. \A i \in on : Cardinality({j \in on : j < i}) = k - 1 <=> i = k
    <3>1. ASSUME NEW i \in on PROVE Cardinality({j \in on : j < i}) = i - 1 BY <1>1, <1>3
    <3>2. ASSUME NEW i \in on PROVE i - 1 = k - 1 <=> i = k BY <1>1, <1>4
    <3> QED BY <3>1, <3>2
  <2>2. k \in on BY <1>1, <1>4
  <2> QED BY <2>1, <2>2
<1>5. Enabled(b) = [k \in 1 .. Cardinality(on) |-> b.stepConfig[nth(k)]] BY DEF Enabled, on
<1> HIDE DEF nth
<1>6. Enabled(b) = [k \in 1 .. c |-> e[k]] BY <1>2, <1>4, <1>5
<1> QED BY <1>6

(* The last of the steps up to k that is marked, or the first              *)
LastMarked(R, k) == CHOOSE j \in 1 .. k : /\ j = 1 \/ R[j]
                                         /\ \A i \in j + 1 .. k : ~R[i]

(* Tuned again where the frequency changes, a device is at every step      *)
(* tuned to that step's frequency.                                         *)
LEMMA TunedRight ==
  ASSUME NEW N \in Nat, NEW F, NEW R, \A i \in 2 .. N : ~R[i] => F[i] = F[i - 1],
         NEW k \in 1 .. N
  PROVE  LastMarked(R, k) \in 1 .. k /\ F[LastMarked(R, k)] = F[k]
<1> DEFINE T == LastMarked(R, k)
<1> DEFINE Last(j) == (j = 1 \/ R[j]) /\ \A i \in j + 1 .. k : ~R[i]
           back == {m \in Nat : k - m \in 1 .. k /\ (k - m = 1 \/ R[k - m])}
<1>1. \E j \in 1 .. k : Last(j)
  <2>1. k - 1 \in back
    <3>1. k - 1 \in Nat /\ k - (k - 1) = 1 OBVIOUS
    <3> QED BY <3>1
  <2>2. PICK m \in back : \A p \in back : m <= p BY <2>1, LeastNumber
  <2> DEFINE j == k - m
  <2>3. j \in 1 .. k /\ (j = 1 \/ R[j]) BY <2>2
  <2>4. ASSUME NEW i \in j + 1 .. k, R[i] PROVE FALSE
    <3>1. k - i \in Nat /\ k - (k - i) = i /\ i \in 1 .. k /\ k - i < m BY <2>2, <2>3, <2>4
    <3>2. k - i \in back BY <2>4, <3>1
    <3>3. m <= k - i BY <2>2, <3>2
    <3>4. m \in Nat BY <2>2
    <3> HIDE DEF back
    <3> QED BY <3>1, <3>3, <3>4
  <2> QED BY <2>3, <2>4
<1>2. T \in 1 .. k /\ Last(T)
  <2>1. T = CHOOSE j \in 1 .. k : Last(j) BY DEF LastMarked
  <2> HIDE DEF Last
  <2> QED BY <1>1, <2>1
<1> HIDE DEF T
<1> DEFINE astray == {m \in Nat : T + m <= k /\ F[T + m] # F[T]}
<1>3. astray = {}
  <2> SUFFICES ASSUME astray # {} PROVE FALSE OBVIOUS
  <2>1. PICK m \in astray : \A p \in astray : m <= p BY LeastNumber
  <2>2. m \in Nat /\ T + m <= k /\ F[T + m] # F[T] BY <2>1
  <2>3. m # 0
    <3>1. T + 0 = T BY <1>2
    <3> QED BY <2>2, <3>1
  <2>4. m - 1 \in Nat /\ m - 1 < m /\ T + (m - 1) <= k /\ T + (m - 1) = (T + m) - 1
    BY <1>2, <2>2, <2>3
  <2>5. F[(T + m) - 1] = F[T]
    <3>1. ~(m <= m - 1) BY <2>2
    <3>2. m - 1 \notin astray BY <2>1, <3>1
    <3> QED BY <2>4, <3>2
  <2>6. T + m \in T + 1 .. k /\ T + m \in 2 .. N BY <1>2, <2>2, <2>3
  <2>7. ~R[T + m] BY <1>2, <2>6
  <2>8. F[T + m] = F[(T + m) - 1] BY <2>6, <2>7
  <2> QED BY <2>2, <2>5, <2>8
<1>4. F[k] = F[T]
  <2>1. k - T \in Nat /\ T + (k - T) = k BY <1>2
  <2>2. k - T \notin astray BY <1>3
  <2> QED BY <2>1, <2>2
<1> QED BY <1>2, <1>4 DEF T

(* The place in the macro of the k-th step that is played                  *)
Place(k, n) == ((k - 1) % n) + 1

(* Place, in the first round and in the second                             *)
LEMMA Places ==
  ASSUME NEW n \in Nat \ {0}, NEW k \in 1 .. 2 * n
  PROVE  /\ Place(k, n) = IF k <= n THEN k ELSE k - n
         /\ Place(k, n) \in 1 .. n
<1>1. CASE k <= n
  <2>1. k - 1 \in Nat /\ k - 1 < n /\ n * 0 + (k - 1) = k - 1 BY <1>1
  <2>2. (n * 0 + (k - 1)) % n = k - 1 BY <2>1, DivisionIsUnique
  <2> QED BY <1>1, <2>1, <2>2 DEF Place
<1>2. CASE k > n
  <2>1. k - 1 - n \in Nat /\ k - 1 - n < n /\ n * 1 + (k - 1 - n) = k - 1 BY <1>2
  <2>2. (n * 1 + (k - 1 - n)) % n = k - 1 - n BY <2>1, DivisionIsUnique
  <2>3. Place(k, n) = (k - 1 - n) + 1 BY <2>1, <2>2 DEF Place
  <2> QED BY <1>2, <2>1, <2>3
<1> QED BY <1>1, <1>2

Parsed(steps) == \A i \in 1 .. Len(steps) : parse_macro_step(steps[i])

(* The device plays a macro of both blocks step by step.                   *)
LEMMA BothBlocks ==
  ASSUME NEW steps \in Seq(MacroStep), Len(steps) <= 2 * MACRO_STEPS_PER_BLOCK
  PROVE  Enabled(pack_macro_block(steps, 0)) \o Enabled(pack_macro_block(steps, 1))
           = [i \in 1 .. Len(steps) |-> pack_step(steps, i)]
<1> DEFINE n == Len(steps)
           B == MACRO_STEPS_PER_BLOCK
           c(k) == Count(n, k)
           e(k) == [i \in 1 .. c(k) |-> pack_step(steps, k * B + i)]
<1>1. n \in Nat /\ B \in Nat \ {0} /\ n <= 2 * B BY BlockAssumption
<1>0. \A i \in 1 .. n : pack_step(steps, i) \in Step BY StepPacked, SMT
<1>2. c(0) \in Nat /\ c(1) \in Nat /\ c(0) + c(1) = n /\ (c(1) # 0 => c(0) = B)
  <2>1. /\ Count(n, 0) = IF n < B THEN n ELSE B
        /\ Count(n, 1) = IF n > B THEN n - B ELSE 0
    BY DEF Count
  <2> HIDE DEF n, B
  <2> QED BY <1>1, <2>1
<1>3. ASSUME NEW k \in 0 .. 1
      PROVE  Enabled(pack_macro_block(steps, k)) = e(k)
  <2> DEFINE b == pack_macro_block(steps, k)
             q == e(k)
             m == c(k)
  <2>1. b = [stepConfig |-> q, macroSteps |-> m] BY BlockPacked, SMT
  <2>2. m \in Nat
    <3>1. k = 0 \/ k = 1 BY <1>3
    <3> QED BY <1>2, <3>1
  <2>3. \A i \in 1 .. m : q[i].enabled
    <3>1. ASSUME NEW i \in 1 .. m PROVE k * B + i \in 1 .. n
      <4>1. CASE k = 0
        <5>1. m = c(0) BY <4>1
        <5> HIDE DEF c, m
        <5> QED BY <1>1, <1>2, <3>1, <4>1, <5>1
      <4>2. CASE k = 1
        <5>1. m = c(1) BY <4>2
        <5> HIDE DEF c, m
        <5> QED BY <1>1, <1>2, <3>1, <4>2, <5>1
      <4> QED BY <1>3, <4>1, <4>2
    <3>2. ASSUME NEW j \in 1 .. n PROVE pack_step(steps, j).enabled
      <4>1. pack_step(steps, j).enabled = TRUE BY <3>2, StepPacked, SMT
      <4> QED BY <4>1
    <3>3. \A i \in 1 .. m : q[i] = pack_step(steps, k * B + i) OBVIOUS
    <3> HIDE DEF m, n, q
    <3> QED BY <3>1, <3>2, <3>3
  <2>4. q = [i \in 1 .. m |-> q[i]] OBVIOUS
  <2> HIDE DEF q, m, b
  <2>5. b.stepConfig = q /\ b.macroSteps = m BY <2>1
  <2>6. Enabled(b) = q BY <2>2, <2>3, <2>4, <2>5, AllEnabled
  <2> QED BY <2>6 DEF b, q
<1> DEFINE e0 == e(0)
           e1 == e(1)
           c0 == c(0)
           c1 == c(1)
<1>4. e0 = [i \in 1 .. c0 |-> pack_step(steps, i)]
  <2>1. \A i \in 1 .. c0 : 0 * B + i = i BY <1>1, <1>2
  <2> QED BY <2>1
<1>5. e1 = [i \in 1 .. c1 |-> pack_step(steps, B + i)]
  <2>1. \A i \in 1 .. c1 : 1 * B + i = B + i BY <1>1, <1>2
  <2> QED BY <2>1
<1>6. Enabled(pack_macro_block(steps, 0)) = e0 /\ Enabled(pack_macro_block(steps, 1)) = e1
  BY <1>3
<1>7. c0 \in Nat /\ c1 \in Nat /\ c0 + c1 = n /\ (c1 # 0 => c0 = B) BY <1>2
<1> HIDE DEF e0, e1, c0, c1, n
<1>8. Len(e0) = c0 /\ Len(e1) = c1 BY <1>4, <1>5, <1>7
<1>9. e0 \o e1 = [i \in 1 .. n |-> IF i <= c0 THEN e0[i] ELSE e1[i - c0]]
  <2>1. \A i \in 1 .. n : pack_step(steps, i) \in Step BY <1>0
  <2>2. \A i \in 1 .. c0 : i \in 1 .. n BY <1>1, <1>7
  <2>3. \A i \in 1 .. c1 : B + i \in 1 .. n BY <1>1, <1>7
  <2>4. e0 \in Seq(Step) BY <1>4, <1>7, <2>1, <2>2
  <2>5. e1 \in Seq(Step) BY <1>5, <1>7, <2>1, <2>3
  <2> DEFINE w == e0 \o e1
  <2>6. /\ w \in Seq(Step) /\ Len(w) = n
        /\ \A i \in 1 .. n : w[i] = IF i <= c0 THEN e0[i] ELSE e1[i - c0]
    <3>1. /\ w \in Seq(Step)
          /\ Len(w) = Len(e0) + Len(e1)
          /\ \A i \in 1 .. Len(e0) + Len(e1) : w[i] = IF i <= Len(e0) THEN e0[i] ELSE e1[i - Len(e0)]
      BY <2>4, <2>5, ConcatProperties, Zenon
    <3> HIDE DEF w
    <3> QED BY <1>7, <1>8, <3>1
  <2> HIDE DEF w
  <2>7. w = [i \in 1 .. n |-> w[i]] BY <2>6
  <2> QED BY <2>6, <2>7 DEF w
<1>10. \A i \in 1 .. n : (IF i <= c0 THEN e0[i] ELSE e1[i - c0]) = pack_step(steps, i)
  <2> SUFFICES ASSUME NEW i \in 1 .. n
               PROVE  (IF i <= c0 THEN e0[i] ELSE e1[i - c0]) = pack_step(steps, i)
    OBVIOUS
  <2>1. CASE i <= c0
    <3>1. i \in 1 .. c0 BY <1>7, <2>1
    <3> QED BY <1>4, <2>1, <3>1
  <2>2. CASE ~(i <= c0)
    <3>1. i - c0 \in 1 .. c1 /\ c0 = B BY <1>1, <1>7, <2>2
    <3>2. B + (i - c0) = i BY <1>1, <1>7, <3>1
    <3>3. e1[i - c0] = pack_step(steps, B + (i - c0)) BY <1>5, <3>1
    <3> QED BY <2>2, <3>2, <3>3
  <2> QED BY <2>1, <2>2
<1>11. e0 \o e1 = [i \in 1 .. n |-> pack_step(steps, i)] BY <1>9, <1>10
<1> QED BY <1>6, <1>11 DEF n

PlaysAsGiven(blocks, steps) ==
  LET plays == Played(blocks[0], blocks[1])
      n     == Len(steps)
  IN /\ Len(plays) = 2 * n
     /\ \A k \in 1 .. 2 * n :
          LET s == steps[((k - 1) % n) + 1]
          IN /\ s.frequency - plays[k].frequency \in {0, 1}
             /\ s.duration < 2^24 => plays[k].step_ms = s.duration
             /\ plays[k].on = s.rf

(* A macro whose steps were checked is played as it was given.             *)
LEMMA MacroPlays ==
  ASSUME NEW steps \in Seq(MacroStep), Len(steps) \in 1 .. 2 * MACRO_STEPS_PER_BLOCK,
         Parsed(steps),
         NEW blocks, blocks[0] = pack_macro_block(steps, 0), blocks[1] = pack_macro_block(steps, 1)
  PROVE  PlaysAsGiven(blocks, steps)
<1> DEFINE n == Len(steps)
           all == [i \in 1 .. n |-> pack_step(steps, i)]
           at2(k) == Place(k, n)
           F == [k \in 1 .. 2 * n |-> frequency_to_uint32(steps[at2(k)].frequency)]
           R == [k \in 1 .. 2 * n |-> Recalc(steps, at2(k))]
           tuned(k) == CHOOSE j \in 1 .. k : /\ j = 1 \/ all[at2(j)].recalc
                                             /\ \A i \in j + 1 .. k : ~all[at2(i)].recalc
           plays == Played(blocks[0], blocks[1])
<1>1. n \in Nat \ {0} /\ n <= 2 * MACRO_STEPS_PER_BLOCK BY BlockAssumption
<1>2. Enabled(blocks[0]) \o Enabled(blocks[1]) = all BY <1>1, BothBlocks, Zenon
<1>3. Len(all) = n BY <1>1
<1>4. ASSUME NEW i \in 1 .. n
      PROVE  /\ all[i].frequency = frequency_to_uint32(steps[i].frequency) % 16777216
             /\ all[i].step_ms = steps[i].duration % 16777216
             /\ all[i].rf = (IF steps[i].rf THEN 1 ELSE 2)
             /\ all[i].recalc = Recalc(steps, i)
  <2>1. all[i] = pack_step(steps, i) BY <1>4, Zenon
  <2> HIDE DEF all
  <2> QED BY <2>1, StepPacked, SMT
<1>5. plays = [k \in 1 .. 2 * n |->
                 [frequency |-> all[at2(tuned(k))].frequency, step_ms |-> all[at2(k)].step_ms,
                  on |-> all[at2(k)].rf = 1]]
  <2>1. Played(blocks[0], blocks[1]) =
          LET q == Enabled(blocks[0]) \o Enabled(blocks[1])
              step(k) == q[((k - 1) % Len(q)) + 1]
              tune(k) == CHOOSE j \in 1 .. k :
                            /\ j = 1 \/ step(j).recalc
                            /\ \A i \in j + 1 .. k : ~step(i).recalc
          IN [k \in 1 .. 2 * Len(q) |->
                [frequency |-> step(tune(k)).frequency, step_ms |-> step(k).step_ms,
                 on |-> step(k).rf = 1]]
    BY Zenon DEF Played, STEP_FLAG_RF_ON
  <2> HIDE DEF all
  <2>2. Played(blocks[0], blocks[1]) =
          LET step(k) == all[((k - 1) % n) + 1]
              tune(k) == CHOOSE j \in 1 .. k :
                            /\ j = 1 \/ step(j).recalc
                            /\ \A i \in j + 1 .. k : ~step(i).recalc
          IN [k \in 1 .. 2 * n |->
                [frequency |-> step(tune(k)).frequency, step_ms |-> step(k).step_ms,
                 on |-> step(k).rf = 1]]
    BY <1>2, <1>3, <2>1, Zenon
  <2> QED BY <2>2, Zenon DEF Place
<1>6. \A k \in 1 .. 2 * n : at2(k) \in 1 .. n /\ at2(k) = IF k <= n THEN k ELSE k - n
  BY <1>1, Places, Zenon
<1>7. \A i \in 1 .. n : steps[i] \in MacroStep BY ElementOfSeq, SMT
<1>8. \A i \in 1 .. n : steps[i].frequency \in MinFreq .. MaxFreq BY Zenon DEF Parsed, parse_macro_step, Valid
<1>p. \A i \in 1 .. n : steps[i].duration >= 30 BY Zenon DEF Parsed, parse_macro_step
<1> HIDE DEF n, all, at2, tuned, plays
<1>f. \A k \in 1 .. 2 * n : /\ F[k] = frequency_to_uint32(steps[at2(k)].frequency)
                             /\ R[k] = Recalc(steps, at2(k))
  BY Zenon
<1>r. \A i \in 1 .. n : all[i].recalc = Recalc(steps, i) BY <1>4, SMT
<1> HIDE DEF F, R
<1>9. ASSUME NEW k \in 1 .. 2 * n
      PROVE  tuned(k) \in 1 .. k /\ F[tuned(k)] = F[k]
  <2>1. \A j \in 1 .. 2 * n : all[at2(j)].recalc = R[j] BY <1>6, <1>f, <1>r, Zenon
  <2>2. ASSUME NEW i \in 2 .. 2 * n, ~R[i] PROVE F[i] = F[i - 1]
    <3>1. i \in 1 .. 2 * n /\ i - 1 \in 1 .. 2 * n BY <1>1, <2>2
    <3>2. ~Recalc(steps, at2(i)) BY <1>f, <2>2, <3>1, Zenon
    <3>3. /\ at2(i) # 1
          /\ frequency_to_uint32(steps[at2(i)].frequency)
               = frequency_to_uint32(steps[at2(i) - 1].frequency)
      BY <3>2, Zenon DEF Recalc
    <3>4. at2(i) - 1 = at2(i - 1)
      <4>1. at2(i) = (IF i <= n THEN i ELSE i - n) /\ at2(i - 1) = (IF i - 1 <= n THEN i - 1 ELSE (i - 1) - n)
        BY <1>6, <3>1
      <4> QED BY <1>1, <2>2, <3>3, <4>1
    <3>5. F[i] = frequency_to_uint32(steps[at2(i)].frequency) /\ F[i - 1] = frequency_to_uint32(steps[at2(i - 1)].frequency)
      BY <1>f, <3>1, Zenon
    <3> QED BY <3>3, <3>4, <3>5, Zenon
  <2>3. tuned(k) = CHOOSE j \in 1 .. k : /\ j = 1 \/ R[j]
                                         /\ \A i \in j + 1 .. k : ~R[i]
    <3>1. \A j \in 1 .. k : j \in 1 .. 2 * n /\ \A i \in j + 1 .. k : i \in 1 .. 2 * n BY <1>1
    <3>2. \A j \in 1 .. k : /\ all[at2(j)].recalc = R[j]
                            /\ \A i \in j + 1 .. k : all[at2(i)].recalc = R[i]
      BY <2>1, <3>1, Zenon
    <3> DEFINE Told(j)  == /\ j = 1 \/ all[at2(j)].recalc
                           /\ \A i \in j + 1 .. k : ~all[at2(i)].recalc
               Marked(j) == /\ j = 1 \/ R[j]
                            /\ \A i \in j + 1 .. k : ~R[i]
    <3>3. \A j \in 1 .. k : Told(j) <=> Marked(j) BY <3>2, Zenon
    <3>4. tuned(k) = CHOOSE j \in 1 .. k : Told(j) BY Zenon DEF tuned
    <3> HIDE DEF Told, Marked
    <3>5. (CHOOSE j \in 1 .. k : Told(j)) = (CHOOSE j \in 1 .. k : Marked(j)) BY <3>3, SMT
    <3> QED BY <3>4, <3>5, Zenon DEF Marked
  <2>4. 2 * n \in Nat BY <1>1
  <2>5. \A i \in 2 .. 2 * n : ~R[i] => F[i] = F[i - 1] BY <2>2, Zenon
  <2> DEFINE N == 2 * n
  <2>6. /\ N \in Nat /\ k \in 1 .. N
        /\ \A i \in 2 .. N : ~R[i] => F[i] = F[i - 1]
    BY <1>9, <2>4, <2>5, Zenon
  <2> HIDE DEF N
  <2>7. LastMarked(R, k) \in 1 .. k /\ F[LastMarked(R, k)] = F[k]
    BY ONLY <2>6, TunedRight, Zenon
  <2> QED BY <2>3, <2>7, Zenon DEF LastMarked
<1>10. ASSUME NEW k \in 1 .. 2 * n
       PROVE  LET s == steps[((k - 1) % n) + 1]
              IN /\ s.frequency - plays[k].frequency \in {0, 1}
                 /\ s.duration < 2^24 => plays[k].step_ms = s.duration
                 /\ plays[k].on = s.rf
  <2> DEFINE s == steps[at2(k)]
  <2>1. plays[k].frequency = all[at2(tuned(k))].frequency /\ plays[k].step_ms = all[at2(k)].step_ms
        /\ plays[k].on = (all[at2(k)].rf = 1)
    BY <1>5, SMT
  <2>2. tuned(k) \in 1 .. 2 * n
    <3>1. tuned(k) \in 1 .. k BY <1>9, Zenon
    <3> QED BY <1>1, <3>1, SMT
  <2>3. plays[k].frequency = F[k] % 16777216
    <3>0. at2(tuned(k)) \in 1 .. n BY <1>6, <2>2, Zenon
    <3>a. F[tuned(k)] = frequency_to_uint32(steps[at2(tuned(k))].frequency) BY <1>f, <2>2, Zenon
    <3>1. plays[k].frequency = F[tuned(k)] % 16777216 BY <1>4, <2>1, <3>0, <3>a, SMT
    <3>2. F[tuned(k)] = F[k] BY <1>9, Zenon
    <3> QED BY <3>1, <3>2, SMT
  <2>4. F[k] = frequency_to_uint32(s.frequency) BY <1>f, Zenon
  <2>5. s.frequency \in MinFreq .. MaxFreq /\ s \in MacroStep BY <1>6, <1>7, <1>8, Zenon
  <2>6. s.frequency \in Nat /\ s.frequency <= 440000 BY <2>5, Frequencies, SMT
  <2>7. F[k] \in Nat /\ s.frequency - F[k] \in {0, 1} 
    <3>1. \A m \in Nat : Hundredfold(m) \in Nat /\ m - Hundredfold(m) \in {0, 1}
      <4>1. ASSUME NEW m \in Nat PROVE Hundredfold(m) \in Nat /\ m - Hundredfold(m) \in {0, 1}
        <5>1. m \in Int OBVIOUS
        <5> QED BY <4>1, <5>1, HundredfoldIs, Zenon
      <4> QED BY <4>1, Zenon
    <3>2. s.frequency \in Nat BY <2>6, SMT
    <3> QED BY <2>4, <3>1, <3>2, Zenon DEF frequency_to_uint32
  <2>8. F[k] % 16777216 = F[k] BY <2>6, <2>7, SMT
  <2>9. plays[k].step_ms = s.duration % 16777216 /\ plays[k].on = ((IF s.rf THEN 1 ELSE 2) = 1)
    BY <1>4, <1>6, <2>1, SMT
  <2>10. s.duration \in Int /\ s.rf \in BOOLEAN BY <2>5, SMT DEF MacroStep
  <2>a. s.duration >= 30 BY <1>6, <1>p, Zenon
  <2>11. steps[((k - 1) % n) + 1] = s BY Zenon DEF at2, Place, n
  <2> HIDE DEF s
  <2>12. s.frequency - plays[k].frequency \in {0, 1} BY <2>3, <2>7, <2>8, SMT
  <2>13. s.duration < 2^24 => plays[k].step_ms = s.duration
    BY <2>9, <2>10, <2>a, SMT
  <2>14. plays[k].on = s.rf BY <2>9, <2>10, SMT
  <2> QED BY <2>11, <2>12, <2>13, <2>14, Zenon
<1>11. Len(plays) = 2 * n BY <1>1, <1>5, SMT
<1> QED BY <1>10, <1>11, Zenon DEF PlaysAsGiven, n, plays

-----------------------------------------------------------------------------
(***************************************************************************)
(* What the operations have done that are over, one after the other: the   *)
(* invariant behind DoneAsAsked.                                           *)
(***************************************************************************)
(* The operation main() is at                                              *)
Doing ==
  CASE at = "info.read" -> "info"
    [] at \in {"version", "block0", "block1", "enable"} -> "programmacro"
    [] at = "rfstate.read" -> "rfstate"
    [] OTHER -> at
(* The operations that are over                                            *)
Past == IF at = "start" THEN {} ELSE IF at = "end" THEN args.ops
        ELSE {op \in args.ops : Index(op) < Index(Doing)}
Good == ~failed /\ status \in {"running", "done"}

SweepsAsAsked(flash) ==
  /\ flash.mode = "sweep"
  /\ args.sweep.start - flash.sweep[1] \in {0, 1}
  /\ args.sweep.stop - flash.sweep[2] \in {0, 1}
  /\ args.sweep.step - flash.sweep[3] \in {0, 1}
  /\ args.sweep.ms < 2^16 => flash.sweep[4] = args.sweep.ms
OutputsAsAsked(ram) == Outputs(ram.reg, Default.ref, args.frequency)

(* The generator h is as the operations P leave it, one after the other.   *)
RamAfter(P, h) == "write" \in P => OutputsAsAsked(h.ram)
FlashAfter(P, h) ==
  /\ "programmacro" \in P => h.flash.mode = "macro" /\ PlaysAsGiven(h.blocks, args.steps)
  /\ "programmacro" \notin P /\ "programsweep" \in P => SweepsAsAsked(h.flash)
  /\ "programmacro" \notin P /\ "programsweep" \notin P /\ "erase" \in P => h.flash.mode = "erased"
  /\ "programmacro" \notin P /\ "programsweep" \notin P /\ "erase" \notin P /\ "flashwrite" \in P =>
       h.flash.mode = "fixed" /\ OutputsAsAsked(h.flash.ram)
RfAfter(P, h) ==
  "rfstate" \in P => (args.rfstate = "on" => h.rf) /\ (args.rfstate = "off" => ~h.rf)
After(P, h) == RamAfter(P, h) /\ FlashAfter(P, h) /\ RfAfter(P, h)

(* The blocks of the macro that were sent                                  *)
Sent(h) ==
  /\ at \in {"block1", "enable"} => h.blocks[0] = pack_macro_block(args.steps, 0)
  /\ at = "enable" => h.blocks[1] = pack_macro_block(args.steps, 1)

Asked ==
  /\ open => serial \in plugged
  /\ at = "start" => ~open
  /\ (at = "end") <=> (status # "running")
  /\ at \notin {"start", "end"} => Doing \in args.ops
  /\ at = "rfstate.read" => args.rfstate = "read"
  /\ Good => /\ (Past # {} \/ at \in {"block1", "enable"}) /\ at # "end" => serial \in plugged
             /\ at # "start" => Sent(Device) /\ After(Past, Device)

-----------------------------------------------------------------------------
(* Operations are told apart by their place in the order.                  *)
LEMMA IndexTells ==
  ASSUME NEW o \in Operations, NEW p \in Operations
  PROVE  /\ Index(o) \in 1 .. 8
         /\ Index(o) = Index(p) => o = p
BY Indices, OperationsAre

(* First is the least of the operations that are left.                     *)
LEMMA FirstIsLeast ==
  ASSUME NEW S \in SUBSET Operations, S # {}
  PROVE  /\ First(S) \in S
         /\ \A o \in S : Index(First(S)) <= Index(o)
<1> DEFINE Least(op) == op \in S /\ \A o \in S : Index(op) <= Index(o)
           places == {i \in Nat : \E o \in S : Index(o) = i}
<1>1. places # {} /\ places \subseteq Nat BY IndexTells
<1>2. PICK i \in places : \A j \in places : i <= j BY <1>1, LeastNumber
<1>3. PICK o \in S : Index(o) = i BY <1>2
<1>4. Least(o)
  <2>1. \A p \in S : Index(p) \in places BY IndexTells
  <2> QED BY <1>2, <1>3, <2>1
<1>5. Least(First(S))
  <2>1. First(S) = CHOOSE op \in S : \A p \in S : Index(op) <= Index(p) BY DEF First
  <2> QED BY <1>4, <2>1
<1> QED BY <1>5

(* When an operation is over, it is one of the past, and the next is its   *)
(* successor among those asked for.                                        *)
LEMMA PastGrows ==
  ASSUME Inv, Control, Asked, at \notin {"start", "end"}, Done(Doing), args' = args
  PROVE  /\ Past' = Past \cup {Doing}
         /\ at' \notin Within \cup {"start"}
         /\ at' = "end" <=> status' # "running"
         /\ at' # "end" => Doing' = at' /\ at' \in args.ops
         /\ Doing = "rfstate" => at' = "end"
<1> DEFINE op == Doing
           S == {o \in args.ops : Index(o) > Index(op)}
<1>1. op \in args.ops /\ args.ops \subseteq Operations BY DEF Asked, Inv
<1>2. at' = (IF S = {} THEN "end" ELSE First(S)) /\ status' = (IF S = {} THEN "done" ELSE "running")
  BY DEF Done, GoOn
<1>3. Past = {o \in args.ops : Index(o) < Index(op)} BY DEF Past
<1> HIDE DEF op
<1>4. \A o \in args.ops : Index(o) \in 1 .. 8 /\ Index(op) \in 1 .. 8 /\ (Index(o) = Index(op) => o = op)
  BY <1>1, IndexTells
<1>5. CASE S = {}
  <2>1. at' = "end" /\ status' = "done" BY <1>2, <1>5
  <2>2. Past' = args.ops BY <2>1 DEF Past
  <2>3. \A o \in args.ops : o = op \/ Index(o) < Index(op) BY <1>4, <1>5
  <2>4. Past' = Past \cup {op} BY <1>1, <1>3, <2>2, <2>3
  <2> QED BY <2>1, <2>4 DEF Within, op
<1>6. CASE S # {}
  <2> DEFINE n == First(S)
  <2>1. at' = n /\ status' = "running" BY <1>2, <1>6
  <2>2. S \subseteq Operations BY <1>1
  <2>3. n \in S /\ \A o \in S : Index(n) <= Index(o) BY <1>6, <2>2, FirstIsLeast, Zenon
  <2> HIDE DEF n
  <2>4. n \in args.ops /\ n \in Operations /\ Index(n) > Index(op) BY <1>1, <2>3
  <2>5. at' \notin Within \cup {"start", "end"} BY <2>1, <2>4, OperationsAre DEF Within
  <2>6. Doing' = at' BY <2>5 DEF Doing, Within
  <2>7. Past' = {o \in args.ops : Index(o) < Index(n)} BY <2>1, <2>5, <2>6 DEF Past
  <2>8. \A o \in args.ops : Index(o) < Index(n) <=> (o = op \/ Index(o) < Index(op))
    <3> SUFFICES ASSUME NEW o \in args.ops
                 PROVE  Index(o) < Index(n) <=> (o = op \/ Index(o) < Index(op))
      OBVIOUS
    <3>1. Index(o) \in 1 .. 8 /\ Index(op) \in 1 .. 8 /\ Index(n) \in 1 .. 8 BY <1>4, <2>4
    <3>2. Index(o) > Index(op) => Index(n) <= Index(o) BY <2>3
    <3> QED BY <1>4, <2>4, <3>1, <3>2
  <2>9. Past' = Past \cup {op} BY <1>1, <1>3, <2>7, <2>8
  <2>10. op # "rfstate"
    <3>1. Index(n) \in 1 .. 8 BY <1>4, <2>4
    <3> QED BY <2>4, <3>1, Indices
  <2> QED BY <2>1, <2>4, <2>5, <2>6, <2>9, <2>10 DEF op
<1> QED BY <1>5, <1>6

(* After, of the next state                                                *)
LEMMA AfterNext ==
  ASSUME args' = args, serial' = serial, NEW P, Past' = P, After(P, devs'[serial])
  PROVE  After(Past, Device)'
<1> DEFINE h == devs'[serial]
<1>1. Device' = h BY DEF Device
<1> HIDE DEF h
<1>2. RamAfter(Past, Device)' BY <1>1 DEF After, RamAfter, OutputsAsAsked, h
<1>3. RfAfter(Past, Device)' BY <1>1 DEF After, RfAfter, h
<1>4. FlashAfter(Past, Device)'
  BY <1>1 DEF After, FlashAfter, SweepsAsAsked, OutputsAsAsked, h
<1> QED BY <1>2, <1>3, <1>4 DEF After

(* An operation that is over, having done what was asked or failed.        *)
LEMMA Finishes ==
  ASSUME Inv, Control, Asked, at \notin {"start", "end"}, Done(Doing),
         args' = args, serial' = serial, plugged' = plugged,
         open' => serial \in plugged,
         ~failed' => /\ serial \in plugged \/ Doing = "rfstate"
                     /\ After(Past \cup {Doing}, devs'[serial])
  PROVE  Asked'
<1>1. /\ Past' = Past \cup {Doing}
      /\ at' \notin Within \cup {"start"}
      /\ at' = "end" <=> status' # "running"
      /\ at' # "end" => Doing' = at' /\ at' \in args.ops
      /\ Doing = "rfstate" => at' = "end"
  BY PastGrows
<1>2. (open => serial \in plugged)' BY DEF Asked
<1>3. (at = "start" => ~open)' BY <1>1
<1>4. ((at = "end") <=> (status # "running"))' BY <1>1
<1>5. (at \notin {"start", "end"} => Doing \in args.ops)' BY <1>1
<1>6. (at = "rfstate.read" => args.rfstate = "read")' BY <1>1 DEF Within
<1>7. ~failed' => /\ (Past' # {} \/ at' \in {"block1", "enable"}) /\ at' # "end" => serial' \in plugged'
                  /\ Sent(Device)' /\ After(Past, Device)'
  <2> SUFFICES ASSUME ~failed'
               PROVE  /\ (Past' # {} \/ at' \in {"block1", "enable"}) /\ at' # "end" => serial' \in plugged'
                      /\ Sent(Device)' /\ After(Past, Device)'
    OBVIOUS
  <2>1. Sent(Device)' BY <1>1 DEF Sent, Within
  <2>2. After(Past, Device)' BY <1>1, AfterNext
  <2> QED BY <1>1, <2>1, <2>2
<1>8. Good' => ~failed' BY DEF Good
<1> HIDE DEF Doing, Past
<1> QED BY <1>2, <1>3, <1>4, <1>5, <1>6, <1>7, <1>8 DEF Asked

(* When the program stops nothing is promised                              *)
LEMMA StopAsks ==
  ASSUME Asked, NEW how \in {"exit", "exception"}, Stop(how)
  PROVE  Asked'
<1>1. at' = "end" /\ status' \in {"exit", "exception"} /\ open' = FALSE BY DEF Stop
<1>2. ~Good' BY <1>1 DEF Good
<1> QED BY <1>1, <1>2 DEF Asked

(* A step within an operation that leaves the generator as it is.          *)
LEMMA StillAsked ==
  ASSUME Asked, at \notin {"start", "end"}, at' \notin {"start", "end", "block1", "enable"},
         args' = args, serial' = serial, plugged' = plugged, devs' = devs,
         failed' = failed, status' = status, Doing' = Doing,
         open' => serial \in plugged, at' = "rfstate.read" => args.rfstate = "read"
  PROVE  Asked'
<1>1. Past' = Past BY DEF Past
<1>2. Good' => /\ Past' # {} => serial' \in plugged'
               /\ Sent(Device)' /\ After(Past, Device)'
  <2> SUFFICES ASSUME Good' PROVE /\ Past' # {} => serial' \in plugged'
                                  /\ Sent(Device)' /\ After(Past, Device)'
    OBVIOUS
  <2>1. Good BY DEF Good
  <2>2. After(Past, Device) /\ (Past # {} => serial \in plugged) BY <2>1 DEF Asked
  <2>3. Sent(Device)' BY DEF Sent
  <2>4. After(Past, Device)'
    <3>1. After(Past, devs'[serial]) BY <2>2 DEF Device
    <3> QED BY <1>1, <3>1, AfterNext
  <2> QED BY <1>1, <2>2, <2>3, <2>4
<1> HIDE DEF Past, Doing
<1> QED BY <1>2 DEF Asked

(* while it waits for a reply nothing changes                              *)
LEMMA AskAsks ==
  ASSUME Asked, at \notin {"start", "end"}, NEW reading, Ask(reading),
         \/ reading = "info.read" /\ at = "info"
         \/ reading = "version" /\ at = "programmacro"
         \/ reading = "rfstate.read" /\ at = "rfstate" /\ args.rfstate = "read"
  PROVE  Asked'
<1>1. /\ at' = reading /\ open' = TRUE /\ serial \in plugged
      /\ UNCHANGED <<plugged, devs, args, serial, status, failed, plugs>>
  BY DEF Ask
<1>2. Doing' = Doing BY <1>1 DEF Doing
<1> QED BY <1>1, <1>2, StillAsked

(* and an operation that fails is reported.                                *)
LEMMA FailsAsks ==
  ASSUME Inv, Control, Asked, at \notin {"start", "end"}, Fails(Doing)
  PROVE  Asked'
BY Finishes DEF Fails

(* What was written when nothing failed                                    *)
LEMMA WrittenWell ==
  ASSUME Inv, NEW d, Written(d), ~failed'
  PROVE  serial \in plugged /\ devs'[serial] = d /\ ~failed
<1>1. serial \in plugged BY DEF Written
<1>2. serial \in Serials /\ devs = [e \in Serials |-> devs[e]] BY <1>1 DEF Inv
<1> QED BY <1>1, <1>2 DEF Written

(* What an operation does, on top of what those before it did: it is well  *)
(* placed, as those that write the flash come in the order of Order.       *)
LEMMA WriteAfter ==
  ASSUME Asked, Good, at \notin {"start", "end"}, Holding(Device), NEW r, OutputsAsAsked(r)
  PROVE  After(Past \cup {"write"}, [Device EXCEPT !.ram = r])
<1> DEFINE g == [Device EXCEPT !.ram = r]
<1>1. g.ram = r /\ g.flash = Device.flash /\ g.blocks = Device.blocks /\ g.rf = Device.rf
  BY DEF Holding
<1> HIDE DEF g
<1>2. After(Past, Device) BY DEF Asked
<1>3. RamAfter(Past \cup {"write"}, g) BY <1>1 DEF RamAfter
<1>4. FlashAfter(Past \cup {"write"}, g) BY <1>1, <1>2 DEF After, FlashAfter
<1>5. RfAfter(Past \cup {"write"}, g) BY <1>1, <1>2 DEF After, RfAfter
<1> QED BY <1>3, <1>4, <1>5 DEF After, g

LEMMA RfAfterwards ==
  ASSUME Asked, Good, at \notin {"start", "end"}, Holding(Device), NEW on \in BOOLEAN,
         args.rfstate = "on" => on, args.rfstate = "off" => ~on
  PROVE  After(Past \cup {"rfstate"}, [Device EXCEPT !.rf = on])
<1> DEFINE g == [Device EXCEPT !.rf = on]
<1>1. g.rf = on /\ g.ram = Device.ram /\ g.flash = Device.flash /\ g.blocks = Device.blocks
  BY DEF Holding
<1> HIDE DEF g
<1>2. After(Past, Device) BY DEF Asked
<1>3. RamAfter(Past \cup {"rfstate"}, g) BY <1>1, <1>2 DEF After, RamAfter
<1>4. FlashAfter(Past \cup {"rfstate"}, g) BY <1>1, <1>2 DEF After, FlashAfter
<1>5. RfAfter(Past \cup {"rfstate"}, g) BY <1>1, Zenon DEF RfAfter
<1> QED BY <1>3, <1>4, <1>5 DEF After, g

LEMMA FlashAfterwards ==
  ASSUME Asked, Good, at \notin {"start", "end"}, Holding(Device), NEW p,
         NEW op \in {"flashwrite", "erase", "programsweep", "programmacro"}, op = Doing,
         op = "flashwrite" => p.mode = "fixed" /\ OutputsAsAsked(p.ram),
         op = "erase" => p.mode = "erased",
         op = "programsweep" => SweepsAsAsked(p),
         op = "programmacro" => p.mode = "macro" /\ PlaysAsGiven(Device.blocks, args.steps)
  PROVE  After(Past \cup {op}, [Device EXCEPT !.flash = p])
<1> DEFINE g == [Device EXCEPT !.flash = p]
<1>1. g.flash = p /\ g.rf = Device.rf /\ g.ram = Device.ram /\ g.blocks = Device.blocks
  BY DEF Holding
<1> HIDE DEF g
<1>2. After(Past, Device) BY DEF Asked
<1>3. RamAfter(Past \cup {op}, g) BY <1>1, <1>2 DEF After, RamAfter
<1>5. RfAfter(Past \cup {op}, g) BY <1>1, <1>2 DEF After, RfAfter
<1>6. \A o \in Past : Index(o) < Index(op) BY DEF Past
<1>7. /\ op = "flashwrite" => {"erase", "programsweep", "programmacro"} \cap Past = {}
      /\ op = "erase" => {"programsweep", "programmacro"} \cap Past = {}
      /\ op = "programsweep" => "programmacro" \notin Past
  BY <1>6, Indices
<1>4. FlashAfter(Past \cup {op}, g)
  BY <1>1, <1>7 DEF FlashAfter
<1> QED BY <1>3, <1>4, <1>5 DEF After, g

LEMMA SameAfter ==
  ASSUME Asked, Good, at \notin {"start", "end"},
         NEW op \in {"info", "devindetify", "rfstate"},
         op = "rfstate" => args.rfstate \notin {"on", "off"}
  PROVE  After(Past \cup {op}, Device)
<1>1. After(Past, Device) BY DEF Asked
<1>2. RamAfter(Past \cup {op}, Device) BY <1>1 DEF After, RamAfter
<1>3. FlashAfter(Past \cup {op}, Device) BY <1>1 DEF After, FlashAfter
<1>4. RfAfter(Past \cup {op}, Device) BY <1>1 DEF After, RfAfter
<1> QED BY <1>2, <1>3, <1>4 DEF After

-----------------------------------------------------------------------------
(***************************************************************************)
(* Every step keeps it.                                                    *)
(***************************************************************************)
(* The generator that is written to                                        *)
LEMMA DeviceIs ==
  ASSUME Inv, serial \in plugged
  PROVE  Holding(Device)
BY DEF Inv, Device

(* An operation that writes d, which is what was asked, and is over.       *)
LEMMA WritingAsks ==
  ASSUME Inv, Control, Asked, at \notin {"start", "end"}, NEW d, Written(d), Done(Doing), Closed,
         Good /\ serial \in plugged => After(Past \cup {Doing}, d)
  PROVE  Asked'
<1>1. args' = args /\ serial' = serial /\ plugged' = plugged /\ open' = open BY DEF Closed
<1>2. ~failed' => /\ serial \in plugged
                  /\ After(Past \cup {Doing}, devs'[serial])
  <2> SUFFICES ASSUME ~failed' PROVE serial \in plugged /\ After(Past \cup {Doing}, devs'[serial])
    OBVIOUS
  <2>1. serial \in plugged /\ devs'[serial] = d /\ ~failed BY WrittenWell
  <2>2. Good BY <2>1 DEF Good, Asked
  <2> QED BY <2>1, <2>2
<1> QED BY <1>1, <1>2, Finishes DEF Asked

(* A reply that came                                                       *)
LEMMA ReadAsks ==
  ASSUME Inv, Control, Asked, at \in {"info.read", "rfstate.read"}, open, open' = FALSE, Done(Doing),
         UNCHANGED <<plugged, devs, args, serial, failed, plugs>>
  PROVE  Asked'
<1>1. serial \in plugged BY DEF Asked
<1>2. ~failed' => After(Past \cup {Doing}, devs'[serial])
  <2> SUFFICES ASSUME ~failed' PROVE After(Past \cup {Doing}, devs'[serial])
    OBVIOUS
  <2>1. Good BY DEF Good, Asked
  <2>2. Doing \in {"info", "rfstate"} /\ (Doing = "rfstate" => args.rfstate = "read")
    BY DEF Doing, Asked
  <2>3. After(Past \cup {Doing}, Device) BY <2>1, <2>2, SameAfter
  <2> QED BY <2>3 DEF Device
<1> QED BY <1>1, <1>2, Finishes

(* One lemma per operation of main()                                       *)
LEMMA StartAsks ==
  ASSUME Inv, Control, Asked, Start
  PROVE  Asked'
<1>1. CASE Stop("exit") BY <1>1, StopAsks
<1>2. CASE GoOn(args.ops) /\ UNCHANGED <<plugged, devs, args, open, failed, plugs>>
  <2>1. args.ops \subseteq Operations /\ args.ops # {} BY InvocationsAssumption DEF Control
  <2> DEFINE n == First(args.ops)
  <2>2. n \in args.ops /\ \A o \in args.ops : Index(n) <= Index(o) BY <2>1, FirstIsLeast, Zenon
  <2>3. at' = n /\ status' = "running" BY <1>2, <2>1 DEF GoOn
  <2> HIDE DEF n
  <2>4. at' \notin Within \cup {"start", "end"} BY <2>1, <2>2, <2>3, OperationsAre DEF Within
  <2>5. Doing' = at' BY <2>4 DEF Doing, Within
  <2>6. Past' = {}
    <3>1. Past' = {o \in args.ops : Index(o) < Index(n)} BY <1>2, <2>3, <2>4, <2>5 DEF Past
    <3>2. \A o \in args.ops : Index(o) \in 1 .. 8 BY <2>1, IndexTells
    <3> QED BY <2>2, <3>1, <3>2
  <2>7. ~open' BY <1>2 DEF Asked, Start
  <2>8. After(Past, Device)' BY <2>6 DEF After, RamAfter, FlashAfter, RfAfter
  <2>9. Sent(Device)' BY <2>4 DEF Sent, Within
  <2> HIDE DEF Past, Doing
  <2> QED BY <1>2, <2>2, <2>3, <2>4, <2>5, <2>6, <2>7, <2>8, <2>9 DEF Asked, Within
<1> QED BY <1>1, <1>2 DEF Start

LEMMA WriteAsks ==
  ASSUME Inv, Control, Asked, Write
  PROVE  Asked'
<1>1. CASE Stop("exit") BY <1>1, StopAsks
<1>2. CASE /\ Valid(args.frequency) /\ Written([Device EXCEPT !.ram = Payload(args.frequency)])
           /\ Done("write") /\ Closed
  <2>1. at = "write" /\ Doing = "write" BY DEF Write, Doing
  <2> DEFINE r == Payload(args.frequency)
             d == [Device EXCEPT !.ram = r]
  <2>2. OutputsAsAsked(r) BY <1>2, PayloadOfDefault, Zenon DEF Valid, OutputsAsAsked
  <2>3. Good /\ serial \in plugged => After(Past \cup {Doing}, d)
    <3> HIDE DEF r
    <3> QED BY <2>1, <2>2, DeviceIs, WriteAfter
  <2>4. Written(d) BY <1>2
  <2> HIDE DEF d
  <2> QED BY <1>2, <2>1, <2>3, <2>4, WritingAsks
<1> QED BY <1>1, <1>2 DEF Write

(* An operation that writes p to the flash                                 *)
LEMMA FlashingAsks ==
  ASSUME Inv, Control, Asked, NEW p, Written([Device EXCEPT !.flash = p]), Done(Doing), Closed,
         Doing \in {"flashwrite", "erase", "programsweep", "programmacro"},
         Doing = "flashwrite" => p.mode = "fixed" /\ OutputsAsAsked(p.ram),
         Doing = "erase" => p.mode = "erased",
         Doing = "programsweep" => SweepsAsAsked(p),
         Doing = "programmacro" /\ Good => p.mode = "macro" /\ PlaysAsGiven(Device.blocks, args.steps)
  PROVE  Asked'
<1> DEFINE d == [Device EXCEPT !.flash = p]
<1>1. at \notin {"start", "end"} BY DEF Doing
<1>2. Good /\ serial \in plugged => After(Past \cup {Doing}, d)
  BY <1>1, DeviceIs, FlashAfterwards
<1>3. Written(d) OBVIOUS
<1> HIDE DEF d
<1> QED BY <1>1, <1>2, <1>3, WritingAsks

LEMMA FlashWriteAsks ==
  ASSUME Inv, Control, Asked, FlashWrite
  PROVE  Asked'
<1>1. CASE Stop("exit") BY <1>1, StopAsks
<1> DEFINE r == Payload(args.frequency)
           p == [mode |-> "fixed", ram |-> r, sweep |-> NoSweep]
<1>2. CASE Valid(args.frequency) /\ Written([Device EXCEPT !.flash = p]) /\ Done("flashwrite") /\ Closed
  <2>1. Doing = "flashwrite" BY DEF FlashWrite, Doing
  <2>2. OutputsAsAsked(r) BY <1>2, PayloadOfDefault, Zenon DEF Valid, OutputsAsAsked
  <2>3. p.mode = "fixed" /\ p.ram = r
    <3> HIDE DEF r
    <3> QED OBVIOUS
  <2> HIDE DEF p, r
  <2> QED BY <1>2, <2>1, <2>2, <2>3, FlashingAsks
<1> QED BY <1>1, <1>2 DEF FlashWrite

LEMMA EraseAsks ==
  ASSUME Inv, Control, Asked, Erase
  PROVE  Asked'
<1>1. Doing = "erase" /\ Written([Device EXCEPT !.flash = Erased]) /\ Done("erase") /\ Closed
  BY DEF Erase, Doing
<1>2. Erased.mode = "erased"
  <2> DEFINE r == Payload(3500)
  <2>1. Erased = [mode |-> "erased", ram |-> r, sweep |-> NoSweep] BY Zenon DEF Erased
  <2> HIDE DEF r
  <2> QED BY <2>1, SMT
<1> QED BY <1>1, <1>2, FlashingAsks

LEMMA ProgramSweepAsks ==
  ASSUME Inv, Control, Asked, ProgramSweep
  PROVE  Asked'
<1>1. CASE Stop("exit") \/ Stop("exception") BY <1>1, StopAsks
<1> DEFINE s == args.sweep
           p == programSweep(s)
<1>2. CASE ~Refused(s) /\ s.step >= 0 /\ Written([Device EXCEPT !.flash = p]) /\ Done("programsweep") /\ Closed
  <2>1. Doing = "programsweep" BY DEF ProgramSweep, Doing
  <2>2. SweepsAsAsked(p)
    <3> DEFINE r == Payload(3500)
               a == frequency_to_uint32(s.start)
               b == frequency_to_uint32(s.stop)
               c == frequency_to_uint32(s.step)
               t == s.ms % 2^16
    <3>1. p = [mode |-> "sweep", ram |-> r, sweep |-> <<a, b, c, t>>] BY Zenon DEF programSweep
    <3>2. s \in [start : Int, stop : Int, step : Int, ms : Int] BY InvocationsAssumption, Zenon DEF Control
    <3>3. s.start \in Int /\ s.stop \in Int /\ s.step \in Int /\ s.ms \in Int BY <3>2, SMT
    <3>4. s.ms >= 30 BY <1>2, <3>3, SMT DEF Refused
    <3>5. \A m \in Int : m - frequency_to_uint32(m) \in {0, 1}
      BY HundredfoldIs, Zenon DEF frequency_to_uint32
    <3>6. s.start - a \in {0, 1} /\ s.stop - b \in {0, 1} /\ s.step - c \in {0, 1} BY <3>3, <3>5, Zenon
    <3>7. s.ms < 2^16 => t = s.ms BY <3>3, <3>4, SMT
    <3> HIDE DEF r, a, b, c, t, p
    <3>8. p.mode = "sweep" /\ p.sweep[1] = a /\ p.sweep[2] = b /\ p.sweep[3] = c /\ p.sweep[4] = t
      BY <3>1, SMT
    <3> QED BY <3>6, <3>7, <3>8, SMT DEF SweepsAsAsked
  <2> HIDE DEF p
  <2> QED BY <1>2, <2>1, <2>2, FlashingAsks
<1> QED BY <1>1, <1>2 DEF ProgramSweep

LEMMA EnableMacroAsks ==
  ASSUME Inv, Control, Asked, EnableMacro
  PROVE  Asked'
<1> DEFINE r == Payload(args.steps[1].frequency)
           p == [mode |-> "macro", ram |-> r, sweep |-> NoSweep]
<1>1. at = "enable" /\ Doing = "programmacro" BY DEF EnableMacro, Doing
<1>2. Written([Device EXCEPT !.flash = p]) /\ Done("programmacro") /\ Closed BY DEF EnableMacro
<1>3. p.mode = "macro"
  <2> HIDE DEF r
  <2> QED OBVIOUS
<1>4. Good => PlaysAsGiven(Device.blocks, args.steps)
  <2> SUFFICES ASSUME Good PROVE PlaysAsGiven(Device.blocks, args.steps)
    OBVIOUS
  <2>1. args.steps \in Seq(MacroStep) /\ Len(args.steps) <= 2 * MACRO_STEPS_PER_BLOCK
    BY <1>1, MacroIsTyped
  <2>2. Len(args.steps) \in 1 .. 2 * MACRO_STEPS_PER_BLOCK
    BY <1>1, <2>1, BlockAssumption, LimitsAssumption DEF Control, Programmable
  <2>3. Parsed(args.steps) BY <1>1 DEF Control, Parsed
  <2>4. /\ Device.blocks[0] = pack_macro_block(args.steps, 0)
        /\ Device.blocks[1] = pack_macro_block(args.steps, 1)
    BY <1>1 DEF Asked, Sent
  <2> QED BY <2>1, <2>2, <2>3, <2>4, MacroPlays
<1> HIDE DEF p
<1> QED BY <1>1, <1>2, <1>3, <1>4, FlashingAsks

LEMMA BlockAsks ==
  ASSUME TypeInv, Asked, Block0 \/ Block1
  PROVE  Asked'
<1>0. Inv /\ Control BY DEF TypeInv
<1>1. PICK k \in 0 .. 1 : /\ MacroBlock(k)
                          /\ k = 0 => at = "block0" /\ at' = "block1"
                          /\ k = 1 => at = "block1" /\ at' = "enable"
  BY DEF Block0, Block1
<1> DEFINE b == pack_macro_block(args.steps, k)
           g == [Device EXCEPT !.blocks[k] = b]
<1>2. Written(g) /\ UNCHANGED <<plugged, args, serial, open, plugs, status>>
  BY <1>1 DEF MacroBlock, Closed
<1>3. /\ Doing = "programmacro" /\ Doing' = Doing /\ at \notin {"start", "end"}
      /\ at' \in {"block1", "enable"}
  BY <1>1 DEF Doing
<1>4. Past' = Past BY <1>2, <1>3 DEF Past
<1>5. Past \cap {"programmacro"} = {} BY <1>3, Indices DEF Past
<1>6. ~failed' => /\ serial' \in plugged' /\ Sent(Device)' /\ After(Past, Device)'
  <2> SUFFICES ASSUME ~failed' PROVE serial' \in plugged' /\ Sent(Device)' /\ After(Past, Device)'
    OBVIOUS
  <2>1. serial \in plugged /\ devs'[serial] = g /\ ~failed BY <1>0, <1>2, WrittenWell
  <2>2. Good BY <1>3, <2>1 DEF Good, Asked
  <2>3. After(Past, Device) /\ Sent(Device) BY <1>3, <2>2 DEF Asked
  <2>4. Holding(Device) /\ Device.blocks \in [0 .. 1 -> Block]
    <3>1. serial \in Serials BY <1>0, <2>1 DEF Inv
    <3> QED BY <1>0, <3>1 DEF TypeInv, Inv, Kept, Device
  <2>5. /\ g.ram = Device.ram /\ g.flash = Device.flash /\ g.rf = Device.rf
        /\ g.blocks[k] = b
        /\ k = 1 => g.blocks[0] = Device.blocks[0]
    <3> DEFINE h == Device
    <3>1. h = [ram |-> h.ram, flash |-> h.flash, blocks |-> h.blocks, rf |-> h.rf]
      BY <2>4, Zenon DEF Holding
    <3>2. g = [h EXCEPT !.blocks[k] = b] OBVIOUS
    <3> HIDE DEF h, g, b
    <3>3. g = [ram |-> h.ram, flash |-> h.flash, blocks |-> [h.blocks EXCEPT ![k] = b], rf |-> h.rf]
      BY <3>1, <3>2
    <3>4. h.blocks \in [0 .. 1 -> Block] BY <2>4, Zenon DEF h
    <3>5. /\ [h.blocks EXCEPT ![k] = b][k] = b
          /\ k = 1 => [h.blocks EXCEPT ![k] = b][0] = h.blocks[0]
      BY <3>4
    <3>6. /\ g.ram = h.ram /\ g.flash = h.flash /\ g.rf = h.rf
          /\ g.blocks = [h.blocks EXCEPT ![k] = b]
      BY <3>3
    <3> QED BY <3>5, <3>6 DEF h
  <2>6. After(Past, g) BY <1>5, <2>3, <2>5 DEF After, RamAfter, FlashAfter, RfAfter
  <2>7. After(Past, Device)' BY <1>2, <1>4, <2>1, <2>6, AfterNext
  <2>8. Sent(Device)'
    <3> HIDE DEF g, b
    <3>1. Device' = g BY <1>2, <2>1 DEF Device
    <3>2. b = pack_macro_block(args.steps, k) BY DEF b
    <3> QED BY <1>1, <1>2, <2>3, <2>5, <3>1, <3>2 DEF Sent
  <2> QED BY <1>2, <2>1, <2>7, <2>8
<1> HIDE DEF Doing, Past
<1> QED BY <1>2, <1>3, <1>4, <1>6 DEF Asked, Good

(* One step per operation of main()                                        *)
LEMMA ProgramAsks ==
  ASSUME TypeInv, Asked, Program
  PROVE  Asked'
<1>0. Inv /\ Control BY DEF TypeInv
<1>1. CASE Start BY <1>0, <1>1, StartAsks
<1>2. CASE Write BY <1>0, <1>2, WriteAsks
<1>3. CASE FlashWrite BY <1>0, <1>3, FlashWriteAsks
<1>4. CASE Identify
  <2>1. at = "devindetify" /\ Doing = "devindetify" BY <1>4 DEF Identify, Doing
  <2>2. Written(Device) /\ Done(Doing) /\ Closed BY <1>4, <2>1 DEF Identify
  <2>3. Good => After(Past \cup {Doing}, Device) BY <2>1, SameAfter
  <2> QED BY <1>0, <2>1, <2>2, <2>3, WritingAsks
<1>5. CASE Erase BY <1>0, <1>5, EraseAsks
<1>6. CASE ProgramSweep BY <1>0, <1>6, ProgramSweepAsks
<1>7. CASE Info
  <2>1. at = "info" /\ Doing = "info" BY <1>7 DEF Info, Doing
  <2> QED BY <1>0, <1>7, <2>1, AskAsks, FailsAsks DEF Info
<1>8. CASE InfoRead
  <2>1. at = "info.read" /\ Doing = "info" BY <1>8 DEF InfoRead, Doing
  <2> QED BY <1>0, <1>8, <2>1, ReadAsks, FailsAsks, StopAsks DEF InfoRead
<1>9. CASE ProgramMacro BY <1>9, AskAsks, StopAsks DEF ProgramMacro
<1>10. CASE Version
  <2>1. CASE Stop("exit") \/ Stop("exception") BY <2>1, StopAsks
  <2>2. CASE /\ at = "version" /\ open' = FALSE /\ at' = "block0"
             /\ UNCHANGED <<plugged, devs, args, serial, status, failed, plugs>>
    <3>1. Doing' = Doing BY <2>2 DEF Doing
    <3> QED BY <2>2, <3>1, StillAsked
  <2> QED BY <1>10, <2>1, <2>2 DEF Version
<1>11. CASE Block0 \/ Block1 BY <1>11, BlockAsks
<1>12. CASE EnableMacro BY <1>0, <1>12, EnableMacroAsks
<1>13. CASE RfState
  <2>1. at = "rfstate" /\ Doing = "rfstate" BY <1>13 DEF RfState, Doing
  <2>2. CASE args.rfstate = "read" /\ Ask("rfstate.read") BY <2>1, <2>2, AskAsks
  <2>3. CASE Stop("exception") BY <2>3, StopAsks
  <2>4. CASE Written([Device EXCEPT !.rf = (args.rfstate = "on")]) /\ Done("rfstate") /\ Closed
    <3> DEFINE on == args.rfstate = "on"
               d  == [Device EXCEPT !.rf = on]
    <3>1. on \in BOOLEAN /\ (args.rfstate = "on" => on) /\ (args.rfstate = "off" => ~on) OBVIOUS
    <3>2. Written(d) BY <2>4
    <3> HIDE DEF on
    <3>3. Good /\ serial \in plugged => After(Past \cup {Doing}, d)
      BY <1>0, <2>1, <3>1, DeviceIs, RfAfterwards
    <3> HIDE DEF d
    <3> QED BY <1>0, <2>1, <2>4, <3>2, <3>3, WritingAsks
  <2>5. CASE args.rfstate = "other" /\ Done("rfstate") /\ Closed /\ UNCHANGED <<devs, failed>>
    <3>1. args' = args /\ serial' = serial /\ plugged' = plugged /\ open' = open BY <2>5 DEF Closed
    <3>2. ~failed' => After(Past \cup {Doing}, devs'[serial])
      <4> SUFFICES ASSUME ~failed' PROVE After(Past \cup {Doing}, devs'[serial])
        OBVIOUS
      <4>1. Good BY <2>1, <2>5 DEF Good, Asked
      <4>2. After(Past \cup {Doing}, Device) BY <2>1, <2>5, <4>1, SameAfter
      <4> QED BY <2>5, <4>2 DEF Device
    <3> QED BY <1>0, <2>1, <2>5, <3>1, <3>2, Finishes DEF Asked
  <2> QED BY <1>13, <2>2, <2>3, <2>4, <2>5 DEF RfState
<1>14. CASE RfStateRead
  <2>1. at = "rfstate.read" /\ Doing = "rfstate" BY <1>14 DEF RfStateRead, Doing
  <2> QED BY <1>0, <1>14, <2>1, ReadAsks, FailsAsks, StopAsks DEF RfStateRead
<1> QED
  BY <1>1, <1>2, <1>3, <1>4, <1>5, <1>6, <1>7, <1>8, <1>9, <1>10, <1>11, <1>12, <1>13, <1>14
     DEF Program

(* A cable that is pulled counts as a failure, and one that is plugged in  *)
(* comes too late for what was done before.                                *)
LEMMA CablesAsk ==
  ASSUME TypeInv, Asked, NEW d \in Serials, Unplug(d) \/ Plug(d)
  PROVE  Asked'
<1>1. /\ UNCHANGED <<args, at, serial, status>> /\ at # "end"
      /\ open' => open /\ (Unplug(d) => d # serial)
      /\ failed' \/ ~failed
  <2>1. UNCHANGED <<args, at, serial, status>> /\ at # "end" BY DEF Unplug, Plug
  <2>2. open \in BOOLEAN /\ failed \in BOOLEAN BY DEF TypeInv, Control
  <2>3. CASE Unplug(d)
    <3>1. open' = (open /\ d # serial) /\ failed' = (failed \/ d = serial) BY <2>3 DEF Unplug
    <3> QED BY <2>1, <2>2, <3>1, Zenon
  <2>4. CASE Plug(d)
    <3>1. open' = open /\ failed' = failed /\ ~Unplug(d) BY <2>4 DEF Unplug, Plug
    <3> QED BY <2>1, <2>2, <3>1, Zenon
  <2> QED BY <2>3, <2>4
<1>2. Past' = Past /\ Doing' = Doing BY <1>1 DEF Past, Doing
<1>3. open' => serial \in plugged' BY <1>1 DEF Unplug, Plug, Asked
<1>4. ~failed' => Good BY <1>1 DEF Good, Asked
<1>5. ASSUME ~failed'
      PROVE  /\ Past # {} \/ at \in {"block1", "enable"} => serial \in plugged'
             /\ at # "start" => Sent(Device)' /\ After(Past, Device)'
  <2>1. /\ Past # {} \/ at \in {"block1", "enable"} => serial \in plugged
        /\ at # "start" => Sent(Device) /\ After(Past, Device)
    BY <1>1, <1>4, <1>5 DEF Asked
  <2>2. CASE Unplug(d)
    <3>1. d # serial /\ devs' = devs /\ plugged' = plugged \ {d} BY <1>5, <2>2 DEF Unplug
    <3>2. at # "start" => Sent(Device)' BY <1>1, <2>1, <3>1 DEF Sent, Device
    <3>3. ASSUME at # "start" PROVE After(Past, Device)'
      <4>1. After(Past, devs'[serial]) BY <2>1, <3>1, <3>3 DEF Device
      <4> QED BY <1>1, <1>2, <4>1, AfterNext
    <3> QED BY <2>1, <3>1, <3>2, <3>3
  <2>3. CASE Plug(d) /\ d = serial
    <3>1. Past = {} /\ at \notin {"block1", "enable"} BY <2>1, <2>3 DEF Plug
    <3>2. Sent(Device)' BY <1>1, <3>1 DEF Sent
    <3>3. After(Past, Device)' BY <1>2, <3>1 DEF After, RamAfter, FlashAfter, RfAfter
    <3> QED BY <3>1, <3>2, <3>3
  <2>4. CASE Plug(d) /\ d # serial
    <3>1. devs' = devs \/ devs' = [devs EXCEPT ![d].ram = devs[d].flash.ram] BY <2>4 DEF Plug
    <3>2. ASSUME serial \in Serials PROVE devs'[serial] = devs[serial]
      <4>1. devs = [e \in Serials |-> devs[e]] BY DEF TypeInv, Inv
      <4> QED BY <2>4, <3>1, <3>2, <4>1
    <3>3. ASSUME at # "start", serial \in Serials PROVE Sent(Device)' /\ After(Past, Device)'
      <4>1. Sent(Device)' BY <1>1, <2>1, <3>2, <3>3 DEF Sent, Device
      <4>2. After(Past, devs'[serial]) BY <2>1, <3>2, <3>3 DEF Device
      <4> QED BY <1>1, <1>2, <4>1, <4>2, AfterNext
    <3>4. serial \notin Serials => Past = {} /\ at \notin {"block1", "enable"}
      BY <2>1 DEF TypeInv, Inv
    <3>5. ASSUME serial \notin Serials PROVE Sent(Device)' /\ After(Past, Device)'
      <4>1. Sent(Device)' BY <1>1, <3>4, <3>5 DEF Sent
      <4>2. After(Past, Device)' BY <1>2, <3>4, <3>5 DEF After, RamAfter, FlashAfter, RfAfter
      <4> QED BY <4>1, <4>2
    <3>6. plugged \subseteq plugged' BY <2>4 DEF Plug
    <3> QED BY <2>1, <3>3, <3>5, <3>6
  <2> QED BY <2>2, <2>3, <2>4
<1>6. Good' => ~failed' BY DEF Good
<1> HIDE DEF Past, Doing, Good
<1> QED BY <1>1, <1>2, <1>3, <1>5, <1>6 DEF Asked

LEMMA StutterAsks ==
  ASSUME Asked, UNCHANGED vars
  PROVE  Asked'
<1>1. UNCHANGED <<plugged, devs, args, at, serial, open, status, failed>> BY DEF vars
<1>2. Past' = Past /\ Doing' = Doing /\ (Good' <=> Good) BY <1>1 DEF Past, Doing, Good
<1>3. at # "start" /\ Good => Sent(Device)' /\ After(Past, Device)'
  <2> SUFFICES ASSUME at # "start", Good PROVE Sent(Device)' /\ After(Past, Device)'
    OBVIOUS
  <2>1. Sent(Device) /\ After(Past, Device) BY DEF Asked
  <2>2. Sent(Device)' BY <1>1, <2>1 DEF Sent, Device
  <2>3. After(Past, devs'[serial]) BY <1>1, <2>1 DEF Device
  <2> QED BY <1>1, <1>2, <2>2, <2>3, AfterNext
<1> HIDE DEF Past, Doing, Good
<1> QED BY <1>1, <1>2, <1>3 DEF Asked

(* At the end, the past is all that was asked for.                         *)
LEMMA DoneIsAsked ==
  ASSUME Asked
  PROVE  DoneAsAsked
<1> SUFFICES ASSUME status = "done", ~failed
             PROVE  /\ "write" \in args.ops => OutputsAsAsked(devs[serial].ram)
                    /\ FlashAsAsked
                    /\ "rfstate" \in args.ops =>
                         /\ args.rfstate = "on" => devs[serial].rf
                         /\ args.rfstate = "off" => ~devs[serial].rf
  BY DEF DoneAsAsked, OutputsAsAsked
<1>1. at = "end" /\ Good BY DEF Asked, Good
<1>2. Past = args.ops BY <1>1 DEF Past
<1>3. After(args.ops, devs[serial]) BY <1>1, <1>2 DEF Asked, Device
<1>4. FlashAsAsked
  <2> DEFINE ops == args.ops
             flash == devs[serial].flash
             asked == /\ args.sweep.start - flash.sweep[1] \in {0, 1}
                      /\ args.sweep.stop - flash.sweep[2] \in {0, 1}
                      /\ args.sweep.step - flash.sweep[3] \in {0, 1}
                      /\ args.sweep.ms < 2^16 => flash.sweep[4] = args.sweep.ms
  <2>1. "programmacro" \in ops => flash.mode = "macro" /\ MacroAsAsked
    BY <1>3, Zenon DEF After, FlashAfter, PlaysAsGiven, MacroAsAsked
  <2>2. "programmacro" \notin ops /\ "programsweep" \in ops => flash.mode = "sweep" /\ asked
    BY <1>3, SMT DEF After, FlashAfter, SweepsAsAsked
  <2>3. ops \cap {"programmacro", "programsweep", "erase"} = {"erase"} => flash.mode = "erased"
    BY <1>3, SMT DEF After, FlashAfter
  <2>4. ops \cap {"programmacro", "programsweep", "erase", "flashwrite"} = {"flashwrite"} =>
          flash.mode = "fixed" /\ Outputs(flash.ram.reg, Default.ref, args.frequency)
    BY <1>3, SMT DEF After, FlashAfter, OutputsAsAsked
  <2>5. FlashAsAsked =
          CASE "programmacro" \in ops -> flash.mode = "macro" /\ MacroAsAsked
            [] "programmacro" \notin ops /\ "programsweep" \in ops -> flash.mode = "sweep" /\ asked
            [] ops \cap {"programmacro", "programsweep", "erase"} = {"erase"} -> flash.mode = "erased"
            [] ops \cap {"programmacro", "programsweep", "erase", "flashwrite"} = {"flashwrite"} ->
                 flash.mode = "fixed" /\ Outputs(flash.ram.reg, Default.ref, args.frequency)
            [] OTHER -> TRUE
    BY DEF FlashAsAsked
  <2> HIDE DEF ops, flash, asked
  <2> QED BY <2>1, <2>2, <2>3, <2>4, <2>5
<1> QED BY <1>3, <1>4 DEF After, RamAfter, RfAfter

(* A program that ends well has done what it was asked.                    *)
THEOREM EndsAsAsked == Spec => []DoneAsAsked
<1>1. Init => Asked
  BY DEF Init, Asked, Good, Past
<1>2. TypeInv /\ Asked /\ [Next]_vars => Asked'
  BY ProgramAsks, CablesAsk, StutterAsks DEF Next
<1> QED BY <1>1, <1>2, TypeInvHolds, DoneIsAsked, PTL DEF Spec
=============================================================================
