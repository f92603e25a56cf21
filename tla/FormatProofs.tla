---------------------------- MODULE FormatProofs ----------------------------
(***************************************************************************)
(* Proofs about Format, for every width of an int that is 2 modulo 3 and 0 *)
(* modulo 4 and every text of characters and numeric fields: the           *)
(* conversions write their numbers, fields are read as they were written,  *)
(* and each shows its number in its width.                                 *)
(***************************************************************************)
EXTENDS Format, SequenceTheorems, Lists

\* f is defined on the numbers up to n by recursion: on base as there, and by h from an
\* earlier one, to which `back' leads.
Recurs(f, base, b, back, h, n) ==
  f = [i \in 0..n |-> IF i \in base THEN b[i] ELSE h[<<i, f[back[i]]>>]]

(***************************************************************************)
(* Two functions defined by the same recursion agree.                      *)
(***************************************************************************)
LEMMA RecursionUnique ==
  ASSUME NEW base, NEW b, NEW back, NEW h, \A i \in Nat \ base : back[i] \in 0..(i - 1),
         NEW m \in Nat, NEW n \in Nat, NEW f, Recurs(f, base, b, back, h, m),
         NEW g, Recurs(g, base, b, back, h, n)
  PROVE  \A i \in Nat : i <= m /\ i <= n => f[i] = g[i]
  <1> DEFINE T == {k \in Nat : \A i \in 0..k : i <= m /\ i <= n => f[i] = g[i]}
  <1>1. ASSUME NEW k \in Nat, \A i \in Nat : i < k /\ i <= m /\ i <= n => f[i] = g[i], k <= m, k <= n
        PROVE  f[k] = g[k]
    <2>1. f[k] = IF k \in base THEN b[k] ELSE h[<<k, f[back[k]]>>]
      BY <1>1 DEF Recurs
    <2>2. g[k] = IF k \in base THEN b[k] ELSE h[<<k, g[back[k]]>>]
      BY <1>1 DEF Recurs
    <2>3. k \notin base => back[k] \in Nat /\ back[k] < k
      OBVIOUS
    <2>4. k \notin base => f[back[k]] = g[back[k]]
      BY <1>1, <2>3
    <2> QED
      BY <2>1, <2>2, <2>4
  <1>2. 0 \in T
    <2>1. 0 <= m /\ 0 <= n => f[0] = g[0]
      BY <1>1
    <2> QED
      BY <2>1
  <1>3. ASSUME NEW k \in T
        PROVE  k + 1 \in T
    <2>1. \A i \in Nat : i < k + 1 /\ i <= m /\ i <= n => f[i] = g[i]
      BY <1>3
    <2>2. k + 1 <= m /\ k + 1 <= n => f[k + 1] = g[k + 1]
      BY <1>1, <2>1
    <2> QED
      BY <2>1, <2>2
  <1>4. T = Nat
    <2> HIDE DEF T
    <2>1. T \in SUBSET Nat
      BY DEF T
    <2> QED
      BY <1>2, <1>3, <2>1, SetInduction
  <1>5. \A k \in Nat : \A i \in 0..k : i <= m /\ i <= n => f[i] = g[i]
    BY <1>4
  <1>6. \A k \in Nat : k \in 0..k
    OBVIOUS
  <1> QED
    BY <1>5, <1>6

\* What such a recursion needs to have values in S; and the function it defines.
Founded(S, base, b, back, h) ==
  /\ \A i \in Nat \ base : back[i] \in 0..(i - 1)
  /\ \A i \in Nat \cap base : b[i] \in S
  /\ \A i \in Nat \ base : \A x \in S : h[<<i, x>>] \in S

Defined(f, base, b, back, h) ==
  \A i \in Nat : f[i] = IF i \in base THEN b[i] ELSE h[<<i, f[back[i]]>>]

(***************************************************************************)
(* There is one on all of Nat.                                             *)
(***************************************************************************)
LEMMA RecursionExists ==
  ASSUME NEW S, NEW base, NEW b, NEW back, NEW h, Founded(S, base, b, back, h)
  PROVE  \E f \in [Nat -> S] : Defined(f, base, b, back, h)
  <1> USE DEF Founded
  <1> DEFINE T == {n \in Nat : \E f : Recurs(f, base, b, back, h, n) /\ \A i \in 0..n : f[i] \in S}
  <1>1. 0 \in T
    <2>1. 0 \in base
      <3>1. 0 \notin base => back[0] \in 0..(0 - 1)
        OBVIOUS
      <3> QED
        BY <3>1
    <2> DEFINE f == [i \in 0..0 |-> b[0]]
    <2>2. \A i \in 0..0 : i = 0
      OBVIOUS
    <2>3. Recurs(f, base, b, back, h, 0)
      BY <2>1, <2>2 DEF Recurs
    <2>4. \A i \in 0..0 : f[i] \in S
      BY <2>1, <2>2
    <2> QED
      BY <2>3, <2>4
  <1>2. ASSUME NEW n \in T
        PROVE  n + 1 \in T
    <2>1. PICK f : Recurs(f, base, b, back, h, n) /\ \A i \in 0..n : f[i] \in S
      BY <1>2
    <2> DEFINE g == [i \in 0..(n + 1) |->
                     IF i = n + 1 THEN IF i \in base THEN b[i] ELSE h[<<i, f[back[i]]>>] ELSE f[i]]
    <2>2. \A i \in 0..(n + 1) : i # n + 1 => i \in 0..n
      OBVIOUS
    <2>3. \A i \in 0..(n + 1) : i \notin base => back[i] \in 0..n /\ back[i] \in 0..(n + 1) /\ back[i] # n + 1
      <3> SUFFICES ASSUME NEW i \in 0..(n + 1), i \notin base
                   PROVE  back[i] \in 0..n /\ back[i] \in 0..(n + 1) /\ back[i] # n + 1
        OBVIOUS
      <3>1. back[i] \in 0..(i - 1)
        OBVIOUS
      <3> QED
        BY <3>1
    <2>4. \A i \in 0..n : i \in 0..(n + 1) /\ i # n + 1
      OBVIOUS
    <2>5. \A i \in 0..n : g[i] = f[i]
      BY <2>4
    <2>6. \A i \in 0..(n + 1) : g[i] = IF i \in base THEN b[i] ELSE h[<<i, g[back[i]]>>]
      <3> SUFFICES ASSUME NEW i \in 0..(n + 1)
                   PROVE  g[i] = IF i \in base THEN b[i] ELSE h[<<i, g[back[i]]>>]
        OBVIOUS
      <3>1. g[i] = IF i \in base THEN b[i] ELSE h[<<i, f[back[i]]>>]
        BY <2>1, <2>2 DEF Recurs
      <3>2. i \notin base => g[back[i]] = f[back[i]]
        BY <2>3, <2>5
      <3> HIDE DEF g
      <3> QED
        BY <3>1, <3>2
    <2>7. g = [i \in 0..(n + 1) |-> g[i]]
      OBVIOUS
    <2>8. \A i \in 0..(n + 1) : g[i] \in S
      <3> SUFFICES ASSUME NEW i \in 0..(n + 1)
                   PROVE  g[i] \in S
        OBVIOUS
      <3>1. CASE i = n + 1
        BY <2>1, <2>3, <2>6, <2>5, <3>1
      <3>2. CASE i # n + 1
        BY <2>1, <2>2, <2>5, <3>2
      <3> QED
        BY <3>1, <3>2
    <2> HIDE DEF g
    <2>9. Recurs(g, base, b, back, h, n + 1)
      BY <2>6, <2>7 DEF Recurs
    <2> QED
      BY <2>8, <2>9
  <1>3. T = Nat
    <2> HIDE DEF T
    <2>1. T \in SUBSET Nat
      BY DEF T
    <2> QED
      BY <1>1, <1>2, <2>1, SetInduction
  <1> DEFINE F(n) == CHOOSE f : Recurs(f, base, b, back, h, n) /\ \A i \in 0..n : f[i] \in S
             whole == [n \in Nat |-> F(n)[n]]
  <1>4. ASSUME NEW n \in Nat
        PROVE  Recurs(F(n), base, b, back, h, n) /\ \A i \in 0..n : F(n)[i] \in S
    <2>1. \E f : Recurs(f, base, b, back, h, n) /\ \A i \in 0..n : f[i] \in S
      BY <1>3 DEF T
    <2> QED
      BY <2>1, Zenon
  <1> HIDE DEF F
  <1>5. whole \in [Nat -> S]
    <2>1. \A n \in Nat : n \in 0..n
      OBVIOUS
    <2> QED
      BY <1>4, <2>1
  <1>6. ASSUME NEW n \in Nat
        PROVE  whole[n] = IF n \in base THEN b[n] ELSE h[<<n, whole[back[n]]>>]
    <2>1. F(n)[n] = IF n \in base THEN b[n] ELSE h[<<n, F(n)[back[n]]>>]
      <3>1. n \in 0..n
        OBVIOUS
      <3> QED
        BY <1>4, <3>1 DEF Recurs
    <2>2. CASE n \notin base
      <3>1. PICK k : k = back[n]
        OBVIOUS
      <3>2. k \in Nat /\ k <= n /\ k <= k
        BY <2>2, <3>1
      <3>3. F(n)[k] = F(k)[k]
        BY <1>4, <3>2, RecursionUnique
      <3> QED
        BY <2>1, <2>2, <3>1, <3>2, <3>3
    <2> QED
      BY <2>1, <2>2
  <1> QED
    BY <1>5, <1>6 DEF Defined

-----------------------------------------------------------------------------
(* Powers *)

(***************************************************************************)
(* Each power is the base times the one before.                            *)
(***************************************************************************)
LEMMA PowerIs ==
  ASSUME NEW k \in Nat
  PROVE  /\ Power(k) \in [Nat -> Nat] /\ Power(k)[0] = 1
         /\ \A n \in Nat : Power(k)[n + 1] = k * Power(k)[n]
  <1> DEFINE power == Power(k)
             zero == {0}
             one == [n \in {0} |-> 1]
             back == [n \in Nat |-> n - 1]
             h == [z \in Nat \X Nat |-> k * z[2]]
  <1>1. PICK f \in [Nat -> Nat] : Defined(f, zero, one, back, h)
    <2>1. \A i \in Nat \ zero : back[i] \in 0..(i - 1)
      OBVIOUS
    <2>2. \A i \in Nat \cap zero : one[i] \in Nat
      OBVIOUS
    <2>3. \A i \in Nat \ zero : \A x \in Nat : h[<<i, x>>] \in Nat
      OBVIOUS
    <2> HIDE DEF zero, one, back, h
    <2>4. Founded(Nat, zero, one, back, h)
      BY <2>1, <2>2, <2>3 DEF Founded
    <2> QED
      BY <2>4, RecursionExists
  <1>2. \A i \in Nat : f[i] = IF i = 0 THEN 1 ELSE k * f[i - 1]
    <2> SUFFICES ASSUME NEW i \in Nat
                 PROVE  f[i] = IF i = 0 THEN 1 ELSE k * f[i - 1]
      OBVIOUS
    <2>1. CASE i = 0
      BY <1>1, <2>1 DEF Defined
    <2>2. CASE i # 0
      <3>1. i - 1 \in Nat
        BY <2>2
      <3>2. back[i] = i - 1 /\ h[<<i, f[i - 1]>>] = k * f[i - 1]
        BY <3>1
      <3> HIDE DEF back, h
      <3> QED
        BY <1>1, <2>2, <3>2 DEF Defined
    <2> QED
      BY <2>1, <2>2
  <1>3. f = [n \in Nat |-> IF n = 0 THEN 1 ELSE k * f[n - 1]]
    BY <1>2
  <1>4. power = CHOOSE p : p = [n \in Nat |-> IF n = 0 THEN 1 ELSE k * p[n - 1]]
    BY DEF Power
  <1>5. power = [n \in Nat |-> IF n = 0 THEN 1 ELSE k * power[n - 1]]
    <2> HIDE DEF power
    <2> QED
      BY <1>3, <1>4
  <1>6. \A i \in Nat : power[i] = IF i = 0 THEN 1 ELSE k * power[i - 1]
    <2> HIDE DEF power
    <2> QED
      BY <1>5
  <1>7. power[0] = 1 /\ \A n \in Nat : power[n + 1] = k * power[n]
    <2> HIDE DEF power
    <2>1. \A n \in Nat : n + 1 \in Nat /\ n + 1 # 0 /\ (n + 1) - 1 = n
      OBVIOUS
    <2> QED
      BY <1>6, <2>1
  <1> DEFINE T == {n \in Nat : power[n] \in Nat}
  <1>8. 0 \in T /\ \A n \in T : n + 1 \in T
    <2> HIDE DEF power
    <2> QED
      BY <1>7
  <1>9. T = Nat
    <2>1. T \in SUBSET Nat
      OBVIOUS
    <2> HIDE DEF T
    <2> QED
      BY <1>8, <2>1, SetInduction
  <1>10. power \in [Nat -> Nat]
    <2>1. \A n \in Nat : power[n] \in Nat
      BY <1>9
    <2> HIDE DEF power
    <2> QED
      BY <1>5, <2>1
  <1> QED
    BY <1>7, <1>10

(***************************************************************************)
(* The powers of a number that is not 0 are not 0.                         *)
(***************************************************************************)
LEMMA PowerPositive ==
  ASSUME NEW k \in Nat \ {0}
  PROVE  \A n \in Nat : Power(k)[n] \in Nat \ {0}
  <1> DEFINE T == {n \in Nat : Power(k)[n] \in Nat \ {0}}
  <1>1. 0 \in T
    <2>1. Power(k)[0] = 1
      BY PowerIs
    <2> QED
      BY <2>1
  <1>2. ASSUME NEW n \in T
        PROVE  n + 1 \in T
    <2>1. PICK a \in Nat \ {0} : a = Power(k)[n]
      BY <1>2
    <2>2. k * a \in Nat \ {0}
      OBVIOUS
    <2>3. Power(k)[n + 1] = k * a
      BY <2>1, PowerIs
    <2> QED
      BY <2>2, <2>3
  <1>3. T = Nat
    <2>1. T \in SUBSET Nat
      OBVIOUS
    <2> HIDE DEF T
    <2> QED
      BY <1>1, <1>2, <2>1, SetInduction
  <1> QED
    BY <1>3

(***************************************************************************)
(* Exponents are added when powers are multiplied.                         *)
(***************************************************************************)
LEMMA PowerPlus ==
  ASSUME NEW k \in Nat, NEW m \in Nat
  PROVE  \A n \in Nat : Power(k)[m + n] = Power(k)[m] * Power(k)[n]
  <1> DEFINE T == {n \in Nat : Power(k)[m + n] = Power(k)[m] * Power(k)[n]}
  <1>1. 0 \in T
    <2>1. PICK a \in Nat : a = Power(k)[m]
      BY PowerIs
    <2>2. Power(k)[0] = 1 /\ m + 0 = m /\ a * 1 = a
      BY PowerIs
    <2> QED
      BY <2>1, <2>2
  <1>2. ASSUME NEW n \in T
        PROVE  n + 1 \in T
    <2>1. PICK a \in Nat, b \in Nat : a = Power(k)[m] /\ b = Power(k)[n]
      BY PowerIs
    <2>2. Power(k)[m + n] = a * b
      BY <2>1
    <2>3. m + (n + 1) = (m + n) + 1 /\ m + n \in Nat
      OBVIOUS
    <2>4. Power(k)[m + (n + 1)] = k * (a * b)
      BY <2>2, <2>3, PowerIs
    <2>5. Power(k)[n + 1] = k * b
      BY <2>1, PowerIs
    <2>6. k * (a * b) = a * (k * b)
      BY <2>1
    <2> QED
      BY <2>1, <2>4, <2>5, <2>6
  <1>3. T = Nat
    <2>1. T \in SUBSET Nat
      OBVIOUS
    <2> HIDE DEF T
    <2> QED
      BY <1>1, <1>2, <2>1, SetInduction
  <1> QED
    BY <1>3

-----------------------------------------------------------------------------
(* Digits *)

(***************************************************************************)
(* The sixteen digits are different, and are told from all else.           *)
(***************************************************************************)
LEMMA DigitFacts ==
  /\ \A m, n \in 0..15 : Digit(m) = Digit(n) => m = n
  /\ \A n \in 0..15 : ValueOf(Digit(n)) = n
  /\ \A n \in 0..15 : Digit(n) = "0" <=> n = 0
  /\ \A n \in 0..15 : Digit(n) \notin {"-", "%", " "}
  /\ \A n \in 0..9 : Digit(n) \notin {"d", "x", "o"}
  <1>1. ASSUME NEW n \in 0..15
        PROVE  \/ n = 0 \/ n = 1 \/ n = 2 \/ n = 3 \/ n = 4 \/ n = 5 \/ n = 6 \/ n = 7
               \/ n = 8 \/ n = 9 \/ n = 10 \/ n = 11 \/ n = 12 \/ n = 13 \/ n = 14 \/ n = 15
    OBVIOUS
  <1>2. /\ Digit(0) = "0" /\ Digit(1) = "1" /\ Digit(2) = "2" /\ Digit(3) = "3" /\ Digit(4) = "4"
        /\ Digit(5) = "5" /\ Digit(6) = "6" /\ Digit(7) = "7" /\ Digit(8) = "8" /\ Digit(9) = "9"
        /\ Digit(10) = "A" /\ Digit(11) = "B" /\ Digit(12) = "C" /\ Digit(13) = "D" /\ Digit(14) = "E"
        /\ Digit(15) = "F"
    BY DEF Digit, hexdigits
  <1>3. \A m, n \in 0..15 : Digit(m) = Digit(n) => m = n
    BY <1>1, <1>2
  <1>4. \A n \in 0..15 : ValueOf(Digit(n)) = n
    BY <1>3 DEF ValueOf
  <1>5. \A n \in 0..15 : Digit(n) = "0" <=> n = 0
    BY <1>1, <1>2
  <1>6. \A n \in 0..15 : /\ Digit(n) # "-" /\ Digit(n) # "%" /\ Digit(n) # " "
                          /\ Digit(n) # "d" /\ Digit(n) # "x" /\ Digit(n) # "o"
    BY <1>1, <1>2
  <1>7. \A n \in 0..9 : n \in 0..15
    OBVIOUS
  <1> QED
    BY <1>3, <1>4, <1>5, <1>6, <1>7

-----------------------------------------------------------------------------
(* Numbers *)

DigitChars == {Digit(n) : n \in 0..15}

\* What the digits up to each place write.
Numbers(number, str, base) ==
  /\ number \in [0..Len(str) -> Nat] /\ number[0] = 0
  /\ \A i \in 1..Len(str) : number[i] = base * number[i - 1] + ValueOf(str[i])

Writes(str, base, n) ==
  str \in Seq(DigitChars) /\ \E number : Numbers(number, str, base) /\ number[Len(str)] = n

(***************************************************************************)
(* NumberOf is what the last of these numbers is.                          *)
(***************************************************************************)
LEMMA WritesIs ==
  ASSUME NEW base \in Nat, NEW str, NEW n, Writes(str, base, n)
  PROVE  NumberOf(str, base) = n
  <1>1. str \in Seq(DigitChars)
    BY DEF Writes
  <1>2. PICK number : Numbers(number, str, base) /\ number[Len(str)] = n
    BY DEF Writes
  <1>3. PICK len \in Nat : len = Len(str)
    BY <1>1
  <1> DEFINE step(g) == [i \in 0..Len(str) |-> IF i = 0 THEN 0 ELSE base * g[i - 1] + ValueOf(str[i])]
             g == CHOOSE f : f = step(f)
  <1>4. number = step(number)
    <2>1. \A i \in 0..len : i # 0 => i \in 1..len
      OBVIOUS
    <2>2. \A i \in 0..len : number[i] = IF i = 0 THEN 0 ELSE base * number[i - 1] + ValueOf(str[i])
      BY <1>2, <1>3, <2>1 DEF Numbers
    <2> QED
      BY <1>2, <1>3, <2>2 DEF Numbers
  <1>5. NumberOf(str, base) = g[len]
    BY <1>3 DEF NumberOf
  <1>6. g = step(g)
    <2> HIDE DEF step
    <2> QED
      BY <1>4, Zenon
  <1>7. \A i \in 0..len : g[i] = IF i = 0 THEN 0 ELSE base * g[i - 1] + ValueOf(str[i])
    <2> HIDE DEF g
    <2> QED
      BY <1>3, <1>6
  <1> HIDE DEF g
  <1> DEFINE T == {k \in Nat : k <= len => g[k] = number[k]}
  <1>8. 0 \in T
    BY <1>2, <1>7 DEF Numbers
  <1>9. ASSUME NEW k \in T
        PROVE  k + 1 \in T
    <2>1. CASE k + 1 <= len
      <3>1. k + 1 \in 0..len /\ k + 1 \in 1..len /\ k + 1 # 0 /\ (k + 1) - 1 = k
        BY <2>1
      <3>2. g[k] = number[k]
        BY <2>1
      <3>3. g[k + 1] = base * g[k] + ValueOf(str[k + 1])
        BY <1>7, <3>1
      <3>4. number[k + 1] = base * number[k] + ValueOf(str[k + 1])
        BY <1>2, <1>3, <3>1 DEF Numbers
      <3> QED
        BY <3>2, <3>3, <3>4
    <2> QED
      BY <2>1
  <1>10. T = Nat
    <2>1. T \in SUBSET Nat
      OBVIOUS
    <2> HIDE DEF T
    <2> QED
      BY <1>8, <1>9, <2>1, SetInduction
  <1>11. g[len] = number[len]
    BY <1>10
  <1> QED
    BY <1>2, <1>3, <1>5, <1>11

(***************************************************************************)
(* No digits write 0, and one more digit is worth what it is in the last   *)
(* place.                                                                  *)
(***************************************************************************)
LEMMA WritesNone ==
  ASSUME NEW base \in Nat
  PROVE  Writes(<<>>, base, 0)
  <1> DEFINE number == [i \in 0..0 |-> 0]
  <1>1. Len(<<>>) = 0 /\ <<>> \in Seq(DigitChars)
    OBVIOUS
  <1>2. number \in [0..0 -> Nat] /\ number[0] = 0
    OBVIOUS
  <1>3. 1..0 = {}
    OBVIOUS
  <1> HIDE DEF number
  <1>4. Numbers(number, <<>>, base)
    BY <1>1, <1>2, <1>3 DEF Numbers
  <1> QED
    BY <1>1, <1>2, <1>4 DEF Writes

(***************************************************************************)
(* One more digit behind the others.                                       *)
(***************************************************************************)
LEMMA WritesAppend ==
  ASSUME NEW base \in Nat, NEW str, NEW n \in Nat, Writes(str, base, n), NEW d \in 0..15
  PROVE  Writes(Append(str, Digit(d)), base, base * n + d)
  <1> DEFINE more == Append(str, Digit(d))
  <1>1. str \in Seq(DigitChars) /\ Digit(d) \in DigitChars
    BY DEF Writes, DigitChars
  <1>2. PICK f : Numbers(f, str, base) /\ f[Len(str)] = n
    BY DEF Writes
  <1>3. PICK len \in Nat : len = Len(str)
    BY <1>1
  <1>4. more \in Seq(DigitChars) /\ Len(more) = len + 1 /\ more[len + 1] = Digit(d)
    BY <1>1, <1>3
  <1>5. \A i \in 1..len : more[i] = str[i]
    BY <1>1, <1>3
  <1>6. ValueOf(Digit(d)) = d
    BY DigitFacts
  <1>7. PICK m \in Nat : m = base * n + d
    OBVIOUS
  <1> DEFINE g == [i \in 0..(len + 1) |-> IF i = len + 1 THEN m ELSE f[i]]
  <1>8. \A i \in 0..(len + 1) : i = len + 1 \/ i \in 0..len
    OBVIOUS
  <1>9. f \in [0..len -> Nat] /\ f[0] = 0 /\ \A i \in 1..len : f[i] = base * f[i - 1] + ValueOf(str[i])
    BY <1>2, <1>3 DEF Numbers
  <1>10. g \in [0..(len + 1) -> Nat]
    BY <1>8, <1>9
  <1>11. g[0] = 0 /\ g[len + 1] = m
    BY <1>9
  <1>12. \A i \in 0..len : g[i] = f[i]
    OBVIOUS
  <1> HIDE DEF g, more
  <1>13. ASSUME NEW i \in 1..(len + 1)
         PROVE  g[i] = base * g[i - 1] + ValueOf(more[i])
    <2>1. CASE i = len + 1
      <3>1. i - 1 = len /\ g[len] = n
        BY <1>2, <1>3, <1>12, <2>1
      <3> QED
        BY <1>4, <1>6, <1>7, <1>11, <2>1, <3>1
    <2>2. CASE i # len + 1
      <3>1. i \in 1..len /\ i \in 0..len /\ i - 1 \in 0..len
        BY <2>2
      <3> QED
        BY <1>5, <1>9, <1>12, <3>1
    <2> QED
      BY <2>1, <2>2
  <1>14. Numbers(g, more, base)
    BY <1>4, <1>10, <1>11, <1>13 DEF Numbers
  <1>15. Writes(more, base, m)
    BY <1>4, <1>11, <1>14 DEF Writes
  <1> QED
    BY <1>7, <1>15 DEF more

-----------------------------------------------------------------------------
(* Decimal numbers *)

DecimalChars == {Digit(n) : n \in 0..9}

(***************************************************************************)
(* The function Decimal exists: it has one digit for what is below 10, and *)
(* otherwise one more than the tenth has.                                  *)
(***************************************************************************)
LEMMA DecimalIs ==
  /\ \A v \in 0..9 : Decimal[v] = <<Digit(v)>>
  /\ \A v \in Nat \ 0..9 : Decimal[v] = Append(Decimal[v \div 10], Digit(v % 10))
  <1> DEFINE S == Seq(DecimalChars)
             few == 0..9
             one == [v \in 0..9 |-> <<Digit(v)>>]
             back == [v \in Nat |-> v \div 10]
             h == [z \in Nat \X S |-> Append(z[2], Digit(z[1] % 10))]
             step(f) == [v \in Nat |-> IF v \div 10 = 0 THEN <<Digit(v % 10)>>
                                       ELSE Append(f[v \div 10], Digit(v % 10))]
  <1>1. \A v \in Nat : v % 10 \in 0..9 /\ v \div 10 \in Nat
    OBVIOUS
  <1>2. \A v \in 0..9 : Digit(v) \in DecimalChars
    BY DEF DecimalChars
  <1>3. \A v \in Nat \ few : v \div 10 \in 0..(v - 1) /\ v \div 10 # 0
    OBVIOUS
  <1>4. \A v \in few : v \div 10 = 0 /\ v % 10 = v /\ v \in Nat
    OBVIOUS
  <1>5. PICK f \in [Nat -> S] : Defined(f, few, one, back, h)
    <2>1. \A i \in Nat \ few : back[i] \in 0..(i - 1)
      BY <1>3
    <2>2. \A i \in Nat \cap few : one[i] \in S
      BY <1>2
    <2>3. \A i \in Nat \ few : \A x \in S : h[<<i, x>>] \in S
      BY <1>1, <1>2
    <2> HIDE DEF S, few, one, back, h
    <2>4. Founded(S, few, one, back, h)
      BY <2>1, <2>2, <2>3 DEF Founded
    <2> QED
      BY <2>4, RecursionExists
  <1>6. \A v \in few : f[v] = <<Digit(v)>>
    BY <1>4, <1>5 DEF Defined
  <1>7. \A v \in Nat \ few : f[v] = Append(f[v \div 10], Digit(v % 10))
    <2> SUFFICES ASSUME NEW v \in Nat \ few
                 PROVE  f[v] = Append(f[v \div 10], Digit(v % 10))
      OBVIOUS
    <2>1. back[v] = v \div 10 /\ v \div 10 \in Nat
      BY <1>1
    <2>2. f[v \div 10] \in S
      BY <1>5, <2>1
    <2>3. h[<<v, f[v \div 10]>>] = Append(f[v \div 10], Digit(v % 10))
      BY <2>2
    <2>4. f[v] = h[<<v, f[back[v]]>>]
      BY <1>5 DEF Defined
    <2> QED
      BY <2>1, <2>3, <2>4
  <1>8. f = step(f)
    <2>1. \A v \in Nat :
            f[v] = IF v \div 10 = 0 THEN <<Digit(v % 10)>> ELSE Append(f[v \div 10], Digit(v % 10))
      BY <1>3, <1>4, <1>6, <1>7
    <2> HIDE DEF S
    <2> QED
      BY <1>5, <2>1
  <1>9. Decimal = CHOOSE g : g = step(g)
    BY DEF Decimal
  <1>10. Decimal = step(Decimal)
    <2> HIDE DEF step
    <2> QED
      BY <1>8, <1>9, Zenon
  <1>11. \A v \in Nat : Decimal[v] = IF v \div 10 = 0 THEN <<Digit(v % 10)>>
                                     ELSE Append(Decimal[v \div 10], Digit(v % 10))
    BY <1>10
  <1> QED
    BY <1>3, <1>4, <1>11

\* str writes v as a decimal number, which has no zero in front unless it is 0.
DecimalOf(str, v) ==
  /\ str \in Seq(DecimalChars) /\ str # <<>> /\ (str[1] = "0" => v = 0 /\ Len(str) = 1)
  /\ Writes(str, 10, v)

(***************************************************************************)
(* Decimal writes its argument.                                            *)
(***************************************************************************)
LEMMA DecimalWrites ==
  \A v \in Nat : DecimalOf(Decimal[v], v)
  <1>1. \A d \in 0..9 : d \in 0..15 /\ Digit(d) \in DecimalChars /\ (Digit(d) = "0" => d = 0)
    <2>1. \A d \in 0..9 : d \in 0..15
      OBVIOUS
    <2>2. \A d \in 0..15 : Digit(d) = "0" <=> d = 0
      BY DigitFacts
    <2> QED
      BY <2>1, <2>2 DEF DecimalChars
  <1>2. ASSUME NEW v \in 0..9
        PROVE  DecimalOf(Decimal[v], v)
    <2>1. Decimal[v] = <<Digit(v)>>
      BY DecimalIs
    <2>2. <<Digit(v)>> = Append(<<>>, Digit(v)) /\ 10 * 0 + v = v
      OBVIOUS
    <2>3. Writes(<<>>, 10, 0)
      BY WritesNone
    <2>4. Writes(Append(<<>>, Digit(v)), 10, 10 * 0 + v)
      BY <1>1, <2>3, WritesAppend
    <2> QED
      BY <1>1, <2>1, <2>2, <2>4 DEF DecimalOf
  <1>3. ASSUME NEW v \in Nat \ 0..9, DecimalOf(Decimal[v \div 10], v \div 10)
        PROVE  DecimalOf(Decimal[v], v)
    <2>1. PICK q \in Nat, d \in 0..9 : q = v \div 10 /\ d = v % 10 /\ v = 10 * q + d /\ q # 0
      OBVIOUS
    <2>2. Decimal[v] = Append(Decimal[q], Digit(d))
      BY <2>1, DecimalIs
    <2>3. DecimalOf(Decimal[q], q)
      BY <1>3, <2>1
    <2>4. Writes(Append(Decimal[q], Digit(d)), 10, 10 * q + d)
      BY <1>1, <2>3, WritesAppend DEF DecimalOf
    <2>5. PICK s \in Seq(DecimalChars) : s = Decimal[q] /\ s # <<>> /\ s[1] # "0"
      BY <2>1, <2>3 DEF DecimalOf
    <2>6. Append(s, Digit(d))[1] = s[1] /\ Append(s, Digit(d)) # <<>>
            /\ Append(s, Digit(d)) \in Seq(DecimalChars)
      BY <1>1, <2>5
    <2> QED
      BY <2>1, <2>2, <2>4, <2>5, <2>6 DEF DecimalOf
  <1> DEFINE T == {n \in Nat : \A v \in 0..n : DecimalOf(Decimal[v], v)}
  <1>4. 0 \in T
    <2>1. \A v \in 0..0 : v \in 0..9
      OBVIOUS
    <2> QED
      BY <1>2, <2>1
  <1>5. ASSUME NEW n \in T
        PROVE  n + 1 \in T
    <2> SUFFICES ASSUME NEW v \in 0..(n + 1)
                 PROVE  DecimalOf(Decimal[v], v)
      OBVIOUS
    <2>1. CASE v \in 0..n
      BY <2>1
    <2>2. CASE v \notin 0..n /\ v \notin 0..9
      <3>1. v \div 10 \in 0..n
        BY <2>2
      <3> QED
        BY <1>3, <2>2, <3>1
    <2> QED
      BY <1>2, <2>1, <2>2
  <1>6. T = Nat
    <2>1. T \in SUBSET Nat
      OBVIOUS
    <2> HIDE DEF T
    <2> QED
      BY <1>4, <1>5, <2>1, SetInduction
  <1>7. \A n \in Nat : \A v \in 0..n : DecimalOf(Decimal[v], v)
    BY <1>6
  <1>8. \A n \in Nat : n \in 0..n
    OBVIOUS
  <1> QED
    BY <1>7, <1>8

(***************************************************************************)
(* What is below a power of ten has no more digits than its exponent.      *)
(***************************************************************************)
LEMMA DecimalShort ==
  \A k \in Nat : \A v \in Nat : v < Power(10)[k + 1] => Len(Decimal[v]) <= k + 1
  <1>1. ASSUME NEW v \in 0..9
        PROVE  Len(Decimal[v]) = 1
    <2>1. Decimal[v] = <<Digit(v)>>
      BY DecimalIs
    <2> QED
      BY <2>1
  <1> DEFINE T == {k \in Nat : \A v \in Nat : v < Power(10)[k + 1] => Len(Decimal[v]) <= k + 1}
  <1>2. 0 \in T
    <2>1. 10 \in Nat /\ 0 \in Nat
      OBVIOUS
    <2>2. Power(10)[0 + 1] = 10 * Power(10)[0] /\ Power(10)[0] = 1
      BY ONLY <2>1, PowerIs
    <2>3. \A v \in Nat : v < 10 => v \in 0..9
      OBVIOUS
    <2>4. PICK p \in Nat : p = Power(10)[0] /\ p = 1 /\ 10 * p = 10
      BY <2>2
    <2>5. Power(10)[0 + 1] = 10
      BY <2>2, <2>4
    <2>6. ASSUME NEW v \in Nat, v < Power(10)[0 + 1]
          PROVE  Len(Decimal[v]) <= 0 + 1
      <3>1. v \in 0..9
        BY <2>5, <2>6
      <3>2. Len(Decimal[v]) = 1
        BY <1>1, <3>1
      <3> QED
        BY <3>2
    <2> QED
      BY <2>6
  <1>3. ASSUME NEW k \in T
        PROVE  k + 1 \in T
    <2> SUFFICES ASSUME NEW v \in Nat, v < Power(10)[(k + 1) + 1]
                 PROVE  Len(Decimal[v]) <= (k + 1) + 1
      OBVIOUS
    <2>1. k + 1 \in Nat /\ 10 \in Nat
      OBVIOUS
    <2>2. PICK p \in Nat : p = Power(10)[k + 1]
      BY <2>1, PowerIs
    <2>3. v < 10 * p
      <3>1. Power(10)[(k + 1) + 1] = 10 * Power(10)[k + 1]
        BY <2>1, PowerIs
      <3> QED
        BY <2>2, <3>1
    <2>4. PICK q \in Nat : q = v \div 10 /\ q < p
      BY <2>3
    <2>5. Len(Decimal[q]) <= k + 1
      BY <2>2, <2>4
    <2>6. Decimal[q] \in Seq(DecimalChars)
      BY DecimalWrites DEF DecimalOf
    <2>7. CASE v \in 0..9
      <3>1. Len(Decimal[v]) = 1
        BY <1>1, <2>7
      <3> QED
        BY <3>1
    <2>8. CASE v \notin 0..9
      <3>1. Decimal[v] = Append(Decimal[q], Digit(v % 10))
        BY <2>4, <2>8, DecimalIs
      <3> QED
        BY <2>5, <2>6, <3>1
    <2> QED
      BY <2>7, <2>8
  <1>4. T = Nat
    <2>1. T \in SUBSET Nat
      OBVIOUS
    <2> HIDE DEF T
    <2> QED
      BY <1>2, <1>3, <2>1, SetInduction
  <1> QED
    BY <1>4

-----------------------------------------------------------------------------
(* Octal and hexadecimal numbers *)

\* The digits of W in this base, n of them, and the characters without the first zeros.
DigitsOf(W, base, n) == [i \in 1..n |-> (W \div Power(base)[n - i]) % base]

\* str has between 1 and n of them, which write W.
NumberIn(str, base, n, W) ==
  /\ str \in Seq({Digit(d) : d \in 0..(base - 1)}) /\ Len(str) \in 1..n /\ (str[1] = "0" => Len(str) = 1)
  /\ Writes(str, base, W)

(***************************************************************************)
(* What is left of the digits where the first zeros are left out, if not   *)
(* the last.                                                               *)
(***************************************************************************)
LEMMA FromFirstIs ==
  ASSUME NEW base \in 1..16, NEW n \in Nat \ {0}, NEW ds \in [1..n -> 0..(base - 1)]
  PROVE  \E k \in 1..n : /\ \A i \in 1..(k - 1) : ds[i] = 0
                         /\ ds[k] # 0 \/ k = n
                         /\ Chars(FromFirst(ds)) \in Seq({Digit(d) : d \in 0..(base - 1)})
                         /\ Len(Chars(FromFirst(ds))) = n - k + 1
                         /\ \A i \in 1..(n - k + 1) : Chars(FromFirst(ds))[i] = Digit(ds[i + k - 1])
  <1>1. ds \in Seq(0..(base - 1)) /\ Len(ds) = n /\ DOMAIN ds = 1..n
    OBVIOUS
  <1> DEFINE stored == {i \in DOMAIN ds : ds[i] # 0 \/ i = Len(ds)}
             k == CHOOSE i \in stored : \A j \in stored : i <= j
             left == SubSeq(ds, k, n)
  <1>2. stored \in SUBSET Nat /\ n \in stored /\ \A i \in stored : i \in 1..n /\ (ds[i] # 0 \/ i = n)
    BY <1>1
  <1>3. \A i \in 1..n : i \notin stored => ds[i] = 0
    BY <1>1
  <1>4. FromFirst(ds) = left
    BY <1>1 DEF FromFirst
  <1> HIDE DEF stored
  <1>5. k \in stored /\ \A j \in stored : k <= j
    <2>1. \E i \in stored : \A j \in stored : i <= j
      BY <1>2, LeastOf
    <2> QED
      BY <2>1, Zenon
  <1>6. PICK m \in 1..n : m = k /\ (ds[m] # 0 \/ m = n) /\ \A i \in 1..(m - 1) : ds[i] = 0
    <2>1. k \in 1..n /\ (ds[k] # 0 \/ k = n)
      BY <1>2, <1>5
    <2> HIDE DEF k
    <2>2. \A i \in 1..(k - 1) : i \in 1..n /\ i \notin stored
      BY <1>5, <2>1
    <2> QED
      BY <1>3, <2>1, <2>2
  <1> HIDE DEF k
  <1>7. left \in Seq(0..(base - 1)) /\ Len(left) = n - m + 1
        /\ \A i \in 1..(n - m + 1) : left[i] = ds[i + m - 1]
    <2>1. left = SubSeq(ds, m, n)
      BY <1>6
    <2> HIDE DEF left
    <2> QED
      BY <1>1, <2>1
  <1> HIDE DEF left
  <1> DEFINE str == Chars(left)
             C == {Digit(d) : d \in 0..(base - 1)}
  <1>8. DOMAIN left = 1..(n - m + 1) /\ n - m + 1 \in Nat
    BY <1>7
  <1>9. \A i \in 1..(n - m + 1) : left[i] \in 0..(base - 1)
    <2>1. left \in [1..(n - m + 1) -> 0..(base - 1)]
      BY <1>7, <1>8
    <2> QED
      BY <2>1
  <1>10. str = [i \in 1..(n - m + 1) |-> Digit(left[i])]
    BY <1>8 DEF Chars
  <1>11. \A d \in 0..(base - 1) : Digit(d) \in C
    OBVIOUS
  <1> HIDE DEF str, C
  <1>12. str \in [1..(n - m + 1) -> C]
    BY <1>9, <1>10, <1>11
  <1>13. str \in Seq(C) /\ Len(str) = n - m + 1
    BY <1>8, <1>12
  <1>14. \A i \in 1..(n - m + 1) : str[i] = Digit(ds[i + m - 1])
    BY <1>7, <1>10
  <1> QED
    BY <1>4, <1>6, <1>13, <1>14 DEF str, C

(***************************************************************************)
(* A number below a power of the base is written by its digits, as many as *)
(* the exponent.                                                           *)
(***************************************************************************)
LEMMA DigitsWrite ==
  ASSUME NEW base \in {8, 16}, NEW n \in Nat \ {0}, NEW W \in Nat, W < Power(base)[n]
  PROVE  NumberIn(Chars(FromFirst(DigitsOf(W, base, n))), base, n, W)
  <1> DEFINE ds == DigitsOf(W, base, n)
             str == Chars(FromFirst(ds))
             F == [i \in 0..n |-> W \div Power(base)[n - i]]
  <1>1. base \in 1..16 /\ base \in Nat \ {0} /\ base \in Nat /\ n \in Nat
    OBVIOUS
  <1>2. \A m \in Nat : Power(base)[m] \in Nat \ {0}
    BY <1>1, PowerPositive
  <1>3. \A i \in 0..n : n - i \in Nat
    OBVIOUS
  <1>4. \A i \in 0..n : F[i] \in Nat
    <2> SUFFICES ASSUME NEW i \in 0..n
                 PROVE  F[i] \in Nat
      OBVIOUS
    <2>1. PICK p \in Nat \ {0} : p = Power(base)[n - i]
      BY <1>2, <1>3
    <2>2. W \div p \in Nat
      OBVIOUS
    <2> QED
      BY <2>1, <2>2
  <1>5. F[0] = 0
    <2>1. PICK p \in Nat \ {0} : p = Power(base)[n]
      BY <1>2
    <2>2. W \div p = 0
      BY <2>1
    <2>3. n - 0 = n /\ 0 \in 0..n
      OBVIOUS
    <2> QED
      BY <2>1, <2>2, <2>3
  <1>6. F[n] = W
    <2>1. n - n = 0 /\ Power(base)[0] = 1 /\ n \in 0..n
      BY <1>1, PowerIs
    <2>2. PICK p \in Nat : p = Power(base)[n - n] /\ p = 1
      BY <2>1
    <2>3. W \div p = W
      BY <2>2
    <2> QED
      BY <2>1, <2>2, <2>3
  <1>7. ASSUME NEW i \in 1..n
        PROVE  ds[i] \in 0..(base - 1) /\ F[i] = base * F[i - 1] + ds[i]
    <2>1. PICK p \in Nat \ {0} : p = Power(base)[n - i]
      BY <1>2
    <2>2. n - i \in Nat /\ (n - i) + 1 = n - (i - 1) /\ i - 1 \in 0..n /\ i \in 0..n
      OBVIOUS
    <2>3. Power(base)[n - (i - 1)] = base * p
      BY <1>1, <2>1, <2>2, PowerIs
    <2>4. ds[i] = (W \div p) % base
      BY <2>1 DEF DigitsOf
    <2>5. F[i] = W \div p /\ F[i - 1] = W \div (base * p)
      BY <2>1, <2>2, <2>3
    <2>6. PICK a \in Nat : a = W \div p
      OBVIOUS
    <2>7. W \div (base * p) = a \div base
      <3>1. CASE base = 8
        BY <2>6, <3>1
      <3>2. CASE base = 16
        BY <2>6, <3>2
      <3> QED
        BY <3>1, <3>2
    <2>8. a % base \in 0..(base - 1) /\ a = base * (a \div base) + (a % base)
      <3>1. CASE base = 8
        BY <3>1
      <3>2. CASE base = 16
        BY <3>2
      <3> QED
        BY <3>1, <3>2
    <2> QED
      BY <2>4, <2>5, <2>6, <2>7, <2>8
  <1>8. ds \in [1..n -> 0..(base - 1)]
    <2>1. ds = [i \in 1..n |-> ds[i]]
      BY DEF DigitsOf
    <2> QED
      BY <1>7, <2>1
  <1> HIDE DEF F, ds
  <1>9. PICK k \in 1..n : /\ \A i \in 1..(k - 1) : ds[i] = 0
                          /\ ds[k] # 0 \/ k = n
                          /\ str \in Seq({Digit(d) : d \in 0..(base - 1)})
                          /\ Len(str) = n - k + 1
                          /\ \A i \in 1..(n - k + 1) : str[i] = Digit(ds[i + k - 1])
    BY <1>1, <1>8, FromFirstIs
  <1> HIDE DEF str
  <1> DEFINE T == {i \in Nat : i <= k - 1 => F[i] = 0}
  <1>10. T = Nat
    <2>1. 0 \in T
      BY <1>5
    <2>2. ASSUME NEW i \in T
          PROVE  i + 1 \in T
      <3>1. CASE i + 1 <= k - 1
        <4>1. i + 1 \in 1..(k - 1) /\ i + 1 \in 1..n /\ (i + 1) - 1 = i /\ F[i] = 0
          BY <3>1
        <4>2. F[i + 1] = base * F[i] + ds[i + 1] /\ ds[i + 1] = 0
          BY <1>7, <1>9, <4>1
        <4>3. F[i + 1] = 0
          BY <4>1, <4>2
        <4> QED
          BY <4>3
      <3> QED
        BY <3>1
    <2>3. T \in SUBSET Nat
      OBVIOUS
    <2> HIDE DEF T
    <2> QED
      BY <2>1, <2>2, <2>3, SetInduction
  <1>11. F[k - 1] = 0
    <2>1. k - 1 \in Nat /\ k - 1 <= k - 1
      OBVIOUS
    <2> QED
      BY <1>10, <2>1
  <1> DEFINE len == n - k + 1
             G == [i \in 0..len |-> F[i + k - 1]]
  <1>12. len \in 1..n
    OBVIOUS
  <1>13. G \in [0..len -> Nat] /\ G[0] = 0 /\ G[len] = W
    <2>1. \A i \in 0..len : i + k - 1 \in 0..n
      OBVIOUS
    <2>2. 0 + k - 1 = k - 1 /\ len + k - 1 = n /\ 0 \in 0..len /\ len \in 0..len
      OBVIOUS
    <2> HIDE DEF len
    <2> QED
      BY <1>4, <1>6, <1>11, <2>1, <2>2
  <1>14. ASSUME NEW i \in 1..len
         PROVE  G[i] = base * G[i - 1] + ValueOf(str[i])
    <2>1. i \in 1..(n - k + 1) /\ i + k - 1 \in 1..n /\ (i + k - 1) - 1 = (i - 1) + k - 1 /\ i \in 0..len
            /\ i - 1 \in 0..len
      OBVIOUS
    <2>2. F[i + k - 1] = base * F[(i - 1) + k - 1] + ds[i + k - 1] /\ ds[i + k - 1] \in 0..(base - 1)
      BY <1>7, <2>1
    <2>3. PICK d \in 0..15 : d = ds[i + k - 1]
      BY <2>2
    <2>4. str[i] = Digit(d)
      BY <1>9, <2>1, <2>3
    <2>5. ValueOf(str[i]) = d
      BY <2>4, DigitFacts
    <2>6. G[i] = F[i + k - 1] /\ G[i - 1] = F[(i - 1) + k - 1]
      BY <2>1
    <2> HIDE DEF G
    <2> QED
      BY <2>2, <2>3, <2>5, <2>6
  <1>15. Len(str) = len
    BY <1>9
  <1> HIDE DEF G, len
  <1>16. Numbers(G, str, base)
    BY <1>13, <1>14, <1>15 DEF Numbers
  <1>17. str \in Seq(DigitChars)
    <2>1. \A d \in 0..(base - 1) : d \in 0..15
      BY <1>1
    <2>2. {Digit(d) : d \in 0..(base - 1)} \subseteq DigitChars
      BY <2>1 DEF DigitChars
    <2> QED
      BY <1>9, <2>2
  <1>18. Writes(str, base, W)
    BY <1>13, <1>15, <1>16, <1>17 DEF Writes
  <1>19. str[1] = "0" => len = 1
    <2>1. 1 \in 1..(n - k + 1) /\ 1 + k - 1 = k
      OBVIOUS
    <2>2. str[1] = Digit(ds[k])
      BY <1>9, <2>1
    <2>3. ds[k] \in 0..15
      BY <1>1, <1>7
    <2>4. str[1] = "0" => ds[k] = 0
      BY <2>2, <2>3, DigitFacts
    <2> QED
      BY <1>9, <2>4 DEF len
  <1> QED
    BY <1>9, <1>12, <1>15, <1>18, <1>19 DEF NumberIn, str, ds

(***************************************************************************)
(* Powers of 8 and 16 are powers of 2.                                     *)
(***************************************************************************)
LEMMA PowersOfTwo ==
  /\ \A n \in Nat : Power(8)[n] = Power(2)[3 * n]
  /\ \A n \in Nat : Power(16)[n] = Power(2)[4 * n]
  <1>1. Power(2)[0] = 1 /\ Power(8)[0] = 1 /\ Power(16)[0] = 1
    BY PowerIs
  <1>2. \A n \in Nat : Power(2)[n] \in Nat /\ Power(8)[n] \in Nat /\ Power(16)[n] \in Nat
    BY PowerIs
  <1>3. ASSUME NEW n \in Nat
        PROVE  /\ Power(2)[n + 1] = 2 * Power(2)[n] /\ Power(8)[n + 1] = 8 * Power(8)[n]
               /\ Power(16)[n + 1] = 16 * Power(16)[n]
    BY PowerIs
  <1>4. ASSUME NEW n \in Nat
        PROVE  Power(2)[n + 3] = 8 * Power(2)[n] /\ Power(2)[n + 4] = 16 * Power(2)[n]
    <2>1. PICK p \in Nat : p = Power(2)[n]
      BY <1>2
    <2>2. n + 1 \in Nat /\ n + 2 \in Nat /\ n + 3 \in Nat /\ (n + 1) + 1 = n + 2 /\ (n + 2) + 1 = n + 3
            /\ (n + 3) + 1 = n + 4
      OBVIOUS
    <2>3. Power(2)[n + 1] = 2 * p
      BY <1>3, <2>1
    <2>4. Power(2)[n + 2] = 4 * p
      <3>1. Power(2)[n + 2] = 2 * Power(2)[n + 1]
        BY <1>3, <2>2
      <3> QED
        BY <2>3, <3>1
    <2>5. Power(2)[n + 3] = 8 * p
      <3>1. Power(2)[n + 3] = 2 * Power(2)[n + 2]
        BY <1>3, <2>2
      <3> QED
        BY <2>4, <3>1
    <2>6. Power(2)[n + 4] = 16 * p
      <3>1. Power(2)[n + 4] = 2 * Power(2)[n + 3]
        BY <1>3, <2>2
      <3> QED
        BY <2>5, <3>1
    <2> QED
      BY <2>1, <2>5, <2>6
  <1> DEFINE T == {n \in Nat : Power(8)[n] = Power(2)[3 * n] /\ Power(16)[n] = Power(2)[4 * n]}
  <1>5. 0 \in T
    <2>1. 3 * 0 = 0 /\ 4 * 0 = 0
      OBVIOUS
    <2> QED
      BY <1>1, <2>1
  <1>6. ASSUME NEW n \in T
        PROVE  n + 1 \in T
    <2>1. 3 * n \in Nat /\ 4 * n \in Nat /\ 3 * (n + 1) = 3 * n + 3 /\ 4 * (n + 1) = 4 * n + 4
      OBVIOUS
    <2>2. Power(8)[n + 1] = 8 * Power(2)[3 * n] /\ Power(16)[n + 1] = 16 * Power(2)[4 * n]
      BY <1>3
    <2>3. Power(2)[3 * n + 3] = 8 * Power(2)[3 * n] /\ Power(2)[4 * n + 4] = 16 * Power(2)[4 * n]
      BY <1>4, <2>1
    <2> QED
      BY <2>1, <2>2, <2>3
  <1>7. T = Nat
    <2>1. T \in SUBSET Nat
      OBVIOUS
    <2> HIDE DEF T
    <2> QED
      BY <1>5, <1>6, <2>1, SetInduction
  <1> QED
    BY <1>7

(***************************************************************************)
(* What an int is, and how many numbers there are of that many bits.       *)
(***************************************************************************)
LEMMA WordIs ==
  \E top \in Nat : /\ top >= 16 /\ MAXINT = top - 1 /\ Power(2)[WORD_BITS] = 2 * top
                   /\ Power(16)[WORD_BITS \div 4] = 2 * top /\ 4 * Power(8)[WORD_BITS \div 3] = 2 * top
                   /\ Power(8)[WORD_BITS \div 3 + 1] = 4 * top
  <1>1. WORD_BITS \in Nat /\ WORD_BITS > 4 /\ WORD_BITS % 3 = 2 /\ WORD_BITS % 4 = 0
    BY FormatAssumption
  <1>2. PICK b \in Nat, h \in Nat, o \in Nat : b = WORD_BITS /\ h = b \div 4 /\ o = b \div 3
    BY <1>1
  <1>3. b > 4 /\ b = 4 * h /\ b = 3 * o + 2 /\ b - 1 \in Nat /\ b - 5 \in Nat
    BY <1>1, <1>2
  <1>4. PICK top \in Nat : top = Power(2)[b - 1]
    BY <1>3, PowerIs
  <1>5. MAXINT = top - 1
    BY <1>2, <1>4 DEF MAXINT
  <1>6. Power(2)[b] = 2 * top
    <2>1. (b - 1) + 1 = b /\ 2 \in Nat
      BY <1>3
    <2>2. Power(2)[(b - 1) + 1] = 2 * Power(2)[b - 1]
      BY ONLY <1>3, <2>1, PowerIs
    <2> QED
      BY <1>4, <2>1, <2>2
  <1>7. Power(16)[h] = 2 * top
    BY <1>3, <1>6, PowersOfTwo
  <1>8. PICK q \in Nat : q = Power(8)[o]
    BY PowerIs
  <1>9. 4 * q = 2 * top
    <2>1. 3 * o \in Nat /\ 3 * o + 1 \in Nat /\ (3 * o + 1) + 1 = b
      BY <1>3
    <2>2. Power(2)[3 * o] = q
      BY <1>8, PowersOfTwo
    <2>3. Power(2)[3 * o + 1] = 2 * q
      BY <2>1, <2>2, PowerIs
    <2>4. Power(2)[b] = 2 * (2 * q)
      <3>1. Power(2)[(3 * o + 1) + 1] = 2 * Power(2)[3 * o + 1]
        BY <2>1, PowerIs
      <3> QED
        BY <2>1, <2>3, <3>1
    <2> QED
      BY <1>6, <2>4
  <1>10. Power(8)[o + 1] = 4 * top
    <2>1. Power(8)[o + 1] = 8 * q
      BY <1>8, PowerIs
    <2> QED
      BY <1>9, <2>1
  <1>11. top >= 16
    <2>1. PICK m \in Nat : m = h - 1
      BY <1>3
    <2>2. PICK p \in Nat \ {0} : p = Power(16)[m]
      BY PowerPositive
    <2>3. h = m + 1 /\ h >= 2
      BY <1>3, <2>1
    <2>4. Power(16)[m + 1] = 16 * p
      BY <2>2, PowerIs
    <2>5. 2 * top = 16 * p
      BY <1>7, <2>3, <2>4
    <2>6. PICK r \in Nat : r = m - 1
      BY <2>1, <2>3
    <2>7. PICK p2 \in Nat \ {0} : p2 = Power(16)[r]
      BY PowerPositive
    <2>8. Power(16)[r + 1] = 16 * p2 /\ m = r + 1
      BY <2>6, <2>7, PowerIs
    <2>9. p = 16 * p2
      BY <2>2, <2>8
    <2> QED
      BY <2>5, <2>9
  <1> QED
    BY <1>2, <1>5, <1>6, <1>7, <1>8, <1>9, <1>10, <1>11

(***************************************************************************)
(* What is written without a zero in front, in the words of WritesNat.     *)
(***************************************************************************)
LEMMA NumberWrites ==
  ASSUME NEW base \in {8, 10, 16}, NEW str \in Seq({Digit(d) : d \in 0..(base - 1)}), str # <<>>,
         str[1] = "0" => Len(str) = 1, NEW W \in Nat, Writes(str, base, W)
  PROVE  WritesNat(str, base, W)
  <1>1. \A i \in DOMAIN str : str[i] \in {Digit(d) : d \in 0..(base - 1)}
    OBVIOUS
  <1>2. base \in Nat
    OBVIOUS
  <1>3. NumberOf(str, base) = W
    BY <1>2, WritesIs
  <1> QED
    BY <1>1, <1>3 DEF WritesNat

\* str is between 1 and PRINTF_BUF - 1 characters, which show the value.
Converts(str, type, value) ==
  /\ str \in Seq(DigitChars \cup {"-"}) /\ Len(str) >= 1 /\ Len(str) + 1 <= PRINTF_BUF
  /\ WritesNumber(type, str, value)

(***************************************************************************)
(* Hexadecimal and octal conversions, of the bits an int consists of.      *)
(***************************************************************************)
LEMMA UnsignedIs ==
  ASSUME NEW value \in Ints
  PROVE  Unsigned(value) \in Nat /\ Unsigned(value) < Power(2)[WORD_BITS]
  <1>1. PICK top \in Nat : top >= 16 /\ MAXINT = top - 1 /\ Power(2)[WORD_BITS] = 2 * top
    BY WordIs
  <1>2. value \in Int
    BY <1>1 DEF Ints
  <1>3. PICK m \in Nat \ {0} : m = 2 * top
    BY <1>1
  <1>4. value % m \in Nat /\ value % m < m
    BY <1>2
  <1> QED
    BY <1>1, <1>3, <1>4 DEF Unsigned

(***************************************************************************)
(* cvthex writes the bits of an int in base 16.                            *)
(***************************************************************************)
LEMMA CvthexRight ==
  ASSUME NEW value \in Ints
  PROVE  Converts(Cvthex(value), "x", value)
  <1>1. PICK n \in Nat \ {0} : n = WORD_BITS \div 4 /\ n + 2 <= PRINTF_BUF
    <2>1. WORD_BITS \in Nat /\ WORD_BITS > 4 /\ PRINTF_BUF >= WORD_BITS \div 3 + 2 /\ PRINTF_BUF \in Nat
      BY FormatAssumption
    <2> QED
      BY <2>1
  <1>2. PICK U \in Nat : U = Unsigned(value) /\ U < Power(2)[WORD_BITS]
    BY UnsignedIs
  <1>3. U < Power(16)[n]
    BY <1>1, <1>2, WordIs
  <1>4. Cvthex(value) = Chars(FromFirst(DigitsOf(U, 16, n)))
    BY <1>1, <1>2 DEF Cvthex, DigitsOf
  <1>5. PICK str : str = Cvthex(value) /\ NumberIn(str, 16, n, U)
    BY <1>3, <1>4, DigitsWrite
  <1>6. str \in Seq({Digit(d) : d \in 0..(16 - 1)}) /\ Len(str) \in 1..n /\ (str[1] = "0" => Len(str) = 1)
        /\ Writes(str, 16, U)
    BY <1>5 DEF NumberIn
  <1>7. str # <<>>
    BY <1>6
  <1>8. WritesNat(str, 16, U)
    BY <1>6, <1>7, NumberWrites
  <1>9. str \in Seq(DigitChars \cup {"-"})
    BY <1>6 DEF Writes
  <1>10. WritesNumber("x", str, value)
    BY <1>2, <1>8 DEF WritesNumber
  <1>11. Len(str) >= 1 /\ Len(str) + 1 <= PRINTF_BUF
    BY <1>1, <1>6, FormatAssumption
  <1> QED
    BY <1>5, <1>9, <1>10, <1>11 DEF Converts

(***************************************************************************)
(* Adding 4 to the first octal digit adds the number of all ints.          *)
(***************************************************************************)
LEMMA OctalDigits ==
  ASSUME NEW n \in Nat \ {0}, NEW U \in Nat, U < 4 * Power(8)[n - 1]
  PROVE  /\ U + 4 * Power(8)[n - 1] < Power(8)[n]
         /\ DigitsOf(U + 4 * Power(8)[n - 1], 8, n) =
              [i \in 1..n |-> IF i = 1 THEN DigitsOf(U, 8, n)[1] + 4 ELSE DigitsOf(U, 8, n)[i]]
  <1>1. n - 1 \in Nat /\ (n - 1) + 1 = n
    OBVIOUS
  <1>2. PICK p \in Nat \ {0} : p = Power(8)[n - 1]
    BY <1>1, PowerPositive
  <1>3. PICK W \in Nat : W = U + 4 * p
    OBVIOUS
  <1>4. Power(8)[n] = 8 * p
    <2>1. Power(8)[(n - 1) + 1] = 8 * Power(8)[n - 1]
      BY <1>1, PowerIs
    <2> QED
      BY <1>1, <1>2, <2>1
  <1>5. ASSUME NEW i \in 1..n
        PROVE  (W \div Power(8)[n - i]) % 8 = ((U \div Power(8)[n - i]) % 8) + (IF i = 1 THEN 4 ELSE 0)
    <2>1. CASE i = 1
      <3>1. PICK a \in Nat : a = U \div p /\ a < 4
        BY <1>2
      <3>2. W \div p = a + 4
        BY <1>3, <3>1
      <3>3. (a + 4) % 8 = a + 4 /\ a % 8 = a
        BY <3>1
      <3>4. n - i = n - 1
        BY <2>1
      <3>5. (W \div Power(8)[n - i]) % 8 = a + 4 /\ (U \div Power(8)[n - i]) % 8 = a
        BY <1>2, <3>1, <3>2, <3>3, <3>4
      <3> QED
        BY <2>1, <3>5
    <2>2. CASE i # 1
      <3>1. PICK j \in Nat, r \in Nat : j = n - i /\ r = i - 2 /\ n - 1 = j + (r + 1)
        BY <2>2
      <3>2. PICK q \in Nat \ {0}, c \in Nat : q = Power(8)[j] /\ c = Power(8)[r]
        <4>1. Power(8)[j] \in Nat \ {0} /\ Power(8)[r] \in Nat
          BY PowerPositive
        <4> QED
          BY <4>1
      <3>3. p = q * (8 * c)
        <4>1. Power(8)[r + 1] = 8 * c
          BY <3>2, PowerIs
        <4>2. Power(8)[j + (r + 1)] = Power(8)[j] * Power(8)[r + 1]
          <5>1. r + 1 \in Nat
            OBVIOUS
          <5> QED
            BY <5>1, PowerPlus
        <4> QED
          BY <1>2, <3>1, <3>2, <4>1, <4>2
      <3>4. W = U + q * (32 * c)
        BY <1>3, <3>3
      <3>5. PICK a \in Nat : a = U \div q
        OBVIOUS
      <3>6. W \div q = a + 32 * c
        <4>1. PICK e \in Nat : e = 32 * c
          OBVIOUS
        <4>2. (U + q * e) \div q = U \div q + e
          OBVIOUS
        <4> QED
          BY <3>4, <3>5, <4>1, <4>2
      <3>7. (a + 32 * c) % 8 = a % 8
        OBVIOUS
      <3>8. (W \div Power(8)[n - i]) % 8 = (U \div Power(8)[n - i]) % 8
        BY <3>1, <3>2, <3>5, <3>6, <3>7
      <3>9. (U \div Power(8)[n - i]) % 8 \in Nat
        <4>1. a % 8 \in Nat
          OBVIOUS
        <4> QED
          BY <3>1, <3>2, <3>5, <4>1
      <3> QED
        BY <2>2, <3>8, <3>9
    <2> QED
      BY <2>1, <2>2
  <1>6. DigitsOf(W, 8, n) = [i \in 1..n |-> IF i = 1 THEN DigitsOf(U, 8, n)[1] + 4 ELSE DigitsOf(U, 8, n)[i]]
    <2>1. \A i \in 1..n : (U \div Power(8)[n - i]) % 8 \in Nat
      <3> SUFFICES ASSUME NEW i \in 1..n
                   PROVE  (U \div Power(8)[n - i]) % 8 \in Nat
        OBVIOUS
      <3>1. n - i \in Nat
        OBVIOUS
      <3>2. PICK q \in Nat \ {0} : q = Power(8)[n - i]
        BY <3>1, PowerPositive
      <3>3. (U \div q) % 8 \in Nat
        OBVIOUS
      <3> QED
        BY <3>2, <3>3
    <2>2. ASSUME NEW i \in 1..n
          PROVE  DigitsOf(W, 8, n)[i] = IF i = 1 THEN DigitsOf(U, 8, n)[1] + 4 ELSE DigitsOf(U, 8, n)[i]
      <3>1. DigitsOf(W, 8, n)[i] = DigitsOf(U, 8, n)[i] + (IF i = 1 THEN 4 ELSE 0)
              /\ DigitsOf(U, 8, n)[i] \in Nat
        BY <1>5, <2>1 DEF DigitsOf
      <3> QED
        BY <3>1
    <2>3. DigitsOf(W, 8, n) = [i \in 1..n |-> DigitsOf(W, 8, n)[i]]
      BY DEF DigitsOf
    <2> QED
      BY <2>2, <2>3
  <1> QED
    BY <1>2, <1>3, <1>4, <1>6

(***************************************************************************)
(* cvtoct writes them in base 8, of a negative int with a first digit that *)
(* is too large by 4.                                                      *)
(***************************************************************************)
LEMMA CvtoctRight ==
  ASSUME NEW value \in Ints
  PROVE  Converts(Cvtoct(value), "o", value)
  <1>1. PICK n \in Nat \ {0} : n = WORD_BITS \div 3 + 1 /\ n + 1 <= PRINTF_BUF
    <2>1. WORD_BITS \in Nat /\ PRINTF_BUF >= WORD_BITS \div 3 + 2 /\ PRINTF_BUF \in Nat
      BY FormatAssumption
    <2> QED
      BY <2>1
  <1>2. PICK top \in Nat : /\ top >= 16 /\ MAXINT = top - 1 /\ Power(2)[WORD_BITS] = 2 * top
                           /\ 4 * Power(8)[n - 1] = 2 * top /\ Power(8)[n] = 4 * top
    <2>1. n - 1 = WORD_BITS \div 3
      BY <1>1, FormatAssumption
    <2> QED
      BY <1>1, <2>1, WordIs
  <1>3. PICK U \in Nat : U = Unsigned(value) /\ U < 2 * top
    BY <1>2, UnsignedIs
  <1> DEFINE W == U + IF value < 0 THEN Power(2)[WORD_BITS] ELSE 0
  <1>4. W \in Nat /\ W < Power(8)[n] /\ W = Unsigned(value) + IF value < 0 THEN Power(2)[WORD_BITS] ELSE 0
    BY <1>2, <1>3
  <1>5. Cvtoct(value) = Chars(FromFirst(DigitsOf(W, 8, n)))
    <2> DEFINE digit(i) == (U \div Power(8)[n - i]) % 8
    <2>1. Cvtoct(value) =
            Chars(FromFirst([i \in 1..n |-> IF i = 1 /\ value < 0 THEN digit(1) + 4 ELSE digit(i)]))
      BY <1>1, <1>3 DEF Cvtoct
    <2>2. CASE value < 0
      <3>1. W = U + 4 * Power(8)[n - 1]
        BY <1>2, <2>2
      <3>2. DigitsOf(W, 8, n) =
              [i \in 1..n |-> IF i = 1 THEN DigitsOf(U, 8, n)[1] + 4 ELSE DigitsOf(U, 8, n)[i]]
        BY <1>2, <1>3, <3>1, OctalDigits
      <3>3. \A i \in 1..n : DigitsOf(U, 8, n)[i] = digit(i)
        BY DEF DigitsOf
      <3>4. 1 \in 1..n
        OBVIOUS
      <3>5. DigitsOf(W, 8, n) = [i \in 1..n |-> IF i = 1 /\ value < 0 THEN digit(1) + 4 ELSE digit(i)]
        <4> HIDE DEF W, digit
        <4> QED
          BY <2>2, <3>2, <3>3, <3>4
      <3> QED
        BY <2>1, <3>5
    <2>3. CASE ~ value < 0
      <3>1. W = U
        BY <2>3
      <3>2. [i \in 1..n |-> IF i = 1 /\ value < 0 THEN digit(1) + 4 ELSE digit(i)] = [i \in 1..n |-> digit(i)]
        BY <2>3
      <3>3. DigitsOf(U, 8, n) = [i \in 1..n |-> digit(i)]
        BY DEF DigitsOf
      <3> QED
        BY <2>1, <3>1, <3>2, <3>3
    <2> QED
      BY <2>2, <2>3
  <1> HIDE DEF W
  <1>6. PICK str : str = Cvtoct(value) /\ NumberIn(str, 8, n, W)
    BY <1>4, <1>5, DigitsWrite
  <1>7. str \in Seq({Digit(d) : d \in 0..(8 - 1)}) /\ Len(str) \in 1..n /\ (str[1] = "0" => Len(str) = 1)
        /\ Writes(str, 8, W)
    BY <1>6 DEF NumberIn
  <1>8. str # <<>>
    BY <1>7
  <1>9. WritesNat(str, 8, W)
    BY <1>4, <1>7, <1>8, NumberWrites
  <1>10. str \in Seq(DigitChars \cup {"-"})
    BY <1>7 DEF Writes
  <1>11. WritesNumber("o", str, value)
    BY <1>4, <1>9 DEF WritesNumber
  <1>12. Len(str) >= 1 /\ Len(str) + 1 <= PRINTF_BUF
    BY <1>1, <1>7, FormatAssumption
  <1> QED
    BY <1>6, <1>10, <1>11, <1>12 DEF Converts

(***************************************************************************)
(* The decimal conversion, of the least int also.                          *)
(***************************************************************************)
LEMMA CvtdecRight ==
  ASSUME NEW value \in Ints
  PROVE  Converts(Cvtdec(value), "d", value)
  <1>1. PICK top \in Nat : top >= 16 /\ MAXINT = top - 1
    BY WordIs
  <1>2. value \in Int /\ -top <= value /\ value <= top - 1
    BY <1>1 DEF Ints
  <1>3. PICK m \in Nat : m = (IF value < 0 THEN -value ELSE value) /\ m <= top
    BY <1>2
  <1>4. PICK k \in Nat : k + 1 = PRINTF_BUF - 2 /\ PRINTF_BUF = k + 3
    <2>1. PRINTF_BUF \in Nat /\ PRINTF_BUF >= WORD_BITS \div 3 + 2 /\ WORD_BITS \in Nat /\ WORD_BITS > 4
      BY FormatAssumption
    <2> QED
      BY <2>1
  <1>5. PICK D : /\ D = Decimal[m] /\ D \in Seq(DecimalChars) /\ D # <<>>
                      /\ (D[1] = "0" => m = 0 /\ Len(D) = 1)
                 /\ Writes(D, 10, m)
    BY DecimalWrites DEF DecimalOf
  <1>6. Len(D) <= k + 1 /\ Len(D) >= 1
    <2>1. PICK p \in Nat : p = Power(10)[k + 1]
      <3>1. k + 1 \in Nat
        OBVIOUS
      <3> QED
        BY <3>1, PowerIs
    <2>2. top < p
      BY <1>1, <1>4, <2>1, FormatAssumption
    <2>3. m < p
      BY <1>3, <2>2
    <2>4. Len(Decimal[m]) <= k + 1
      BY <2>1, <2>3, DecimalShort
    <2> QED
      BY <1>5, <2>4
  <1>7. WritesNat(D, 10, m)
    <2>1. 10 - 1 = 9 /\ D \in Seq({Digit(d) : d \in 0..9})
      BY <1>5 DEF DecimalChars
    <2>2. D \in Seq({Digit(d) : d \in 0..(10 - 1)})
      BY <2>1
    <2> QED
      BY <1>5, <2>2, NumberWrites
  <1>8. D \in Seq(DigitChars)
    BY <1>5 DEF Writes
  <1>9. Cvtdec(value) = IF value < 0 THEN <<"-">> \o D ELSE D
    <2>1. CASE value >= 0
      BY <1>2, <1>3, <1>5, <2>1 DEF Cvtdec, Cvtdec0
    <2>2. CASE value < 0 /\ value # -top
      <3>1. Negated(value) = m /\ m >= 0
        BY <1>1, <1>2, <1>3, <2>2 DEF Negated
      <3> QED
        BY <1>5, <2>2, <3>1 DEF Cvtdec, Cvtdec0
    <2>3. CASE value = -top
      <3>1. value < 0 /\ m = top /\ MAXINT + 1 = top /\ value = -MAXINT - 1
        BY <1>1, <1>2, <1>3, <2>3
      <3>2. Cvtdec(value) = <<"-">> \o Append(Decimal[top \div 10], Digit(top % 10))
        <4>1. Negated(value) = value
          BY <3>1 DEF Negated
        <4>2. ~ value >= 0
          BY <1>2, <3>1
        <4> QED
          BY <3>1, <4>1, <4>2 DEF Cvtdec, Cvtdec0
      <3>3. top \in Nat \ 0..9
        BY <1>1
      <3>4. Decimal[top] = Append(Decimal[top \div 10], Digit(top % 10))
        BY <3>3, DecimalIs
      <3> QED
        BY <1>5, <3>1, <3>2, <3>4
    <2> QED
      BY <1>2, <2>1, <2>2, <2>3
  <1>10. CASE value < 0
    <2> DEFINE str == <<"-">> \o D
    <2>1. str \in Seq(DigitChars \cup {"-"}) /\ Len(str) = Len(D) + 1 /\ str[1] = "-" /\ Tail(str) = D
      BY <1>8
    <2>2. WritesNumber("d", str, value)
      <3>1. m = -value
        BY <1>3, <1>10
      <3> QED
        BY <1>7, <1>10, <2>1, <3>1 DEF WritesNumber
    <2> HIDE DEF str
    <2>3. Len(str) >= 1 /\ Len(str) + 1 <= PRINTF_BUF
      BY <1>4, <1>6, <1>8, <2>1
    <2>4. Converts(str, "d", value)
      BY <2>1, <2>2, <2>3 DEF Converts
    <2> QED
      BY <1>9, <1>10, <2>4 DEF str
  <1>11. CASE value >= 0
    <2>1. m = value /\ ~ value < 0
      BY <1>2, <1>3, <1>11
    <2>2. WritesNumber("d", D, value)
      BY <1>7, <2>1 DEF WritesNumber
    <2>3. D \in Seq(DigitChars \cup {"-"})
      BY <1>8
    <2>4. Len(D) >= 1 /\ Len(D) + 1 <= PRINTF_BUF
      BY <1>4, <1>6, <1>8
    <2>5. Converts(D, "d", value)
      BY <2>2, <2>3, <2>4 DEF Converts
    <2> QED
      BY <1>9, <2>1, <2>5
  <1> QED
    BY <1>2, <1>10, <1>11

(***************************************************************************)
(* Every conversion writes its number, in a buffer that is long enough.    *)
(***************************************************************************)
LEMMA ConvertedRight ==
  ASSUME NEW type \in {"d", "x", "o"}, NEW value \in Ints
  PROVE  Converts(Converted(type, value), type, value)
  <1>1. CASE type = "d"
    BY <1>1, CvtdecRight DEF Converted
  <1>2. CASE type = "x"
    BY <1>2, CvthexRight DEF Converted
  <1>3. CASE type = "o"
    BY <1>3, CvtoctRight DEF Converted
  <1> QED
    BY <1>1, <1>2, <1>3

-----------------------------------------------------------------------------
(* Fields *)

\* str, which stands from first to last in what is shown, and m characters of padding.
Placed(shows, first, last, m, str, width, padchar, C) ==
  /\ shows \in Seq(C) /\ m \in 0..(Len(shows) - 1) /\ last - first + 1 = Len(str)
  /\ SubSeq(shows, first, last) = str
  /\ \A k \in DOMAIN shows \ (first..last) : shows[k] = padchar
  /\ m > 0 => Len(shows) = width
  /\ Len(shows) >= width

(***************************************************************************)
(* padstr puts what is missing on the side asked for.                      *)
(***************************************************************************)
LEMMA PadstrPlaces ==
  ASSUME NEW C, NEW str \in Seq(C), str # <<>>, NEW width \in Nat, NEW padchar \in C
  PROVE  \E m \in Nat :
           LET l == Padstr(str, width, TRUE, padchar)
               r == Padstr(str, width, FALSE, padchar)
           IN  /\ Placed(l, 1, Len(l) - m, m, str, width, padchar, C)
               /\ Placed(r, m + 1, Len(r) - 0, m, str, width, padchar, C)
  <1> DEFINE extra == [i \in 1..(width - Len(str)) |-> padchar]
             l == Padstr(str, width, TRUE, padchar)
             r == Padstr(str, width, FALSE, padchar)
  <1>1. PICK len \in Nat : len = Len(str) /\ len >= 1
    OBVIOUS
  <1>2. PICK m \in Nat : m = IF width > len THEN width - len ELSE 0
    <2>1. (IF width > len THEN width - len ELSE 0) \in Nat
      OBVIOUS
    <2> QED
      BY <2>1
  <1>3. 1..(width - len) = 1..m
    BY <1>2
  <1>4. extra = [i \in 1..m |-> padchar]
    BY <1>1, <1>3
  <1>5. l = str \o extra /\ r = extra \o str
    BY DEF Padstr
  <1> HIDE DEF extra, l, r
  <1>6. extra \in Seq(C) /\ Len(extra) = m /\ \A i \in 1..m : extra[i] = padchar
    <2>1. extra \in [1..m -> C]
      BY <1>4
    <2> QED
      BY <1>4, <2>1
  <1>7. ASSUME NEW p \in Seq(C), Len(p) = len + m, NEW first \in 1..(m + 1), NEW last, last = first + len - 1,
               \A i \in 1..len : p[first + i - 1] = str[i],
               \A i \in 1..(len + m) : i < first \/ i > last => p[i] = padchar
        PROVE  Placed(p, first, last, m, str, width, padchar, C)
    <2> DEFINE part == SubSeq(p, first, last)
    <2>1. last \in Nat /\ first >= 1 /\ last <= len + m
      BY <1>7
    <2>2. part \in Seq(C) /\ Len(part) = len
      BY <1>7, <2>1
    <2>3. ASSUME NEW i \in 1..len
          PROVE  part[i] = str[i]
      <3>1. part[i] = p[first + i - 1]
        BY <1>7, <2>1
      <3> QED
        BY <1>7, <3>1
    <2> HIDE DEF part
    <2>4. part = str
      BY <1>1, <2>2, <2>3, SameSeq
    <2>5. \A k \in DOMAIN p \ (first..last) : p[k] = padchar
      <3> SUFFICES ASSUME NEW k \in DOMAIN p \ (first..last)
                   PROVE  p[k] = padchar
        OBVIOUS
      <3>1. k \in 1..(len + m)
        BY <1>7
      <3>2. k < first \/ k > last
        BY <2>1, <3>1
      <3> QED
        BY <1>7, <3>1, <3>2
    <2>6. m \in 0..(Len(p) - 1) /\ last - first + 1 = Len(str)
      BY <1>1, <1>7
    <2>7. (m > 0 => Len(p) = width) /\ Len(p) >= width
      BY <1>2, <1>7
    <2> QED
      BY <1>7, <2>4, <2>5, <2>6, <2>7 DEF Placed, part
  <1>8. Placed(l, 1, len, m, str, width, padchar, C) /\ Len(l) - m = len
    <2>1. l \in Seq(C) /\ Len(l) = len + m
      <3>1. str \o extra \in Seq(C) /\ Len(str \o extra) = Len(str) + Len(extra)
        BY <1>6
      <3> QED
        BY <1>1, <1>5, <1>6, <3>1
    <2>2. \A i \in 1..(len + m) : l[i] = IF i <= len THEN str[i] ELSE extra[i - len]
      BY <1>1, <1>5, <1>6
    <2>3. ASSUME NEW i \in 1..(len + m), i < 1 \/ i > len
          PROVE  l[i] = padchar
      <3>1. i > len /\ i - len \in 1..m
        BY <2>3
      <3> QED
        BY <1>6, <2>2, <3>1
    <2>4. ASSUME NEW i \in 1..len
          PROVE  l[1 + i - 1] = str[i]
      <3>1. 1 + i - 1 = i /\ i \in 1..(len + m) /\ i <= len
        OBVIOUS
      <3> QED
        BY <2>2, <3>1
    <2>5. 1 \in 1..(m + 1) /\ len = 1 + len - 1 /\ (len + m) - m = len
      OBVIOUS
    <2> QED
      BY <1>7, <2>1, <2>3, <2>4, <2>5
  <1>9. Placed(r, m + 1, len + m, m, str, width, padchar, C) /\ Len(r) - 0 = len + m
    <2>1. r \in Seq(C) /\ Len(r) = len + m
      <3>1. extra \o str \in Seq(C) /\ Len(extra \o str) = Len(extra) + Len(str)
        BY <1>6
      <3> QED
        BY <1>1, <1>5, <1>6, <3>1
    <2>2. \A i \in 1..(len + m) : r[i] = IF i <= m THEN extra[i] ELSE str[i - m]
      <3>1. \A i \in 1..(Len(extra) + Len(str)) :
               (extra \o str)[i] = IF i <= Len(extra) THEN extra[i] ELSE str[i - Len(extra)]
        BY <1>6
      <3>2. Len(extra) + Len(str) = len + m
        BY <1>1, <1>6
      <3> QED
        BY <1>5, <1>6, <3>1, <3>2
    <2>3. ASSUME NEW i \in 1..(len + m), i < m + 1 \/ i > len + m
          PROVE  r[i] = padchar
      <3>1. i <= m /\ i \in 1..m
        BY <2>3
      <3> QED
        BY <1>6, <2>2, <3>1
    <2>4. ASSUME NEW i \in 1..len
          PROVE  r[(m + 1) + i - 1] = str[i]
      <3>1. (m + 1) + i - 1 = i + m /\ i + m \in 1..(len + m) /\ ~ i + m <= m /\ (i + m) - m = i
        OBVIOUS
      <3> QED
        BY <2>2, <3>1
    <2>5. m + 1 \in 1..(m + 1) /\ len + m = (m + 1) + len - 1 /\ (len + m) - 0 = len + m
      OBVIOUS
    <2> QED
      BY <1>7, <2>1, <2>3, <2>4, <2>5
  <1> QED
    BY <1>8, <1>9 DEF l, r

\* A field as TextsAssumption has it, and what it is padded with.
IsField(field) ==
  /\ field.type \in {"d", "x", "o", "cut"}
  /\ field.left \in BOOLEAN /\ field.zero \in BOOLEAN /\ field.width \in Nat

PadOf(field) == IF field.zero THEN "0" ELSE " "

(***************************************************************************)
(* So what is shown is what the field asks for.                            *)
(***************************************************************************)
LEMMA PadstrShows ==
  ASSUME NEW field, IsField(field), NEW str, Converts(str, field.type, field.value)
  PROVE  /\ ShowsField(Padstr(str, field.width, field.left, PadOf(field)), field)
         /\ Padstr(str, field.width, field.left, PadOf(field)) \in Seq(DigitChars \cup {"-", "0", " "})
  <1> DEFINE C == DigitChars \cup {"-", "0", " "}
             l == Padstr(str, field.width, TRUE, PadOf(field))
             r == Padstr(str, field.width, FALSE, PadOf(field))
  <1>1. str \in Seq(DigitChars \cup {"-"}) /\ Len(str) >= 1 /\ Len(str) + 1 <= PRINTF_BUF
        /\ WritesNumber(field.type, str, field.value)
    BY DEF Converts
  <1>2. str \in Seq(C) /\ str # <<>>
    <2> DEFINE B == DigitChars \cup {"-"}
    <2>1. B \subseteq C
      OBVIOUS
    <2>2. str \in Seq(B) /\ Len(str) >= 1
      BY <1>1
    <2> HIDE DEF B, C
    <2>3. str \in Seq(C)
      BY <2>1, <2>2
    <2>4. str # <<>>
      BY <2>2
    <2> QED
      BY <2>3, <2>4
  <1>3. PadOf(field) \in C /\ field.width \in Nat /\ field.left \in BOOLEAN
    <2>1. PadOf(field) = "0" \/ PadOf(field) = " "
      BY DEF PadOf
    <2> QED
      BY <2>1 DEF IsField
  <1> HIDE DEF C
  <1>4. PICK m \in Nat : /\ Placed(l, 1, Len(l) - m, m, str, field.width, PadOf(field), C)
                         /\ Placed(r, m + 1, Len(r) - 0, m, str, field.width, PadOf(field), C)
    BY <1>2, <1>3, PadstrPlaces
  <1> HIDE DEF l, r
  <1>5. ASSUME NEW p, NEW first, NEW last, Placed(p, first, last, m, str, field.width, PadOf(field), C)
        PROVE  /\ p \in Seq(C) /\ m \in 0..(Len(p) - 1) /\ last - first + 1 < PRINTF_BUF
               /\ WritesNumber(field.type, SubSeq(p, first, last), field.value)
               /\ \A k \in DOMAIN p \ (first..last) : p[k] = PadOf(field)
               /\ m > 0 => Len(p) = field.width
               /\ Len(p) >= field.width
    <2>1. last - first + 1 = Len(str) /\ PRINTF_BUF \in Nat
      BY <1>5, FormatAssumption DEF Placed
    <2>2. last - first + 1 < PRINTF_BUF
      BY <1>1, <2>1
    <2>3. SubSeq(p, first, last) = str
      BY <1>5 DEF Placed
    <2>4. WritesNumber(field.type, SubSeq(p, first, last), field.value)
      BY <1>1, <2>3, Zenon
    <2> QED
      BY <1>5, <2>2, <2>4 DEF Placed
  <1>6. CASE field.left = TRUE
    <2>1. ShowsField(l, field)
      BY <1>4, <1>5, <1>6, Zenon DEF ShowsField, PadOf
    <2> QED
      BY <1>4, <1>5, <1>6, <2>1, Zenon DEF l, C
  <1>7. CASE field.left = FALSE
    <2>1. ShowsField(r, field)
      BY <1>4, <1>5, <1>7, Zenon DEF ShowsField, PadOf
    <2> QED
      BY <1>4, <1>5, <1>7, <2>1, Zenon DEF r, C
  <1> QED
    BY <1>3, <1>6, <1>7, Zenon

\* What a field is written as, after the `%': each part that is there.
Alignment(field) == IF field.left THEN <<"-">> ELSE <<>>
Fill(field) == IF field.zero THEN <<"0">> ELSE <<>>
Width(field) == IF field.width = 0 THEN <<>> ELSE Decimal[field.width]
Letter(field) == IF field.type = "cut" THEN <<>> ELSE <<field.type>>

\* The characters a format string consists of.
Glyphs(text) == DigitChars \cup {"-", "0", " ", "%", "d", "x", "o"} \cup {text[i].char : i \in DOMAIN text}

(***************************************************************************)
(* A sequence is one of elements of any larger set.                        *)
(***************************************************************************)
LEMMA SeqWider ==
  ASSUME NEW A, NEW B, A \subseteq B, NEW s \in Seq(A)
  PROVE  s \in Seq(B)
  OBVIOUS

(***************************************************************************)
(* FormatOf puts these parts one behind the other.                         *)
(***************************************************************************)
LEMMA FieldParts ==
  ASSUME NEW field, IsField(field), NEW text
  PROVE  /\ Alignment(field) = (IF field.left = TRUE THEN <<"-">> ELSE <<>>)
         /\ Fill(field) = (IF field.zero = TRUE THEN <<"0">> ELSE <<>>)
         /\ Alignment(field) \in Seq(Glyphs(text)) /\ Fill(field) \in Seq(Glyphs(text))
         /\ Letter(field) \in Seq(Glyphs(text))
         /\ Width(field) \in Seq(DecimalChars) /\ Width(field) \in Seq(Glyphs(text))
         /\ (Width(field) # <<>> => Width(field)[1] # "0") /\ Writes(Width(field), 10, field.width)
         /\ FormatOf(field) =
                (((<<"%">> \o Alignment(field)) \o Fill(field)) \o Width(field)) \o Letter(field)
  <1>1. Alignment(field) = (IF field.left = TRUE THEN <<"-">> ELSE <<>>)
    <2>1. field.left = TRUE \/ field.left = FALSE
      BY Zenon DEF IsField
    <2> QED
      BY <2>1, Zenon DEF Alignment
  <1>2. Fill(field) = (IF field.zero = TRUE THEN <<"0">> ELSE <<>>)
    <2>1. field.zero = TRUE \/ field.zero = FALSE
      BY Zenon DEF IsField
    <2> QED
      BY <2>1, Zenon DEF Fill
  <1>3. {"-", "0", " ", "%", "d", "x", "o"} \subseteq Glyphs(text) /\ DigitChars \subseteq Glyphs(text)
    BY DEF Glyphs
  <1>4. "-" \in Glyphs(text) /\ "0" \in Glyphs(text) /\ "d" \in Glyphs(text) /\ "x" \in Glyphs(text)
        /\ "o" \in Glyphs(text)
    BY <1>3
  <1>5. \A c \in Glyphs(text) : <<c>> \in Seq(Glyphs(text))
    OBVIOUS
  <1>6. <<>> \in Seq(Glyphs(text))
    OBVIOUS
  <1>7. field.type \in {"d", "x", "o", "cut"} /\ field.width \in Nat
    BY Zenon DEF IsField
  <1>8. Alignment(field) \in Seq(Glyphs(text))
    BY <1>4, <1>5, <1>6, Zenon DEF Alignment
  <1>9. Fill(field) \in Seq(Glyphs(text))
    BY <1>4, <1>5, <1>6, Zenon DEF Fill
  <1>10. Letter(field) \in Seq(Glyphs(text))
    <2>1. field.type # "cut" => field.type \in Glyphs(text)
      BY <1>4, <1>7
    <2> QED
      BY <1>5, <1>6, <2>1, Zenon DEF Letter
  <1>11. DecimalOf(Decimal[field.width], field.width)
    BY <1>7, DecimalWrites
  <1>12. /\ Width(field) \in Seq(DecimalChars) /\ (Width(field) # <<>> => Width(field)[1] # "0")
         /\ Writes(Width(field), 10, field.width)
    <2>1. CASE field.width = 0
      <3>1. Width(field) = <<>>
        BY <2>1 DEF Width
      <3>2. Writes(<<>>, 10, 0) /\ <<>> \in Seq(DecimalChars)
        BY WritesNone
      <3> QED
        BY <2>1, <3>1, <3>2, Zenon
    <2>2. CASE field.width # 0
      <3>1. Width(field) = Decimal[field.width]
        BY <2>2 DEF Width
      <3>2. Decimal[field.width][1] # "0"
        BY <1>11, <2>2 DEF DecimalOf
      <3> QED
        BY <1>11, <3>1, <3>2, Zenon DEF DecimalOf
    <2> QED
      BY <2>1, <2>2
  <1>13. Width(field) \in Seq(Glyphs(text))
    <2>1. Width(field) \in Seq(DigitChars)
      BY <1>12 DEF Writes
    <2> QED
      BY <1>3, <2>1, SeqWider
  <1>14. FormatOf(field) = (((<<"%">> \o Alignment(field)) \o Fill(field)) \o Width(field)) \o Letter(field)
    <2>1. field.type # "char"
      BY <1>7
    <2> QED
      BY <2>1, Zenon DEF FormatOf, Alignment, Fill, Width, Letter
  <1> QED
    BY <1>1, <1>2, <1>8, <1>9, <1>10, <1>12, <1>13, <1>14

\* How many decimal digits str begins with.
IsWidth(n, str) ==
  LET ends == {i \in 0..Len(str) : \A j \in 1..i : IsDecimal(str[j])}
  IN  n = CHOOSE i \in ends : \A j \in ends : j <= i

\* R is what follows the width: nothing, or a type and the rest.
Begins(R, type, rest) == R = <<>> \/ R = <<type>> \o rest

Splits(n, s, W, R, type, rest) ==
  /\ n = Len(W) /\ SubSeq(s, 1, n) = W
  /\ IF R = <<>> THEN n = Len(s)
     ELSE n < Len(s) /\ s[n + 1] = type /\ SubSeq(s, n + 2, Len(s)) = rest

(***************************************************************************)
(* The width ends where the type begins, or the string.                    *)
(***************************************************************************)
LEMMA WidthEnds ==
  ASSUME NEW S, NEW W \in Seq(DecimalChars), W \in Seq(S), NEW type, type \in {"d", "x", "o"},
         NEW rest \in Seq(S),
         NEW R \in Seq(S), Begins(R, type, rest), NEW n, IsWidth(n, W \o R)
  PROVE  Splits(n, W \o R, W, R, type, rest)
  <1> DEFINE s == W \o R
             ends == {i \in 0..Len(s) : \A j \in 1..i : IsDecimal(s[j])}
  <1>1. PICK m \in Nat, r \in Nat : m = Len(W) /\ r = Len(R)
    OBVIOUS
  <1>2. s \in Seq(S) /\ Len(s) = m + r /\ \A i \in 1..(m + r) : s[i] = IF i <= m THEN W[i] ELSE R[i - m]
    BY <1>1, ConcatProperties
  <1>3. n = CHOOSE i \in ends : \A j \in ends : j <= i
    BY DEF IsWidth
  <1> HIDE DEF s
  <1>4. m \in ends
    <2>1. \A j \in 1..m : W[j] \in DecimalChars
      BY <1>1
    <2>2. \A c \in DecimalChars : IsDecimal(c)
      BY DEF DecimalChars, IsDecimal
    <2>3. \A j \in 1..m : j \in 1..(m + r) /\ j <= m
      OBVIOUS
    <2>4. \A j \in 1..m : IsDecimal(s[j])
      BY <1>2, <2>1, <2>2, <2>3
    <2> QED
      BY <1>2, <2>4
  <1>5. R # <<>> => r >= 1 /\ R[1] = type /\ SubSeq(R, 2, r) = rest
    <2> SUFFICES ASSUME R # <<>> PROVE r >= 1 /\ R[1] = type /\ SubSeq(R, 2, r) = rest
      OBVIOUS
    <2>1. R = <<type>> \o rest
      BY DEF Begins
    <2>2. Len(R) = 1 + Len(rest) /\ R[1] = type /\ \A i \in 2..(1 + Len(rest)) : R[i] = rest[i - 1]
      BY <2>1
    <2> DEFINE t == SubSeq(R, 2, r)
    <2>3. t \in Seq(S) /\ Len(t) = Len(rest) /\ \A i \in 1..Len(rest) : t[i] = R[i + 1]
      BY <1>1, <2>2
    <2>4. \A i \in 1..Len(rest) : i + 1 \in 2..(1 + Len(rest)) /\ (i + 1) - 1 = i
      OBVIOUS
    <2> HIDE DEF t
    <2>5. \A i \in 1..Len(rest) : t[i] = rest[i]
      BY <2>2, <2>3, <2>4
    <2>6. t = rest
      BY <2>3, <2>5, SameSeq
    <2> QED
      BY <1>1, <2>2, <2>6 DEF t
  <1>6. ASSUME NEW i \in ends
        PROVE  i <= m
    <2> SUFFICES ASSUME i > m PROVE FALSE
      OBVIOUS
    <2>1. i \in Nat /\ m + 1 \in 1..i /\ m + 1 \in 1..(m + r) /\ r >= 1
      BY <1>2
    <2>2. IsDecimal(s[m + 1])
      BY <1>6, <2>1
    <2>3. R # <<>>
      BY <1>1, <2>1
    <2>4. ~ m + 1 <= m /\ (m + 1) - m = 1
      OBVIOUS
    <2>5. s[m + 1] = type
      BY <1>2, <1>5, <2>1, <2>3, <2>4
    <2>6. \A d \in 0..9 : Digit(d) \notin {"d", "x", "o"}
      BY DigitFacts
    <2> QED
      BY <2>2, <2>5, <2>6 DEF IsDecimal
  <1>7. ends \subseteq Nat
    BY <1>2
  <1> HIDE DEF ends
  <1>8. n \in ends /\ \A j \in ends : j <= n
    <2>1. m \in ends /\ \A j \in ends : j <= m
      BY <1>4, <1>6
    <2> QED
      BY <1>3, <2>1, Zenon
  <1>9. n = m
    <2>1. n \in Nat /\ n <= m
      BY <1>6, <1>7, <1>8
    <2>2. m <= n
      BY <1>4, <1>8, Zenon
    <2> QED
      BY <2>1, <2>2
  <1>10. SubSeq(s, 1, m) = W
    <2> DEFINE t == SubSeq(s, 1, m)
    <2>1. t \in Seq(S) /\ Len(t) = m /\ \A i \in 1..m : t[i] = s[i]
      BY <1>2
    <2>2. \A i \in 1..m : i \in 1..(m + r) /\ i <= m
      OBVIOUS
    <2> HIDE DEF t
    <2>3. \A i \in 1..m : t[i] = W[i]
      BY <1>2, <2>1, <2>2
    <2>4. t = W
      BY <1>1, <2>1, <2>3, SameSeq
    <2> QED
      BY <2>4 DEF t
  <1>11. CASE R = <<>>
    <2>1. Len(s) = m
      <3>1. Len(<<>>) = 0
        OBVIOUS
      <3>2. r = 0
        BY <1>1, <1>11, <3>1, Zenon
      <3> QED
        BY <1>2, <3>2
    <2>2. n = Len(W) /\ SubSeq(s, 1, n) = W /\ n = Len(s)
      BY <1>1, <1>9, <1>10, <2>1, Zenon
    <2> QED
      BY <1>11, <2>2, Zenon DEF s, Splits
  <1>12. CASE R # <<>>
    <2>1. n < Len(s)
      BY <1>2, <1>5, <1>9, <1>12
    <2>2. s[n + 1] = type
      <3>1. m + 1 \in 1..(m + r) /\ ~ m + 1 <= m /\ (m + 1) - m = 1
        BY <1>5, <1>12
      <3> QED
        BY <1>2, <1>5, <1>9, <1>12, <3>1
    <2>3. SubSeq(s, n + 2, Len(s)) = rest
      <3> DEFINE t == SubSeq(s, m + 2, m + r)
                 u == SubSeq(R, 2, r)
      <3>1. r >= 1 /\ u = rest
        BY <1>5, <1>12
      <3>2. t \in Seq(S) /\ Len(t) = r - 1 /\ \A i \in 1..(r - 1) : t[i] = s[m + 1 + i]
        BY <1>2, <3>1
      <3>3. u \in Seq(S) /\ Len(u) = r - 1 /\ \A i \in 1..(r - 1) : u[i] = R[1 + i]
        BY <1>1, <3>1
      <3>4. \A i \in 1..(r - 1) : m + 1 + i \in 1..(m + r) /\ ~ m + 1 + i <= m /\ (m + 1 + i) - m = 1 + i
        OBVIOUS
      <3>5. \A i \in 1..(r - 1) : s[m + 1 + i] = R[1 + i]
        BY <1>2, <3>4
      <3> HIDE DEF t, u
      <3>6. t = u
        <4>1. Len(t) = Len(u) /\ \A i \in 1..Len(t) : t[i] = u[i]
          BY <3>2, <3>3, <3>5
        <4> QED
          BY <3>2, <3>3, <4>1, SameSeq
      <3> QED
        BY <1>2, <1>9, <3>1, <3>6 DEF t
    <2>4. n = Len(W) /\ SubSeq(s, 1, n) = W
      BY <1>1, <1>9, <1>10, Zenon
    <2> QED
      BY <1>12, <2>1, <2>2, <2>3, <2>4, Zenon DEF s, Splits
  <1> QED
    BY <1>11, <1>12

NotFirst(c, s) == s # <<>> => s[1] # c

Skips(t, c, s, p) ==
  /\ (IF t # <<>> /\ t[1] = c THEN Tail(t) ELSE t) = s
  /\ t # <<>> => t[1] = c \/ (s # <<>> /\ t[1] = s[1])
  /\ p = <<>> => t = s
  /\ p = <<c>> => t # s

(***************************************************************************)
(* Skipping a character that may be in front of what does not begin with   *)
(* it.                                                                     *)
(***************************************************************************)
LEMMA Skipped ==
  ASSUME NEW S, NEW s \in Seq(S), NEW c \in S, NotFirst(c, s), NEW p \in {<<>>, <<c>>}, NEW t, t = p \o s
  PROVE  Skips(t, c, s, p)
  <1>1. CASE p = <<>>
    <2>1. t = s
      BY <1>1
    <2>2. <<c>> # <<>>
      OBVIOUS
    <2> QED
      BY <1>1, <2>1, <2>2, Zenon DEF Skips, NotFirst
  <1>2. CASE p = <<c>>
    <2>1. <<c>> \in Seq(S) /\ Len(<<c>>) = 1 /\ <<c>>[1] = c /\ <<c>> # <<>>
      OBVIOUS
    <2>2. t \in Seq(S) /\ Len(t) = 1 + Len(s) /\ t[1] = c
      BY <1>2, <2>1
    <2>3. t # <<>> /\ t # s
      BY <2>2
    <2>4. Tail(t) = s
      <3> DEFINE u == Tail(t)
      <3>1. u \in Seq(S) /\ Len(u) = Len(s) /\ \A i \in 1..Len(s) : u[i] = t[i + 1]
        BY <2>2, <2>3
      <3>2. \A i \in 1..Len(s) : t[i + 1] = s[i]
        BY <1>2
      <3> HIDE DEF u
      <3>3. u = s
        BY <3>1, <3>2, SameSeq
      <3> QED
        BY <3>3 DEF u
    <2> QED
      BY <1>2, <2>1, <2>2, <2>3, <2>4, Zenon DEF Skips
  <1> QED
    BY <1>1, <1>2

(***************************************************************************)
(* The parts of a directive, whichever way they are put together.          *)
(***************************************************************************)
IsJoin(xy, x, y) == xy = x \o y

(***************************************************************************)
(* Concatenation is associative, of sequences that have names.             *)
(***************************************************************************)
LEMMA Associative ==
  ASSUME NEW S, NEW x \in Seq(S), NEW y \in Seq(S), NEW u \in Seq(S), NEW xy, NEW yu, IsJoin(xy, x, y),
         IsJoin(yu, y, u), NEW v, IsJoin(v, xy, u)
  PROVE  IsJoin(v, x, yu)
  <1>1. (x \o y) \o u = x \o (y \o u)
    BY ConcatAssociative, SMTT(60)
  <1> QED
    BY <1>1, Zenon DEF IsJoin

(***************************************************************************)
(* What is joined of elements of a set is of its elements.                 *)
(***************************************************************************)
LEMMA InSeq ==
  ASSUME NEW S, NEW x \in Seq(S), NEW y \in Seq(S), NEW xy, IsJoin(xy, x, y)
  PROVE  xy \in Seq(S)
  BY ConcatProperties DEF IsJoin

Same(p, a, z, w, e, r) == ((((p \o a) \o z) \o w) \o e) \o r = p \o (a \o (z \o (w \o (e \o r))))

(***************************************************************************)
(* So the parts of a directive may be put together from the front or from  *)
(* the back.                                                               *)
(***************************************************************************)
LEMMA Reassociated ==
  ASSUME NEW S, NEW p \in Seq(S), NEW a \in Seq(S), NEW z \in Seq(S), NEW w \in Seq(S), NEW e \in Seq(S),
         NEW r \in Seq(S)
  PROVE  Same(p, a, z, w, e, r)
  <1> DEFINE pa == p \o a
             paz == pa \o z
             pazw == paz \o w
             er == e \o r
             wer == w \o er
             zwer == z \o wer
             all == (pazw \o e) \o r
             pazwe == pazw \o e
             azwer == a \o zwer
  <1>1. /\ IsJoin(pa, p, a) /\ IsJoin(paz, pa, z) /\ IsJoin(pazw, paz, w) /\ IsJoin(er, e, r)
             /\ IsJoin(wer, w, er)
        /\ IsJoin(zwer, z, wer) /\ IsJoin(pazwe, pazw, e) /\ IsJoin(all, pazwe, r) /\ IsJoin(azwer, a, zwer)
    BY Zenon DEF IsJoin
  <1> HIDE DEF pa, paz, pazw, er, wer, zwer, all, pazwe, azwer
  <1>2. pa \in Seq(S) /\ er \in Seq(S)
    BY <1>1, InSeq
  <1>3. paz \in Seq(S) /\ wer \in Seq(S)
    BY <1>1, <1>2, InSeq
  <1>4. pazw \in Seq(S) /\ zwer \in Seq(S)
    BY <1>1, <1>3, InSeq
  <1>5. IsJoin(all, pazw, er)
    BY <1>1, <1>4, Associative
  <1>6. IsJoin(all, paz, wer)
    BY <1>1, <1>2, <1>3, <1>5, Associative
  <1>7. IsJoin(all, pa, zwer)
    BY <1>1, <1>2, <1>3, <1>6, Associative
  <1>8. IsJoin(all, p, azwer)
    BY <1>1, <1>4, <1>7, Associative
  <1> QED
    BY <1>8, Zenon DEF Same, IsJoin, pa, paz, pazw, er, wer, zwer, all, pazwe, azwer

\* What Directive has from the string, and from what is left of it after the alignment and
\* after the fill.
Gathered(str, s1, s2) ==
  LET ends == {i \in 0..Len(s2) : \A j \in 1..i : IsDecimal(s2[j])}
      n == CHOOSE i \in ends : \A j \in ends : j <= i
  IN  [left |-> s1 # str,
       padchar |-> IF s2 # s1 THEN "0" ELSE " ",
       width |-> NumberOf(SubSeq(s2, 1, n), 10),
       type |-> IF n < Len(s2) THEN <<s2[n + 1]>> ELSE <<>>,
       rest |-> SubSeq(s2, n + 2, Len(s2))]

\* What __c_do_printf gathers from a directive, before this rest of the string.
Reads(d, field, rest) ==
  /\ d.left = field.left /\ d.padchar = PadOf(field) /\ d.width = field.width
  /\ IF field.type = "cut" THEN d.type = <<>> ELSE d.type = <<field.type>> /\ d.rest = rest

(***************************************************************************)
(* A directive is read as it was written, up to what follows it; one       *)
(* without a type is the last.                                             *)
(***************************************************************************)
LEMMA DirectiveReads ==
  ASSUME NEW text, NEW field, IsField(field), NEW rest \in Seq(Glyphs(text)),
         field.type = "cut" => rest = <<>>
  PROVE  LET str == FormatOf(field) \o rest
         IN  /\ str \in Seq(Glyphs(text)) /\ str # <<>> /\ str[1] = "%"
             /\ Reads(Directive(Tail(str)), field, rest)
  <1> DEFINE S == Glyphs(text)
             A == Alignment(field)
             Z == Fill(field)
             W == Width(field)
             E == Letter(field)
             R == E \o rest
             s2 == W \o R
             s1 == Z \o s2
             s0 == A \o s1
             str == FormatOf(field) \o rest
             type == field.type
  <1>1. {"-", "0", " ", "%", "d", "x", "o"} \subseteq S
    BY DEF Glyphs
  <1>2. "-" \in S /\ "0" \in S /\ "%" \in S
    BY <1>1
  <1> HIDE DEF S
  <1>3. /\ A = (IF field.left = TRUE THEN <<"-">> ELSE <<>>)
             /\ Z = (IF field.zero = TRUE THEN <<"0">> ELSE <<>>)
        /\ A \in Seq(S) /\ Z \in Seq(S) /\ E \in Seq(S) /\ W \in Seq(DecimalChars) /\ W \in Seq(S)
        /\ (W # <<>> => W[1] # "0") /\ Writes(W, 10, field.width)
        /\ FormatOf(field) = (((<<"%">> \o A) \o Z) \o W) \o E
    BY FieldParts DEF S
  <1>4. type \in {"d", "x", "o", "cut"} /\ (type # "cut" => type \in {"d", "x", "o"})
        /\ (field.left = TRUE \/ field.left = FALSE) /\ (field.zero = TRUE \/ field.zero = FALSE)
    <2>1. type \in {"d", "x", "o", "cut"} /\ (field.left = TRUE \/ field.left = FALSE)
          /\ (field.zero = TRUE \/ field.zero = FALSE)
      BY Zenon DEF IsField
    <2> QED
      BY <2>1
  <1>5. rest \in Seq(S)
    BY DEF S
  <1>6. E = IF type = "cut" THEN <<>> ELSE <<type>>
    BY Zenon DEF Letter
  <1> HIDE DEF A, Z, W, E
  <1>7. R \in Seq(S)
    BY <1>3, <1>5
  <1> HIDE DEF R
  <1>8. s2 \in Seq(S)
    BY <1>3, <1>7
  <1> HIDE DEF s2
  <1>9. s1 \in Seq(S)
    BY <1>3, <1>8
  <1> HIDE DEF s1
  <1>10. s0 \in Seq(S)
    BY <1>3, <1>9
  <1> HIDE DEF s0
  <1>11. str = <<"%">> \o s0
    <2>1. <<"%">> \in Seq(S)
      <3>1. \A c \in S : <<c>> \in Seq(S)
        OBVIOUS
      <3> QED
        BY <1>2, <3>1, Zenon
    <2>2. Same(<<"%">>, A, Z, W, E, rest)
      BY <1>3, <1>5, <2>1, Reassociated
    <2> QED
      BY <1>3, <2>2, Zenon DEF Same, s0, s1, s2, R
  <1> HIDE DEF str
  <1>12. R = <<>> \/ R = <<type>> \o rest
    BY <1>5, <1>6 DEF R
  <1>13. R = <<>> <=> type = "cut"
    <2>1. CASE type = "cut"
      BY <1>6, <2>1 DEF R
    <2>2. CASE type # "cut"
      <3>1. R = <<type>> \o rest
        BY <1>6, <2>2, Zenon DEF R
      <3>2. Len(R) = 1 + Len(rest)
        BY <1>5, <3>1
      <3>3. R # <<>>
        BY <1>5, <3>2
      <3> QED
        BY <2>2, <3>3
    <2> QED
      BY <2>1, <2>2
  <1>14. s2 # <<>> => s2[1] # "-" /\ s2[1] # "0"
    <2> SUFFICES ASSUME s2 # <<>> PROVE s2[1] # "-" /\ s2[1] # "0"
      OBVIOUS
    <2>1. CASE W # <<>>
      <3>1. s2[1] = W[1] /\ W[1] \in DecimalChars
        BY <1>3, <1>7, <2>1 DEF s2
      <3>2. PICK d \in 0..9 : s2[1] = Digit(d)
        BY <3>1 DEF DecimalChars
      <3>3. d \in 0..15
        OBVIOUS
      <3>4. Digit(d) # "-"
        BY <3>3, DigitFacts
      <3> QED
        BY <1>3, <2>1, <3>1, <3>2, <3>4
    <2>2. CASE W = <<>>
      <3>1. s2 = R
        BY <1>7, <2>2 DEF s2
      <3>2. R = <<type>> \o rest /\ type # "cut"
        BY <1>12, <1>13, <3>1
      <3>3. s2[1] = type
        BY <1>5, <3>1, <3>2
      <3> QED
        BY <1>4, <3>2, <3>3
    <2> QED
      BY <2>1, <2>2
  <1> DEFINE skip(s, c) == IF s # <<>> /\ s[1] = c THEN Tail(s) ELSE s
  <1>15. /\ skip(s1, "0") = s2 /\ (s1 # <<>> => s1[1] # "-") /\ (field.zero = FALSE => s1 = s2)
         /\ (field.zero = TRUE => s1 # s2)
    <2>1. Z \in {<<>>, <<"0">>} /\ NotFirst("0", s2)
      BY <1>3, <1>14 DEF NotFirst
    <2>2. Skips(s1, "0", s2, Z)
      BY <1>2, <1>8, <2>1, Skipped DEF s1
    <2>3. /\ skip(s1, "0") = s2 /\ (s1 # <<>> => s1[1] = "0" \/ (s2 # <<>> /\ s1[1] = s2[1]))
          /\ (Z = <<>> => s1 = s2) /\ (Z = <<"0">> => s1 # s2)
      BY <2>2, Zenon DEF Skips
    <2>4. "0" # "-"
      OBVIOUS
    <2>5. s1 # <<>> => s1[1] # "-"
      BY <1>14, <2>3, <2>4, Zenon
    <2>6. field.zero = FALSE => field.zero # TRUE
      BY Zenon
    <2> QED
      BY <1>3, <2>3, <2>5, <2>6, Zenon
  <1>16. skip(s0, "-") = s1 /\ (field.left = FALSE => s0 = s1) /\ (field.left = TRUE => s0 # s1)
    <2>1. A \in {<<>>, <<"-">>} /\ NotFirst("-", s1)
      BY <1>3, <1>15 DEF NotFirst
    <2>2. Skips(s0, "-", s1, A)
      BY <1>2, <1>9, <2>1, Skipped DEF s0
    <2>3. skip(s0, "-") = s1 /\ (A = <<>> => s0 = s1) /\ (A = <<"-">> => s0 # s1)
      BY <2>2, Zenon DEF Skips
    <2>4. field.left = FALSE => field.left # TRUE
      BY Zenon
    <2> QED
      BY <1>3, <2>3, <2>4, Zenon
  <1>17. str \in Seq(S) /\ str # <<>> /\ str[1] = "%" /\ Tail(str) = s0
    <2>1. <<"%">> # <<>> /\ <<"%">> \in Seq(S)
      BY <1>2
    <2>2. str \in Seq(S) /\ Len(str) = 1 + Len(s0) /\ str[1] = "%" /\ \A i \in 1..Len(s0) : str[i + 1] = s0[i]
      BY <1>10, <1>11, <2>1
    <2>3. str # <<>>
      BY <1>10, <2>2
    <2> DEFINE u == Tail(str)
    <2>4. u \in Seq(S) /\ Len(u) = Len(s0) /\ \A i \in 1..Len(s0) : u[i] = str[i + 1]
      BY <1>10, <2>2, <2>3
    <2> HIDE DEF u
    <2>5. u = s0
      BY <1>10, <2>2, <2>4, SameSeq
    <2> QED
      BY <2>2, <2>3, <2>5 DEF u
  <1> HIDE DEF skip
  <1> DEFINE ends == {i \in 0..Len(s2) : \A j \in 1..i : IsDecimal(s2[j])}
             n == CHOOSE i \in ends : \A j \in ends : j <= i
             d == [left |-> s1 # s0, padchar |-> IF s2 # s1 THEN "0" ELSE " ",
                   width |-> NumberOf(SubSeq(s2, 1, n), 10),
                   type |-> IF n < Len(s2) THEN <<s2[n + 1]>> ELSE <<>>,
                   rest |-> SubSeq(s2, n + 2, Len(s2))]
  <1>18. Directive(s0) = d
    <2>1. Directive(s0) = Gathered(s0, skip(s0, "-"), skip(skip(s0, "-"), "0"))
      BY Zenon DEF Directive, Gathered, skip
    <2>2. Directive(s0) = Gathered(s0, s1, s2)
      BY <1>15, <1>16, <2>1, Zenon
    <2> QED
      BY <2>2, Zenon DEF Gathered
  <1>19. IsWidth(n, s2)
    BY Zenon DEF IsWidth
  <1> HIDE DEF n
  <1>20. /\ n = Len(W) /\ SubSeq(s2, 1, n) = W
         /\ IF R = <<>> THEN n = Len(s2)
            ELSE n < Len(s2) /\ s2[n + 1] = type /\ SubSeq(s2, n + 2, Len(s2)) = rest
    <2>1. CASE type # "cut"
      <3>1. Begins(R, type, rest) /\ IsWidth(n, W \o R)
        BY <1>12, <1>19 DEF Begins, s2
      <3>2. Splits(n, W \o R, W, R, type, rest)
        BY <1>3, <1>4, <1>5, <1>7, <2>1, <3>1, WidthEnds
      <3> QED
        BY <3>2, Zenon DEF Splits, s2
    <2>2. CASE type = "cut"
      <3>1. Begins(R, "d", rest) /\ IsWidth(n, W \o R)
        BY <1>13, <1>19, <2>2 DEF Begins, s2
      <3>2. "d" \in {"d", "x", "o"}
        OBVIOUS
      <3>3. Splits(n, W \o R, W, R, "d", rest)
        BY <1>3, <1>5, <1>7, <3>1, <3>2, WidthEnds
      <3> QED
        BY <1>13, <2>2, <3>3, Zenon DEF Splits, s2
    <2> QED
      BY <2>1, <2>2
  <1>21. NumberOf(W, 10) = field.width
    BY <1>3, WritesIs
  <1>22. d.left = field.left
    <2>1. d.left = (s1 # s0)
      BY Zenon
    <2> QED
      BY <1>4, <1>16, <2>1, Zenon
  <1>23. d.padchar = PadOf(field)
    <2>1. d.padchar = IF s2 # s1 THEN "0" ELSE " "
      BY Zenon
    <2> QED
      BY <1>4, <1>15, <2>1, Zenon DEF PadOf
  <1>24. d.width = field.width
    BY <1>20, <1>21, Zenon
  <1>25. IF type = "cut" THEN d.type = <<>> ELSE d.type = <<type>> /\ d.rest = rest
    <2>1. d.type = (IF n < Len(s2) THEN <<s2[n + 1]>> ELSE <<>>) /\ d.rest = SubSeq(s2, n + 2, Len(s2))
      BY Zenon
    <2>2. CASE type = "cut"
      <3>1. ~ n < Len(s2)
        BY <1>8, <1>13, <1>20, <2>2
      <3> QED
        BY <2>1, <2>2, <3>1, Zenon
    <2>3. CASE type # "cut"
      BY <1>13, <1>20, <2>1, <2>3, Zenon
    <2> QED
      BY <2>2, <2>3
  <1> HIDE DEF d
  <1>26. Reads(d, field, rest)
    BY <1>22, <1>23, <1>24, <1>25, Zenon DEF Reads
  <1> QED
    BY <1>17, <1>18, <1>26, Zenon DEF str, S

-----------------------------------------------------------------------------
(* What is left of a text *)

\* rest has, for each piece of a text, what is behind it: all is the joined pieces, and what is
\* behind a piece ends all.
Rests(rest, seqs, S) ==
  /\ rest \in [0..Len(seqs) -> Seq(S)]
  /\ rest[0] = Joined(seqs) /\ rest[Len(seqs)] = <<>>
  /\ \A k \in 0..(Len(seqs) - 1) : rest[k] = seqs[k + 1] \o rest[k + 1]
  /\ \A k \in 0..Len(seqs) :
       /\ Len(rest[k]) <= Len(rest[0])
       /\ \A i \in 1..Len(rest[k]) : rest[0][Len(rest[0]) - Len(rest[k]) + i] = rest[k][i]

\* The pieces up to each, joined.
Joins(f, seqs, S) ==
  /\ \A k \in 0..Len(seqs) : f[k] \in Seq(S)
  /\ f[0] = <<>>
  /\ \A k \in 0..(Len(seqs) - 1) : f[k + 1] = f[k] \o seqs[k + 1]

\* What concatenation and taking an end are, element by element.
JoinFacts(xy, x, y, m, n, S) ==
  /\ xy \in Seq(S) /\ Len(xy) = m + n
  /\ \A i \in 1..m : xy[i] = x[i]
  /\ \A i \in 1..n : xy[m + i] = y[i]

EndFacts(t, s, l, N, S) == t \in Seq(S) /\ Len(t) = N - l /\ \A i \in 1..(N - l) : t[i] = s[l + i]

(***************************************************************************)
(* A concatenation, element by element.                                    *)
(***************************************************************************)
LEMMA JoinIs ==
  ASSUME NEW S, NEW x \in Seq(S), NEW y \in Seq(S), NEW xy, IsJoin(xy, x, y), NEW m \in Nat, m = Len(x),
         NEW n \in Nat, n = Len(y)
  PROVE  JoinFacts(xy, x, y, m, n, S)
  <1>1. xy = x \o y
    BY DEF IsJoin
  <1>2. xy \in Seq(S) /\ Len(xy) = m + n /\ \A i \in 1..(m + n) : xy[i] = IF i <= m THEN x[i] ELSE y[i - m]
    BY <1>1, ConcatProperties
  <1>3. \A i \in 1..m : i \in 1..(m + n) /\ i <= m
    OBVIOUS
  <1>4. \A i \in 1..n : m + i \in 1..(m + n) /\ ~ m + i <= m /\ (m + i) - m = i
    OBVIOUS
  <1>5. ASSUME NEW i \in 1..m
        PROVE  xy[i] = x[i]
    BY <1>2, <1>3
  <1>6. ASSUME NEW i \in 1..n
        PROVE  xy[m + i] = y[i]
    <2>1. xy[m + i] = IF m + i <= m THEN x[m + i] ELSE y[(m + i) - m]
      BY <1>2, <1>4
    <2> QED
      BY <1>4, <2>1
  <1> QED
    BY <1>2, <1>5, <1>6 DEF JoinFacts

(***************************************************************************)
(* The end of a sequence, element by element.                              *)
(***************************************************************************)
LEMMA EndIs ==
  ASSUME NEW S, NEW s \in Seq(S), NEW N \in Nat, N = Len(s), NEW l \in Nat, l <= N, NEW t,
         t = SubSeq(s, l + 1, N)
  PROVE  EndFacts(t, s, l, N, S)
  BY DEF EndFacts

(***************************************************************************)
(* Joined is what its recursion makes of all the sequences.                *)
(***************************************************************************)
LEMMA JoinsExist ==
  ASSUME NEW S, NEW seqs \in Seq(Seq(S))
  PROVE  \E f : Joins(f, seqs, S) /\ Joined(seqs) = f[Len(seqs)]
  <1>1. PICK n \in Nat : n = Len(seqs)
    OBVIOUS
  <1> DEFINE SS == Seq(S)
             zero == {0}
             none == [i \in {0} |-> <<>>]
             back == [i \in Nat |-> i - 1]
             h == [z \in Nat \X SS |-> IF z[1] \in 1..n THEN z[2] \o seqs[z[1]] ELSE <<>>]
  <1>2. PICK f \in [Nat -> SS] : Defined(f, zero, none, back, h)
    <2>1. \A i \in Nat \ zero : back[i] \in 0..(i - 1)
      OBVIOUS
    <2>2. \A i \in Nat \cap zero : none[i] \in SS
      OBVIOUS
    <2>3. \A i \in Nat \ zero : \A x \in SS : h[<<i, x>>] \in SS
      <3> SUFFICES ASSUME NEW i \in Nat, NEW x \in SS
                   PROVE  h[<<i, x>>] \in SS
        OBVIOUS
      <3>1. h[<<i, x>>] = IF i \in 1..n THEN x \o seqs[i] ELSE <<>>
        OBVIOUS
      <3>2. i \in 1..n => x \o seqs[i] \in SS
        <4>1. i \in 1..n => seqs[i] \in Seq(S)
          BY <1>1
        <4> QED
          BY <4>1, ConcatProperties
      <3>3. <<>> \in SS
        OBVIOUS
      <3> QED
        BY <3>1, <3>2, <3>3, Zenon
    <2> HIDE DEF SS, zero, none, back, h
    <2>4. Founded(SS, zero, none, back, h)
      BY <2>1, <2>2, <2>3 DEF Founded
    <2> QED
      BY <2>4, RecursionExists
  <1>3. f[0] = <<>>
    <2>1. 0 \in zero /\ none[0] = <<>>
      OBVIOUS
    <2> HIDE DEF zero, none, back, h
    <2> QED
      BY <1>2, <2>1 DEF Defined
  <1>4. ASSUME NEW i \in 1..n
        PROVE  f[i] = f[i - 1] \o seqs[i]
    <2>1. i \in Nat /\ i - 1 \in Nat /\ i \notin zero /\ back[i] = i - 1
      OBVIOUS
    <2>2. f[i - 1] \in SS
      BY <1>2, <2>1
    <2>3. h[<<i, f[i - 1]>>] = f[i - 1] \o seqs[i]
      BY <2>1, <2>2
    <2> HIDE DEF zero, none, back, h
    <2>4. f[i] = h[<<i, f[back[i]]>>]
      BY <1>2, <2>1 DEF Defined
    <2> QED
      BY <2>1, <2>3, <2>4
  <1> HIDE DEF zero, none, back, h
  <1> DEFINE step(g) == [i \in 0..Len(seqs) |-> IF i = 0 THEN <<>> ELSE g[i - 1] \o seqs[i]]
             fn == [i \in 0..n |-> f[i]]
             g == CHOOSE e : e = step(e)
  <1>5. fn = step(fn)
    <2>1. ASSUME NEW i \in 0..n
          PROVE  fn[i] = IF i = 0 THEN <<>> ELSE fn[i - 1] \o seqs[i]
      <3>1. CASE i = 0
        BY <1>3, <3>1
      <3>2. CASE i # 0
        <4>1. i \in 1..n /\ i - 1 \in 0..n
          BY <3>2
        <4>2. fn[i] = f[i] /\ fn[i - 1] = f[i - 1]
          BY <4>1
        <4> HIDE DEF fn
        <4> QED
          BY <1>4, <3>2, <4>1, <4>2
      <3> QED
        BY <3>1, <3>2
    <2>2. fn = [i \in 0..n |-> fn[i]]
      OBVIOUS
    <2> HIDE DEF fn
    <2>3. [i \in 0..n |-> fn[i]] = [i \in 0..n |-> IF i = 0 THEN <<>> ELSE fn[i - 1] \o seqs[i]]
      BY <2>1
    <2> QED
      BY <1>1, <2>2, <2>3
  <1>6. Joined(seqs) = g[n]
    BY <1>1 DEF Joined
  <1>7. g = step(g)
    <2> HIDE DEF step, fn
    <2> QED
      BY <1>5, Zenon
  <1>8. \A i \in 0..n : g[i] = IF i = 0 THEN <<>> ELSE g[i - 1] \o seqs[i]
    <2> HIDE DEF g
    <2> QED
      BY <1>1, <1>7
  <1> HIDE DEF g, step, fn
  <1> DEFINE T == {k \in Nat : k <= n => g[k] = f[k]}
  <1>9. 0 \in T
    BY <1>3, <1>8
  <1>10. ASSUME NEW k \in T
         PROVE  k + 1 \in T
    <2>1. CASE k + 1 <= n
      <3>1. k + 1 \in 0..n /\ k + 1 \in 1..n /\ k + 1 # 0 /\ (k + 1) - 1 = k /\ g[k] = f[k]
        BY <2>1
      <3>2. g[k + 1] = g[k] \o seqs[k + 1]
        BY <1>8, <3>1
      <3>3. f[k + 1] = f[k] \o seqs[k + 1]
        BY <1>4, <3>1
      <3>4. g[k + 1] = f[k + 1]
        BY <3>1, <3>2, <3>3, Zenon
      <3> QED
        BY <3>4
    <2> QED
      BY <2>1
  <1>11. T = Nat
    <2>1. T \in SUBSET Nat
      OBVIOUS
    <2> HIDE DEF T
    <2> QED
      BY <1>9, <1>10, <2>1, SetInduction
  <1>12. g[n] = f[n]
    <2>1. n \in T
      <3> HIDE DEF T
      <3> QED
        BY <1>11
    <2> QED
      BY <2>1
  <1>13. Joins(f, seqs, S)
    <2>1. \A k \in 0..n : f[k] \in Seq(S)
      BY <1>2
    <2>2. \A k \in 0..(n - 1) : k + 1 \in 1..n /\ (k + 1) - 1 = k
      OBVIOUS
    <2>3. \A k \in 0..(n - 1) : f[k + 1] = f[k] \o seqs[k + 1]
      BY <1>4, <2>2
    <2> QED
      BY <1>1, <1>3, <2>1, <2>3 DEF Joins
  <1> QED
    BY <1>1, <1>6, <1>12, <1>13

(***************************************************************************)
(* What is joined up to a piece begins what is joined up to a later one.   *)
(***************************************************************************)
LEMMA JoinsBegin ==
  ASSUME NEW S, NEW seqs \in Seq(Seq(S)), NEW f, Joins(f, seqs, S), NEW k \in 0..Len(seqs)
  PROVE  \A m \in k..Len(seqs) : Len(f[k]) <= Len(f[m]) /\ \A i \in 1..Len(f[k]) : f[m][i] = f[k][i]
  <1> DEFINE Good(m) == Len(f[k]) <= Len(f[m]) /\ \A i \in 1..Len(f[k]) : f[m][i] = f[k][i]
             T == {d \in Nat : k + d <= Len(seqs) => Good(k + d)}
  <1>1. PICK n \in Nat : n = Len(seqs)
    OBVIOUS
  <1>2. k \in Nat /\ k <= n
    BY <1>1
  <1>3. \A j \in 0..n : f[j] \in Seq(S) /\ Len(f[j]) \in Nat
    BY <1>1 DEF Joins
  <1>4. Good(k)
    BY <1>1, <1>3
  <1>5. ASSUME NEW j \in Nat, j + 1 <= n, Good(j)
        PROVE  Good(j + 1)
    <2>1. j \in 0..(n - 1) /\ j \in 0..n /\ j + 1 \in 1..n
      BY <1>5
    <2>2. f[j] \in Seq(S) /\ seqs[j + 1] \in Seq(S)
      BY <1>1, <1>3, <2>1
    <2>3. f[j + 1] = f[j] \o seqs[j + 1]
      BY <1>1, <2>1 DEF Joins
    <2>4. Len(f[j + 1]) >= Len(f[j]) /\ \A i \in 1..Len(f[j]) : f[j + 1][i] = f[j][i]
      <3>1. PICK x \in Seq(S), y \in Seq(S), a \in Nat, b \in Nat :
              x = f[j] /\ y = seqs[j + 1] /\ a = Len(x) /\ b = Len(y)
        BY <2>2
      <3>2. IsJoin(f[j + 1], x, y)
        BY <2>3, <3>1 DEF IsJoin
      <3>3. Len(f[j + 1]) = a + b /\ \A i \in 1..a : f[j + 1][i] = x[i]
        <4>1. JoinFacts(f[j + 1], x, y, a, b, S)
          BY <3>1, <3>2, JoinIs
        <4> QED
          BY <4>1, Zenon DEF JoinFacts
      <3>4. a + b >= a
        OBVIOUS
      <3> QED
        BY <3>1, <3>3, <3>4, Zenon
    <2>5. Len(f[k]) \in Nat /\ Len(f[j]) \in Nat /\ Len(f[j + 1]) \in Nat
      BY <1>1, <1>3, <2>1
    <2>6. \A i \in 1..Len(f[k]) : i \in 1..Len(f[j])
      BY <1>5, <2>5
    <2> QED
      BY <1>5, <2>4, <2>5, <2>6
  <1> HIDE DEF Good
  <1>6. 0 \in T
    BY <1>2, <1>4
  <1>7. ASSUME NEW d \in T
        PROVE  d + 1 \in T
    <2>1. CASE k + (d + 1) <= Len(seqs)
      <3>1. k + d \in Nat /\ (k + d) + 1 = k + (d + 1) /\ (k + d) + 1 <= n /\ Good(k + d)
        BY <1>1, <1>2, <2>1
      <3>2. Good((k + d) + 1)
        BY <1>5, <3>1
      <3> QED
        BY <3>1, <3>2
    <2> QED
      BY <2>1
  <1>8. T = Nat
    <2>1. T \in SUBSET Nat
      OBVIOUS
    <2> HIDE DEF T
    <2> QED
      BY <1>6, <1>7, <2>1, SetInduction
  <1>9. ASSUME NEW m \in k..Len(seqs)
        PROVE  Good(m)
    <2>1. m - k \in Nat /\ k + (m - k) = m /\ m <= Len(seqs)
      BY <1>1
    <2>2. m - k \in T
      BY <1>8, <2>1
    <2> QED
      BY <2>1, <2>2
  <1> QED
    BY <1>9 DEF Good

(***************************************************************************)
(* Every text, cut into its pieces, has for each what is behind it.        *)
(***************************************************************************)
LEMMA RestsExist ==
  ASSUME NEW S, NEW seqs \in Seq(Seq(S))
  PROVE  \E rest : Rests(rest, seqs, S)
  <1>1. PICK n \in Nat : n = Len(seqs)
    OBVIOUS
  <1>2. PICK f : Joins(f, seqs, S) /\ Joined(seqs) = f[n]
    BY <1>1, JoinsExist
  <1>3. /\ \A k \in 0..n : f[k] \in Seq(S) /\ Len(f[k]) \in Nat
        /\ f[0] = <<>> /\ \A k \in 0..(n - 1) : f[k + 1] = f[k] \o seqs[k + 1]
    <2>1. \A k \in 0..n : f[k] \in Seq(S)
      BY <1>1, <1>2 DEF Joins
    <2>2. \A s \in Seq(S) : Len(s) \in Nat
      OBVIOUS
    <2>3. f[0] = <<>> /\ \A k \in 0..(n - 1) : f[k + 1] = f[k] \o seqs[k + 1]
      BY <1>1, <1>2, Zenon DEF Joins
    <2> QED
      BY <2>1, <2>2, <2>3
  <1>4. PICK F \in Seq(S), N \in Nat : F = f[n] /\ N = Len(F)
    BY <1>3
  <1>5. ASSUME NEW k \in 0..n
        PROVE  Len(f[k]) <= N /\ \A i \in 1..Len(f[k]) : F[i] = f[k][i]
    <2>1. n \in k..Len(seqs) /\ k \in 0..Len(seqs)
      BY <1>1
    <2> QED
      BY <1>2, <1>4, <2>1, JoinsBegin
  <1> DEFINE rest == [k \in 0..n |-> SubSeq(F, Len(f[k]) + 1, N)]
  <1>6. ASSUME NEW k \in 0..n
        PROVE  /\ rest[k] \in Seq(S) /\ Len(rest[k]) = N - Len(f[k])
               /\ \A i \in 1..(N - Len(f[k])) : rest[k][i] = F[Len(f[k]) + i]
    <2>1. PICK l \in Nat : l = Len(f[k]) /\ l <= N
      BY <1>3, <1>5
    <2>2. rest[k] = SubSeq(F, l + 1, N)
      BY <2>1
    <2> HIDE DEF rest
    <2>3. EndFacts(rest[k], F, l, N, S)
      BY <1>4, <2>1, <2>2, EndIs
    <2> QED
      BY <2>1, <2>3, Zenon DEF EndFacts
  <1>7. rest \in [0..n -> Seq(S)]
    BY <1>6
  <1> HIDE DEF rest
  <1>8. rest[0] = F
    <2>1. 0 \in 0..n /\ Len(f[0]) = 0
      <3>1. Len(<<>>) = 0
        OBVIOUS
      <3> QED
        BY <1>3, <3>1
    <2>2. rest[0] \in Seq(S) /\ Len(rest[0]) = N /\ \A i \in 1..N : rest[0][i] = F[i]
      <3>1. PICK l \in Nat : l = Len(f[0]) /\ l = 0
        BY <2>1
      <3>2. rest[0] \in Seq(S) /\ Len(rest[0]) = N - l /\ \A i \in 1..(N - l) : rest[0][i] = F[l + i]
        BY <1>6, <2>1, <3>1
      <3> QED
        BY <3>1, <3>2
    <2> QED
      BY <1>4, <2>2, SameSeq
  <1>9. rest[n] = <<>>
    <2>1. n \in 0..n
      OBVIOUS
    <2>2. Len(f[n]) = N /\ N - N = 0
      BY <1>4
    <2>3. rest[n] \in Seq(S) /\ Len(rest[n]) = 0
      BY <1>6, <2>1, <2>2
    <2> QED
      BY <2>3
  <1>10. ASSUME NEW k \in 0..(n - 1)
         PROVE  rest[k] = seqs[k + 1] \o rest[k + 1]
    <2>1. k \in 0..n /\ k + 1 \in 0..n /\ k + 1 \in 1..n
      OBVIOUS
    <2>2. PICK s \in Seq(S), c \in Nat, l \in Nat : s = seqs[k + 1] /\ c = Len(s) /\ l = Len(f[k])
      BY <1>1, <1>3, <2>1, SMTT(30)
    <2>3. f[k] \in Seq(S) /\ f[k + 1] = f[k] \o s
      BY <1>3, <2>1, <2>2
    <2>4. Len(f[k + 1]) = l + c /\ \A i \in 1..c : f[k + 1][l + i] = s[i]
      <3>1. PICK x \in Seq(S) : x = f[k]
        BY <2>3
      <3>2. IsJoin(f[k + 1], x, s)
        BY <2>3, <3>1 DEF IsJoin
      <3>3. JoinFacts(f[k + 1], x, s, l, c, S)
        BY <2>2, <3>1, <3>2, JoinIs
      <3> QED
        BY <3>3, Zenon DEF JoinFacts
    <2>5. l + c <= N /\ \A i \in 1..c : F[l + i] = s[i]
      <3>1. l + c <= N /\ \A i \in 1..(l + c) : F[i] = f[k + 1][i]
        BY <1>5, <2>1, <2>4
      <3>2. \A i \in 1..c : l + i \in 1..(l + c)
        OBVIOUS
      <3> QED
        BY <2>4, <3>1, <3>2
    <2>6. rest[k] \in Seq(S) /\ Len(rest[k]) = N - l /\ \A i \in 1..(N - l) : rest[k][i] = F[l + i]
      BY <1>6, <2>1, <2>2
    <2>7. rest[k + 1] \in Seq(S) /\ Len(rest[k + 1]) = N - (l + c)
          /\ \A i \in 1..(N - (l + c)) : rest[k + 1][i] = F[(l + c) + i]
      BY <1>6, <2>1, <2>4
    <2> DEFINE t == s \o rest[k + 1]
    <2>8. t \in Seq(S) /\ Len(t) = N - l
          /\ \A i \in 1..(N - l) : t[i] = IF i <= c THEN s[i] ELSE rest[k + 1][i - c]
      <3>1. c + (N - (l + c)) = N - l
        OBVIOUS
      <3>2. /\ t \in Seq(S) /\ Len(t) = Len(s) + Len(rest[k + 1])
            /\ \A i \in 1..(Len(s) + Len(rest[k + 1])) :
                 t[i] = IF i <= Len(s) THEN s[i] ELSE rest[k + 1][i - Len(s)]
        BY <2>7, ConcatProperties
      <3> HIDE DEF t
      <3> QED
        BY <2>2, <2>7, <3>1, <3>2
    <2> HIDE DEF t
    <2>9. ASSUME NEW i \in 1..(N - l)
          PROVE  rest[k][i] = t[i]
      <3>1. CASE i <= c
        <4>1. i \in 1..c
          BY <3>1
        <4>2. F[l + i] = s[i]
          BY <2>5, <4>1
        <4>3. t[i] = s[i]
          BY <2>8, <3>1
        <4>4. rest[k][i] = F[l + i]
          BY <2>6
        <4> QED
          BY <4>2, <4>3, <4>4
      <3>2. CASE i > c
        <4>1. i - c \in 1..(N - (l + c)) /\ (l + c) + (i - c) = l + i /\ ~ i <= c
          BY <3>2
        <4>2. rest[k + 1][i - c] = F[l + i]
          BY <2>7, <4>1
        <4> QED
          BY <2>6, <2>8, <4>1, <4>2
      <3> QED
        BY <3>1, <3>2
    <2>10. rest[k] = t
      BY <2>6, <2>8, <2>9, SameSeq
    <2> QED
      BY <2>2, <2>10 DEF t
  <1>11. ASSUME NEW k \in 0..n
         PROVE  /\ Len(rest[k]) <= Len(rest[0])
                /\ \A i \in 1..Len(rest[k]) : rest[0][Len(rest[0]) - Len(rest[k]) + i] = rest[k][i]
    <2>1. PICK l \in Nat : l = Len(f[k]) /\ l <= N
      BY <1>3, <1>5
    <2>2. Len(rest[k]) = N - l /\ \A i \in 1..(N - l) : rest[k][i] = F[l + i]
      BY <1>6, <2>1
    <2>3. rest[0] = F /\ Len(rest[0]) = N /\ N - (N - l) = l
      BY <1>4, <1>8
    <2> QED
      BY <2>1, <2>2, <2>3
  <1>12. Rests(rest, seqs, S)
    BY <1>1, <1>2, <1>4, <1>7, <1>8, <1>9, <1>10, <1>11 DEF Rests
  <1> QED
    BY <1>12

(***************************************************************************)
(* Where no piece has more than one, what is left has no more than there   *)
(* are pieces.                                                             *)
(***************************************************************************)
LEMMA RestsShort ==
  ASSUME NEW S, NEW seqs \in Seq(Seq(S)), NEW rest, Rests(rest, seqs, S),
         \A i \in 1..Len(seqs) : Len(seqs[i]) <= 1
  PROVE  \A k \in 0..Len(seqs) : Len(rest[k]) <= Len(seqs)
  <1>1. PICK n \in Nat : n = Len(seqs)
    OBVIOUS
  <1>2. /\ \A k \in 0..n : rest[k] \in Seq(S) /\ Len(rest[k]) \in Nat
        /\ rest[n] = <<>> /\ \A k \in 0..(n - 1) : rest[k] = seqs[k + 1] \o rest[k + 1]
    <2>1. rest \in [0..n -> Seq(S)]
      BY <1>1, Zenon DEF Rests
    <2>2. \A s \in Seq(S) : Len(s) \in Nat
      OBVIOUS
    <2>3. rest[n] = <<>> /\ \A k \in 0..(n - 1) : rest[k] = seqs[k + 1] \o rest[k + 1]
      BY <1>1, Zenon DEF Rests
    <2> QED
      BY <2>1, <2>2, <2>3
  <1> DEFINE T == {d \in Nat : d <= n => Len(rest[n - d]) <= d}
  <1>3. 0 \in T
    <2>1. n - 0 = n /\ Len(<<>>) = 0
      OBVIOUS
    <2>2. Len(rest[n - 0]) = 0
      BY <1>2, <2>1, Zenon
    <2> QED
      BY <2>2
  <1>4. ASSUME NEW d \in T
        PROVE  d + 1 \in T
    <2>1. CASE d + 1 <= n
      <3>1. PICK k \in 0..(n - 1) : k = n - (d + 1) /\ k + 1 = n - d
        BY <2>1
      <3>2. k + 1 \in 1..n /\ k + 1 \in 0..n
        OBVIOUS
      <3>3. Len(rest[k + 1]) <= d
        <4>1. d <= n
          BY <2>1
        <4>2. Len(rest[n - d]) <= d
          BY <4>1
        <4> QED
          BY <3>1, <4>2
      <3>4. rest[k] = seqs[k + 1] \o rest[k + 1] /\ rest[k + 1] \in Seq(S) /\ seqs[k + 1] \in Seq(S)
        <4>1. rest[k] = seqs[k + 1] \o rest[k + 1] /\ rest[k + 1] \in Seq(S)
          BY <1>2, <3>2
        <4>2. seqs[k + 1] \in Seq(S)
          BY <1>1, <3>2
        <4> QED
          BY <4>1, <4>2
      <3>5. Len(rest[k]) = Len(seqs[k + 1]) + Len(rest[k + 1])
        BY <3>4, ConcatProperties
      <3>6. Len(seqs[k + 1]) <= 1 /\ Len(seqs[k + 1]) \in Nat /\ Len(rest[k + 1]) \in Nat
        <4>1. Len(seqs[k + 1]) <= 1
          BY <1>1, <3>2
        <4>2. \A s \in Seq(S) : Len(s) \in Nat
          OBVIOUS
        <4> QED
          BY <3>4, <4>1, <4>2
      <3>7. Len(rest[k]) <= d + 1
        <4>1. PICK a \in Nat, b \in Nat : a = Len(seqs[k + 1]) /\ b = Len(rest[k + 1])
          BY <3>6
        <4>2. a <= 1 /\ b <= d
          BY <3>3, <3>6, <4>1, Zenon
        <4>3. d \in Nat
          OBVIOUS
        <4> HIDE DEF T
        <4>4. a + b <= d + 1
          BY <4>2, <4>3
        <4>5. Len(rest[k]) = a + b
          BY <3>5, <4>1, Zenon
        <4> QED
          BY <4>4, <4>5, Zenon
      <3> QED
        BY <3>1, <3>7
    <2> QED
      BY <2>1
  <1>5. T = Nat
    <2>1. T \in SUBSET Nat
      OBVIOUS
    <2> HIDE DEF T
    <2> QED
      BY <1>3, <1>4, <2>1, SetInduction
  <1>6. ASSUME NEW k \in 0..n
        PROVE  Len(rest[k]) <= n
    <2>1. n - k \in Nat /\ n - k <= n /\ n - (n - k) = k
      OBVIOUS
    <2>2. Len(rest[k]) <= n - k
      BY <1>5, <2>1
    <2> QED
      BY <1>2, <2>1, <2>2
  <1> QED
    BY <1>1, <1>6

-----------------------------------------------------------------------------
(* Texts *)

Formats(t) == [i \in DOMAIN t |-> FormatOf(t[i])]
Pieces(t) == [i \in DOMAIN t |-> IF t[i].type \in {"d", "x", "o"} THEN <<t[i]>> ELSE <<>>]
PieceSet(t) == {t[i] : i \in DOMAIN t}
Args(fields) == [i \in DOMAIN fields |-> fields[i].value]

IsChar(piece) == piece.type = "char" /\ piece.char # "%"
IsNumber(piece) == IsField(piece) /\ piece.type \in {"d", "x", "o"} /\ piece.value \in Ints
IsCut(piece) == IsField(piece) /\ piece.type = "cut"

(***************************************************************************)
(* A field in a format string is one of its characters, the first a `%'.   *)
(***************************************************************************)
LEMMA FieldFormat ==
  ASSUME NEW t, NEW field, IsField(field)
  PROVE  FormatOf(field) \in Seq(Glyphs(t)) /\ FormatOf(field) # <<>>
  <1> DEFINE S == Glyphs(t)
             A == Alignment(field)
             Z == Fill(field)
             W == Width(field)
             E == Letter(field)
             p == <<"%">>
             pa == p \o A
             paz == pa \o Z
             pazw == paz \o W
             all == pazw \o E
  <1>1. A \in Seq(S) /\ Z \in Seq(S) /\ W \in Seq(S) /\ E \in Seq(S) /\ FormatOf(field) = all
    BY FieldParts
  <1>2. p \in Seq(S) /\ Len(p) = 1
    <2>1. "%" \in S
      BY DEF Glyphs
    <2> HIDE DEF S
    <2> QED
      BY <2>1
  <1>3. IsJoin(pa, p, A) /\ IsJoin(paz, pa, Z) /\ IsJoin(pazw, paz, W) /\ IsJoin(all, pazw, E)
    BY Zenon DEF IsJoin
  <1> HIDE DEF S, A, Z, W, E, p, pa, paz, pazw, all
  <1>4. ASSUME NEW x \in Seq(S), NEW y \in Seq(S), NEW xy, IsJoin(xy, x, y), Len(x) >= 1
        PROVE  xy \in Seq(S) /\ Len(xy) >= 1
    <2>1. PICK m \in Nat, n \in Nat : m = Len(x) /\ n = Len(y)
      OBVIOUS
    <2>2. JoinFacts(xy, x, y, m, n, S)
      BY <1>4, <2>1, JoinIs
    <2>3. m + n >= 1
      BY <1>4, <2>1
    <2> QED
      BY <2>2, <2>3 DEF JoinFacts
  <1>5. pa \in Seq(S) /\ Len(pa) >= 1
    <2>1. Len(p) >= 1
      BY <1>2
    <2> QED
      BY <1>1, <1>2, <1>3, <1>4, <2>1
  <1>6. paz \in Seq(S) /\ Len(paz) >= 1
    BY <1>1, <1>3, <1>4, <1>5
  <1>7. pazw \in Seq(S) /\ Len(pazw) >= 1
    BY <1>1, <1>3, <1>4, <1>6
  <1>8. all \in Seq(S) /\ Len(all) >= 1
    BY <1>1, <1>3, <1>4, <1>7
  <1>9. all # <<>>
    BY <1>8
  <1> QED
    BY <1>1, <1>8, <1>9 DEF S

\* What TextsAssumption says of a text, and what that makes of its format and its fields.
TextIs(t, n) ==
  /\ n = Len(t) /\ DOMAIN t = 1..n
  /\ \A i \in 1..n : IsChar(t[i]) \/ IsNumber(t[i]) \/ (IsCut(t[i]) /\ i = n)
  /\ \A i \in 1..n : IsChar(t[i]) => t[i].char \in Glyphs(t)
  /\ Formats(t) \in Seq(Seq(Glyphs(t))) /\ Len(Formats(t)) = n
  /\ \A i \in 1..n : Formats(t)[i] = FormatOf(t[i]) /\ FormatOf(t[i]) # <<>>
  /\ Pieces(t) \in Seq(Seq(PieceSet(t))) /\ Len(Pieces(t)) = n
  /\ \A i \in 1..n : Pieces(t)[i] = (IF IsNumber(t[i]) THEN <<t[i]>> ELSE <<>>) /\ Len(Pieces(t)[i]) <= 1

(***************************************************************************)
(* TextsAssumption, as the proofs below use it.                            *)
(***************************************************************************)
LEMMA TextFacts ==
  ASSUME NEW t \in PRINTED_TEXTS
  PROVE  \E n \in Nat : TextIs(t, n)
  <1>1. t \in Seq(PieceSet(t))
    BY TextsAssumption DEF PieceSet
  <1>2. PICK n \in Nat : n = Len(t) /\ DOMAIN t = 1..n
    BY <1>1
  <1>3. ASSUME NEW i \in 1..n
        PROVE  IsChar(t[i]) \/ IsNumber(t[i]) \/ (IsCut(t[i]) /\ i = n)
    <2>1. \/ IsChar(t[i])
          \/ /\ t[i].type \in {"d", "x", "o", "cut"}
             /\ t[i].left \in BOOLEAN /\ t[i].zero \in BOOLEAN /\ t[i].width \in 0..MAXINT
             /\ IF t[i].type = "cut" THEN i = Len(t) ELSE t[i].value \in Ints
      BY <1>2, TextsAssumption, Zenon DEF IsChar
    <2>2. CASE IsChar(t[i])
      BY <2>2
    <2>3. CASE ~ IsChar(t[i])
      <3>1. 0..MAXINT \subseteq Nat
        OBVIOUS
      <3>2. t[i].width \in Nat
        BY <2>1, <2>3, <3>1, Zenon
      <3>3. IsField(t[i])
        BY <2>1, <2>3, <3>2, Zenon DEF IsField
      <3>4. CASE t[i].type = "cut"
        BY <1>2, <2>1, <2>3, <3>3, <3>4, Zenon DEF IsCut
      <3>5. CASE t[i].type # "cut"
        <4>1. t[i].type \in {"d", "x", "o", "cut"} /\ t[i].value \in Ints
          BY <2>1, <2>3, <3>5, Zenon
        <4>2. t[i].type \in {"d", "x", "o"}
          BY <3>5, <4>1, Zenon
        <4> QED
          BY <3>3, <4>1, <4>2, Zenon DEF IsNumber
      <3> QED
        BY <3>4, <3>5
    <2> QED
      BY <2>2, <2>3
  <1>4. ASSUME NEW i \in 1..n, IsChar(t[i])
        PROVE  t[i].char \in Glyphs(t)
    BY <1>2, Zenon DEF Glyphs
  <1>5. ASSUME NEW i \in 1..n
        PROVE  FormatOf(t[i]) \in Seq(Glyphs(t)) /\ FormatOf(t[i]) # <<>>
    <2>1. CASE IsChar(t[i])
      <3>1. FormatOf(t[i]) = <<t[i].char>>
        BY <2>1, Zenon DEF IsChar, FormatOf
      <3>2. \A c \in Glyphs(t) : <<c>> \in Seq(Glyphs(t)) /\ <<c>> # <<>>
        OBVIOUS
      <3> QED
        BY <1>4, <2>1, <3>1, <3>2, Zenon
    <2>2. CASE IsField(t[i])
      BY <2>2, FieldFormat
    <2> QED
      BY <1>3, <2>1, <2>2 DEF IsNumber, IsCut
  <1>6. /\ Formats(t) \in Seq(Seq(Glyphs(t))) /\ Len(Formats(t)) = n
        /\ \A i \in 1..n : Formats(t)[i] = FormatOf(t[i])
    <2>1. Formats(t) = [i \in 1..n |-> FormatOf(t[i])]
      BY <1>2, Zenon DEF Formats
    <2>2. Formats(t) \in [1..n -> Seq(Glyphs(t))]
      BY <1>5, <2>1
    <2> QED
      BY <2>1, <2>2
  <1>7. ASSUME NEW i \in 1..n
        PROVE  IsNumber(t[i]) <=> t[i].type \in {"d", "x", "o"}
    <2>1. "char" \notin {"d", "x", "o"} /\ "cut" \notin {"d", "x", "o"}
      OBVIOUS
    <2> QED
      BY <1>3, <2>1, Zenon DEF IsNumber, IsChar, IsCut
  <1> DEFINE piece(i) == IF IsNumber(t[i]) THEN <<t[i]>> ELSE <<>>
  <1>8. Pieces(t) = [i \in 1..n |-> piece(i)]
    <2>1. Pieces(t) = [i \in 1..n |-> IF t[i].type \in {"d", "x", "o"} THEN <<t[i]>> ELSE <<>>]
      BY <1>2, Zenon DEF Pieces
    <2>2. \A i \in 1..n : (IF t[i].type \in {"d", "x", "o"} THEN <<t[i]>> ELSE <<>>) = piece(i)
      BY <1>7, Zenon
    <2> HIDE DEF piece
    <2> QED
      BY <2>1, <2>2
  <1>9. ASSUME NEW i \in 1..n
        PROVE  piece(i) \in Seq(PieceSet(t)) /\ Len(piece(i)) <= 1
    <2>1. t[i] \in PieceSet(t)
      BY <1>2, Zenon DEF PieceSet
    <2>2. <<t[i]>> \in Seq(PieceSet(t)) /\ Len(<<t[i]>>) <= 1
      BY <2>1
    <2>3. <<>> \in Seq(PieceSet(t)) /\ Len(<<>>) <= 1
      OBVIOUS
    <2> QED
      BY <2>2, <2>3, Zenon
  <1> HIDE DEF piece
  <1>10. Pieces(t) \in [1..n -> Seq(PieceSet(t))]
    BY <1>8, <1>9
  <1>11. /\ Pieces(t) \in Seq(Seq(PieceSet(t))) /\ Len(Pieces(t)) = n
         /\ \A i \in 1..n : Pieces(t)[i] = piece(i)
    BY <1>8, <1>10
  <1>12. \A i \in 1..n : Pieces(t)[i] = (IF IsNumber(t[i]) THEN <<t[i]>> ELSE <<>>) /\ Len(Pieces(t)[i]) <= 1
    BY <1>9, <1>11, Zenon DEF piece
  <1> QED
    BY <1>2, <1>3, <1>4, <1>5, <1>6, <1>11, <1>12, Zenon DEF TextIs

\* The printing of t has reached piece k: the format string and the arguments are what is left.
At(k, rest, left, t, f, a) ==
  /\ k \in 0..Len(t)
  /\ Rests(rest, Formats(t), Glyphs(t)) /\ Rests(left, Pieces(t), PieceSet(t))
  /\ f = rest[k] /\ a = Args(left[k])

(***************************************************************************)
(* At the start all of the text is left.                                   *)
(***************************************************************************)
LEMMA AtFirst ==
  ASSUME NEW t \in PRINTED_TEXTS
  PROVE  \E rest, left : At(0, rest, left, t, Joined(Formats(t)), Args(FieldsOf(t)))
  <1>1. PICK n \in Nat : TextIs(t, n)
    BY TextFacts
  <1>2. PICK rest : Rests(rest, Formats(t), Glyphs(t))
    BY <1>1, RestsExist DEF TextIs
  <1>3. PICK left : Rests(left, Pieces(t), PieceSet(t))
    BY <1>1, RestsExist DEF TextIs
  <1>4. FieldsOf(t) = Joined(Pieces(t))
    BY Zenon DEF FieldsOf, Pieces
  <1>5. rest[0] = Joined(Formats(t)) /\ left[0] = FieldsOf(t)
    BY <1>2, <1>3, <1>4, Zenon DEF Rests
  <1>6. 0 \in 0..Len(t)
    BY <1>1 DEF TextIs
  <1> QED
    BY <1>2, <1>3, <1>5, <1>6, Zenon DEF At

(***************************************************************************)
(* One element before the others.                                          *)
(***************************************************************************)
LEMMA OneBefore ==
  ASSUME NEW S, NEW c \in S, NEW s \in Seq(S), NEW cs, IsJoin(cs, <<c>>, s)
  PROVE  cs \in Seq(S) /\ Len(cs) = 1 + Len(s) /\ cs # <<>> /\ cs[1] = c /\ Tail(cs) = s
  <1>1. PICK n \in Nat : n = Len(s) /\ DOMAIN s = 1..n
    OBVIOUS
  <1>2. <<c>> \in Seq(S) /\ Len(<<c>>) = 1 /\ <<c>>[1] = c
    OBVIOUS
  <1>3. JoinFacts(cs, <<c>>, s, 1, n, S)
    BY <1>1, <1>2, JoinIs
  <1>4. cs \in Seq(S) /\ Len(cs) = 1 + n /\ cs[1] = c /\ \A i \in 1..n : cs[1 + i] = s[i]
    <2>1. 1 \in 1..1
      OBVIOUS
    <2> QED
      BY <1>2, <1>3, <2>1 DEF JoinFacts
  <1>5. cs # <<>> /\ Tail(cs) \in Seq(S) /\ Len(Tail(cs)) = n /\ \A i \in 1..n : Tail(cs)[i] = cs[i + 1]
    BY <1>4
  <1>6. \A i \in 1..n : Tail(cs)[i] = s[i]
    <2>1. \A i \in 1..n : i + 1 = 1 + i
      OBVIOUS
    <2> QED
      BY <1>4, <1>5, <2>1
  <1>7. Tail(cs) = s
    BY <1>1, <1>5, <1>6
  <1> QED
    BY <1>1, <1>4, <1>5, <1>7

(***************************************************************************)
(* The arguments of fields: their values, one for one.                     *)
(***************************************************************************)
LEMMA ArgsAre ==
  ASSUME NEW P, NEW fields \in Seq(P)
  PROVE  /\ Args(fields) \in Seq({p.value : p \in P}) /\ Len(Args(fields)) = Len(fields)
         /\ \A i \in 1..Len(fields) : Args(fields)[i] = fields[i].value
  <1> DEFINE V == {p.value : p \in P}
  <1>1. PICK n \in Nat : n = Len(fields) /\ DOMAIN fields = 1..n
    OBVIOUS
  <1>2. \A i \in 1..n : fields[i].value \in V
    <2>1. \A i \in 1..n : fields[i] \in P
      BY <1>1
    <2> QED
      BY <2>1, Zenon
  <1> HIDE DEF V
  <1>3. Args(fields) = [i \in 1..n |-> fields[i].value]
    BY <1>1, Zenon DEF Args
  <1>4. Args(fields) \in [1..n -> V]
    BY <1>2, <1>3
  <1> QED
    BY <1>1, <1>3, <1>4 DEF V

(***************************************************************************)
(* The first argument belongs to the first field, and the others to those  *)
(* behind it.                                                              *)
(***************************************************************************)
LEMMA ArgsTail ==
  ASSUME NEW P, NEW p \in P, NEW fields \in Seq(P), NEW all, IsJoin(all, <<p>>, fields)
  PROVE  /\ Args(all) # <<>> /\ Args(all)[1] = p.value /\ Tail(Args(all)) = Args(fields)
         /\ Tail(Args(all)) # Args(all) /\ Len(Args(all)) = Len(all)
  <1> DEFINE V == {q.value : q \in P}
  <1>1. all \in Seq(P) /\ Len(all) = 1 + Len(fields) /\ all[1] = p /\ Tail(all) = fields
    BY OneBefore
  <1>2. PICK n \in Nat : n = Len(fields)
    OBVIOUS
  <1>3. PICK a : a = Args(all) /\ a \in Seq(V) /\ Len(a) = n + 1 /\ \A i \in 1..(n + 1) : a[i] = all[i].value
    <2>1. n + 1 = Len(all)
      BY <1>1, <1>2
    <2>2. /\ Args(all) \in Seq({q.value : q \in P}) /\ Len(Args(all)) = Len(all)
          /\ \A i \in 1..Len(all) : Args(all)[i] = all[i].value
      BY <1>1, ArgsAre
    <2> QED
      BY <2>1, <2>2, Zenon
  <1>4. PICK b : b = Args(fields) /\ b \in Seq(V) /\ Len(b) = n /\ \A i \in 1..n : b[i] = fields[i].value
    BY <1>2, ArgsAre
  <1> HIDE DEF V
  <1>5. \A i \in 1..n : fields[i] = all[i + 1]
    BY <1>1, <1>2
  <1>6. Tail(a) \in Seq(V) /\ Len(Tail(a)) = n /\ \A i \in 1..n : Tail(a)[i] = a[i + 1]
    BY <1>3
  <1>7. \A i \in 1..n : Tail(a)[i] = b[i]
    <2>1. \A i \in 1..n : i + 1 \in 1..(n + 1)
      OBVIOUS
    <2> QED
      BY <1>3, <1>4, <1>5, <1>6, <2>1
  <1>8. Tail(a) = b
    BY <1>4, <1>6, <1>7
  <1>9. a # <<>> /\ Tail(a) # a /\ a[1] = p.value
    <2>1. a # <<>>
      BY <1>3
    <2>2. Tail(a) # a
      BY <1>3, <1>6
    <2>3. 1 \in 1..(n + 1)
      OBVIOUS
    <2>4. a[1] = p.value
      BY <1>1, <1>3, <2>3
    <2> QED
      BY <2>1, <2>2, <2>4
  <1>10. Len(a) = Len(all)
    BY <1>1, <1>2, <1>3
  <1> QED
    BY <1>3, <1>4, <1>8, <1>9, <1>10

-----------------------------------------------------------------------------
(* One piece after the other *)

\* What the loop meets at piece p: the format string f goes on with r behind it, and b are the
\* arguments behind its own.
MeetsChar(p, f, r, a, b) == IsChar(p) /\ f[1] = p.char /\ Tail(f) = r /\ a = b

MeetsCut(p, f) == IsCut(p) /\ f[1] = "%" /\ Directive(Tail(f)).type = <<>>

MeetsNumber(p, f, r, a, b, fields) ==
  /\ IsNumber(p) /\ f[1] = "%" /\ Reads(Directive(Tail(f)), p, r)
  /\ a # <<>> /\ a[1] = p.value /\ Tail(a) = b /\ Tail(a) # a
  /\ fields[Len(fields) - Len(a) + 1] = p

(***************************************************************************)
(* Where the format string has not ended there is a next piece, and it     *)
(* is read as it was written.                                              *)
(***************************************************************************)
LEMMA Met ==
  ASSUME NEW t \in PRINTED_TEXTS, NEW k, NEW rest, NEW left, NEW f, NEW a, At(k, rest, left, t, f, a),
         f # <<>>
  PROVE  /\ k + 1 \in 1..Len(t)
         /\ At(k + 1, rest, left, t, rest[k + 1], Args(left[k + 1]))
         /\ f \in Seq(Glyphs(t)) /\ rest[k + 1] \in Seq(Glyphs(t))
         /\ \/ MeetsChar(t[k + 1], f, rest[k + 1], a, Args(left[k + 1])) /\ t[k + 1].char \in Glyphs(t)
            \/ MeetsCut(t[k + 1], f) /\ k + 1 = Len(t)
            \/ MeetsNumber(t[k + 1], f, rest[k + 1], a, Args(left[k + 1]), FieldsOf(t))
  <1>1. PICK n \in Nat : TextIs(t, n)
    BY TextFacts
  <1>2. /\ n = Len(t) /\ \A i \in 1..n : IsChar(t[i]) \/ IsNumber(t[i]) \/ (IsCut(t[i]) /\ i = n)
        /\ \A i \in 1..n : IsChar(t[i]) => t[i].char \in Glyphs(t)
        /\ Formats(t) \in Seq(Seq(Glyphs(t))) /\ Len(Formats(t)) = n
        /\ \A i \in 1..n : Formats(t)[i] = FormatOf(t[i])
        /\ Pieces(t) \in Seq(Seq(PieceSet(t))) /\ Len(Pieces(t)) = n
        /\ \A i \in 1..n : Pieces(t)[i] = (IF IsNumber(t[i]) THEN <<t[i]>> ELSE <<>>)
    BY <1>1, Zenon DEF TextIs
  <1>3. /\ k \in 0..n /\ f = rest[k] /\ a = Args(left[k])
        /\ Rests(rest, Formats(t), Glyphs(t)) /\ Rests(left, Pieces(t), PieceSet(t))
    BY <1>2, Zenon DEF At
  <1>4. /\ \A i \in 0..n : rest[i] \in Seq(Glyphs(t)) /\ left[i] \in Seq(PieceSet(t))
        /\ rest[n] = <<>>
        /\ \A i \in 0..(n - 1) : /\ rest[i] = Formats(t)[i + 1] \o rest[i + 1]
                                 /\ left[i] = Pieces(t)[i + 1] \o left[i + 1]
    <2>1. rest \in [0..n -> Seq(Glyphs(t))] /\ left \in [0..n -> Seq(PieceSet(t))]
      BY <1>2, <1>3, Zenon DEF Rests
    <2>2. \A i \in 0..n : rest[i] \in Seq(Glyphs(t)) /\ left[i] \in Seq(PieceSet(t))
      BY <2>1
    <2>3. rest[n] = <<>> /\ \A i \in 0..(n - 1) : /\ rest[i] = Formats(t)[i + 1] \o rest[i + 1]
                                                  /\ left[i] = Pieces(t)[i + 1] \o left[i + 1]
      BY <1>2, <1>3, Zenon DEF Rests
    <2> QED
      BY <2>2, <2>3
  <1>5. k \in 0..(n - 1) /\ k + 1 \in 1..n /\ k + 1 \in 0..n
    <2>1. k # n
      BY <1>3, <1>4
    <2> QED
      BY <1>3, <2>1
  <1>6. PICK p : p = t[k + 1]
    OBVIOUS
  <1>7. PICK r : r = rest[k + 1] /\ r \in Seq(Glyphs(t))
    BY <1>4, <1>5
  <1>8. PICK l : l = left[k + 1] /\ l \in Seq(PieceSet(t))
    BY <1>4, <1>5
  <1>9. f = FormatOf(p) \o r /\ left[k] = (IF IsNumber(p) THEN <<p>> ELSE <<>>) \o l
    BY <1>2, <1>3, <1>4, <1>5, <1>6, <1>7, <1>8, Zenon
  <1>10. At(k + 1, rest, left, t, rest[k + 1], Args(left[k + 1]))
    BY <1>2, <1>3, <1>5, Zenon DEF At
  <1>11. f \in Seq(Glyphs(t))
    BY <1>3, <1>4, Zenon
  <1>12. IsNumber(p) \/ left[k] = l
    <2>1. CASE ~ IsNumber(p)
      <3>1. left[k] = <<>> \o l
        BY <1>9, <2>1, Zenon
      <3>2. <<>> \o l = l
        BY <1>8
      <3> QED
        BY <3>1, <3>2
    <2> QED
      BY <2>1
  <1>13. ASSUME IsField(p), p.type = "cut" => r = <<>>
         PROVE  /\ f[1] = "%" /\ Reads(Directive(Tail(f)), p, r)
    BY <1>7, <1>9, <1>13, DirectiveReads, Zenon
  <1>14. CASE IsChar(p)
    <2>1. p.char \in Glyphs(t)
      BY <1>2, <1>5, <1>6, <1>14, Zenon
    <2>2. IsJoin(f, <<p.char>>, r)
      BY <1>9, <1>14, Zenon DEF IsJoin, IsChar, FormatOf
    <2>3. f[1] = p.char /\ Tail(f) = r
      BY <1>7, <2>1, <2>2, OneBefore
    <2>4. "char" # "d" /\ "char" # "x" /\ "char" # "o"
      OBVIOUS
    <2>5. ~ IsNumber(p)
      BY <1>14, <2>4, Zenon DEF IsChar, IsNumber
    <2>6. a = Args(l)
      BY <1>3, <1>12, <2>5, Zenon
    <2>7. MeetsChar(p, f, r, a, Args(l))
      BY <1>14, <2>3, <2>6, Zenon DEF MeetsChar
    <2> QED
      BY <1>2, <1>5, <1>6, <1>7, <1>8, <1>10, <1>11, <2>1, <2>7, Zenon
  <1>15. CASE IsCut(p) /\ k + 1 = n
    <2>1. r = <<>>
      BY <1>4, <1>7, <1>15
    <2>2. IsField(p) /\ p.type = "cut"
      BY <1>15 DEF IsCut
    <2>3. f[1] = "%" /\ Reads(Directive(Tail(f)), p, r)
      BY <1>13, <2>1, <2>2
    <2>4. Directive(Tail(f)).type = <<>>
      BY <2>2, <2>3, Zenon DEF Reads
    <2>5. MeetsCut(p, f) /\ k + 1 = Len(t)
      BY <1>2, <1>15, <2>3, <2>4, Zenon DEF MeetsCut
    <2> QED
      BY <1>2, <1>5, <1>6, <1>7, <1>10, <1>11, <2>5, Zenon
  <1>16. CASE IsNumber(p)
    <2>1. IsField(p) /\ p.type # "cut"
      <3>1. "cut" # "d" /\ "cut" # "x" /\ "cut" # "o"
        OBVIOUS
      <3> QED
        BY <1>16, <3>1, Zenon DEF IsNumber
    <2>2. f[1] = "%" /\ Reads(Directive(Tail(f)), p, r)
      BY <1>13, <2>1
    <2>3. p \in PieceSet(t)
      <3>1. DOMAIN t = 1..n
        BY <1>1, Zenon DEF TextIs
      <3> QED
        BY <1>5, <1>6, <3>1, Zenon DEF PieceSet
    <2>4. IsJoin(left[k], <<p>>, l)
      BY <1>9, <1>16, Zenon DEF IsJoin
    <2>5. /\ a # <<>> /\ a[1] = p.value /\ Tail(a) = Args(l) /\ Tail(a) # a
          /\ Len(a) = Len(left[k])
      BY <1>3, <1>8, <2>3, <2>4, ArgsTail
    <2>6. left[k][1] = p /\ Len(left[k]) = 1 + Len(l)
      BY <1>8, <2>3, <2>4, OneBefore
    <2>7. FieldsOf(t) = left[0]
      <3>1. FieldsOf(t) = Joined(Pieces(t))
        BY Zenon DEF FieldsOf, Pieces
      <3> QED
        BY <1>3, <3>1, Zenon DEF Rests
    <2>8. left[0][Len(left[0]) - Len(left[k]) + 1] = left[k][1]
      <3>1. \A i \in 1..Len(left[k]) : left[0][Len(left[0]) - Len(left[k]) + i] = left[k][i]
        BY <1>2, <1>3, Zenon DEF Rests
      <3>2. Len(l) \in Nat
        BY <1>8
      <3>3. 1 \in 1..Len(left[k])
        BY <2>6, <3>2
      <3> QED
        BY <3>1, <3>3, Zenon
    <2>9. FieldsOf(t)[Len(FieldsOf(t)) - Len(a) + 1] = p
      BY <2>5, <2>6, <2>7, <2>8, Zenon
    <2>10. MeetsNumber(p, f, r, a, Args(l), FieldsOf(t))
      BY <1>16, <2>2, <2>5, <2>9, Zenon DEF MeetsNumber
    <2> QED
      BY <1>2, <1>5, <1>6, <1>7, <1>8, <1>10, <1>11, <2>10, Zenon
  <1>17. IsChar(p) \/ IsNumber(p) \/ (IsCut(p) /\ k + 1 = n)
    BY <1>2, <1>5, <1>6, Zenon
  <1> QED
    BY <1>14, <1>15, <1>16, <1>17

(***************************************************************************)
(* Where it has ended no argument is left.                                 *)
(***************************************************************************)
LEMMA Finished ==
  ASSUME NEW t \in PRINTED_TEXTS, NEW k, NEW rest, NEW left, NEW a, At(k, rest, left, t, <<>>, a)
  PROVE  a = <<>>
  <1>1. PICK n \in Nat : TextIs(t, n)
    BY TextFacts
  <1>2. /\ n = Len(t) /\ Formats(t) \in Seq(Seq(Glyphs(t))) /\ Len(Formats(t)) = n /\ Len(Pieces(t)) = n
        /\ \A i \in 1..n : Formats(t)[i] = FormatOf(t[i]) /\ FormatOf(t[i]) # <<>>
    BY <1>1, Zenon DEF TextIs
  <1>3. /\ k \in 0..n /\ rest[k] = <<>> /\ a = Args(left[k])
        /\ Rests(rest, Formats(t), Glyphs(t)) /\ Rests(left, Pieces(t), PieceSet(t))
    BY <1>2, Zenon DEF At
  <1>4. CASE k = n
    <2>1. left[k] = <<>>
      BY <1>2, <1>3, <1>4, Zenon DEF Rests
    <2>2. Args(<<>>) = <<>>
      BY DEF Args
    <2> QED
      BY <1>3, <2>1, <2>2
  <1>5. CASE k # n
    <2>1. k \in 0..(n - 1) /\ k + 1 \in 1..n /\ k + 1 \in 0..n
      BY <1>3, <1>5
    <2>2. rest[k] = Formats(t)[k + 1] \o rest[k + 1]
      BY <1>2, <1>3, <2>1, Zenon DEF Rests
    <2>3. rest[k + 1] \in Seq(Glyphs(t))
      <3>1. rest \in [0..n -> Seq(Glyphs(t))]
        BY <1>2, <1>3, Zenon DEF Rests
      <3> QED
        BY <2>1, <3>1
    <2>4. Formats(t)[k + 1] \in Seq(Glyphs(t)) /\ Formats(t)[k + 1] # <<>>
      <3>1. Formats(t)[k + 1] # <<>>
        BY <1>2, <2>1
      <3>2. Formats(t)[k + 1] \in Seq(Glyphs(t))
        BY <1>2, <2>1
      <3> QED
        BY <3>1, <3>2
    <2>5. rest[k] # <<>>
      BY <2>2, <2>3, <2>4
    <2> QED
      BY <1>3, <2>5
  <1> QED
    BY <1>4, <1>5

(***************************************************************************)
(* There are no more arguments than pieces.                                *)
(***************************************************************************)
LEMMA FewArguments ==
  ASSUME NEW t \in PRINTED_TEXTS, NEW k, NEW rest, NEW left, NEW f, NEW a, At(k, rest, left, t, f, a)
  PROVE  Len(a) <= Len(t)
  <1>1. PICK n \in Nat : TextIs(t, n)
    BY TextFacts
  <1>2. /\ n = Len(t) /\ Pieces(t) \in Seq(Seq(PieceSet(t))) /\ Len(Pieces(t)) = n
        /\ \A i \in 1..n : Len(Pieces(t)[i]) <= 1
    BY <1>1, Zenon DEF TextIs
  <1>3. k \in 0..n /\ a = Args(left[k]) /\ Rests(left, Pieces(t), PieceSet(t))
    BY <1>2, Zenon DEF At
  <1>4. \A i \in 1..Len(Pieces(t)) : Len(Pieces(t)[i]) <= 1
    BY <1>2
  <1>5. \A i \in 0..Len(Pieces(t)) : Len(left[i]) <= Len(Pieces(t))
    BY <1>2, <1>3, <1>4, RestsShort
  <1>6. left[k] \in Seq(PieceSet(t))
    <2>1. left \in [0..n -> Seq(PieceSet(t))]
      BY <1>2, <1>3, Zenon DEF Rests
    <2> QED
      BY <1>3, <2>1
  <1>7. Len(a) = Len(left[k])
    BY <1>3, <1>6, ArgsAre
  <1> QED
    BY <1>2, <1>3, <1>5, <1>7

-----------------------------------------------------------------------------
(* The printing of a text *)

FormatSpec == FormatInit /\ [][FormatNext]_formatVars

\* A piece of the text has been reached, and the loop was left only at a field without a type.
FormatInv ==
  /\ asked \in PRINTED_TEXTS
  /\ shown \in Seq(Glyphs(asked))
  /\ overlong = FALSE /\ ranOff \in BOOLEAN
  /\ ranOff => asked[Len(asked)].type = "cut"
  /\ \E k, rest, left : At(k, rest, left, asked, fmt, ap)

\* What a step prints, and its other effects: what FieldsRight says of it.
StepRight ==
  LET fields == FieldsOf(asked)
      str == SubSeq(shown', Len(shown) + 1, Len(shown'))
  IN  /\ SubSeq(shown', 1, Len(shown)) = shown /\ ~ overlong'
      /\ ap' # ap => ShowsField(str, fields[Len(fields) - Len(ap) + 1])
      /\ ap' = ap => Len(str) <= 1
      /\ fmt' = <<>> => ap' = <<>>
      /\ ranOff' => asked[Len(asked)].type = "cut"

(***************************************************************************)
(* What is printed comes behind what has been.                             *)
(***************************************************************************)
LEMMA PrintedBehind ==
  ASSUME NEW S, NEW s \in Seq(S), NEW str \in Seq(S), NEW all, IsJoin(all, s, str)
  PROVE  all \in Seq(S) /\ SubSeq(all, 1, Len(s)) = s /\ SubSeq(all, Len(s) + 1, Len(all)) = str
  <1>1. PICK m \in Nat, n \in Nat : m = Len(s) /\ n = Len(str)
    OBVIOUS
  <1>2. JoinFacts(all, s, str, m, n, S)
    BY <1>1, JoinIs
  <1>3. /\ all \in Seq(S) /\ Len(all) = m + n
        /\ \A i \in 1..m : all[i] = s[i]
        /\ \A i \in 1..n : all[m + i] = str[i]
    BY <1>2 DEF JoinFacts
  <1> DEFINE x == SubSeq(all, 1, m)
             y == SubSeq(all, m + 1, m + n)
  <1>4. x \in Seq(S) /\ Len(x) = m /\ \A i \in 1..m : x[i] = all[i]
    BY <1>3
  <1>5. y \in Seq(S) /\ Len(y) = n /\ \A i \in 1..n : y[i] = all[m + i]
    BY <1>3
  <1> HIDE DEF x, y
  <1>6. x = s
    <2>1. \A i \in 1..m : x[i] = s[i]
      BY <1>3, <1>4
    <2> QED
      BY <1>1, <1>4, <2>1, SameSeq
  <1>7. y = str
    <2>1. \A i \in 1..n : y[i] = str[i]
      BY <1>3, <1>5
    <2> QED
      BY <1>1, <1>5, <2>1, SameSeq
  <1> QED
    BY <1>1, <1>3, <1>6, <1>7 DEF x, y

(***************************************************************************)
(* A step that prints nothing and keeps what is left is right.             *)
(***************************************************************************)
LEMMA NothingPrinted ==
  ASSUME FormatInv, UNCHANGED <<asked, fmt, ap, shown, overlong>>, ranOff' \in BOOLEAN,
         ranOff' => asked[Len(asked)].type = "cut"
  PROVE  FormatInv' /\ StepRight
  <1>1. FormatInv'
    BY Zenon DEF FormatInv
  <1>2. PICK n \in Nat : n = Len(shown)
    BY DEF FormatInv
  <1>3. shown' = shown /\ Len(shown') = n /\ shown \in Seq(Glyphs(asked))
    BY <1>2 DEF FormatInv
  <1>4. SubSeq(shown', 1, Len(shown)) = shown /\ SubSeq(shown', Len(shown) + 1, Len(shown')) = <<>>
    BY <1>2, <1>3
  <1>5. Len(<<>>) <= 1
    OBVIOUS
  <1>6. fmt' = <<>> => ap' = <<>>
    BY Finished, Zenon DEF FormatInv
  <1>7. ap' = ap /\ ~ overlong'
    BY DEF FormatInv
  <1> QED
    BY <1>1, <1>4, <1>5, <1>6, <1>7, Zenon DEF StepRight

(***************************************************************************)
(* The first piece is reached when the text is asked for.                  *)
(***************************************************************************)
LEMMA FormatStarts ==
  ASSUME FormatInit
  PROVE  FormatInv
  <1>1. fmt = Joined(Formats(asked)) /\ ap = Args(FieldsOf(asked)) /\ asked \in PRINTED_TEXTS
    BY Zenon DEF FormatInit, Formats, Args
  <1>2. \E rest, left : At(0, rest, left, asked, fmt, ap)
    BY <1>1, AtFirst
  <1>3. shown \in Seq(Glyphs(asked)) /\ overlong = FALSE /\ ranOff = FALSE
    BY DEF FormatInit
  <1> QED
    BY <1>1, <1>2, <1>3, Zenon DEF FormatInv

(***************************************************************************)
(* A character of the text is printed as it is.                            *)
(***************************************************************************)
LEMMA PrintCharRight ==
  ASSUME FormatInv, PrintChar
  PROVE  FormatInv' /\ StepRight
  <1>1. PICK k, rest, left : At(k, rest, left, asked, fmt, ap)
    BY Zenon DEF FormatInv
  <1>2. /\ asked \in PRINTED_TEXTS /\ shown \in Seq(Glyphs(asked)) /\ overlong = FALSE /\ ranOff \in BOOLEAN
        /\ ranOff => asked[Len(asked)].type = "cut"
    BY DEF FormatInv
  <1>3. /\ fmt # <<>> /\ fmt[1] # "%" /\ shown' = Append(shown, fmt[1]) /\ fmt' = Tail(fmt)
        /\ asked' = asked /\ ap' = ap /\ overlong' = overlong /\ ranOff' = ranOff
    BY DEF PrintChar
  <1>4. /\ At(k + 1, rest, left, asked, rest[k + 1], Args(left[k + 1]))
        /\ \/ MeetsChar(asked[k + 1], fmt, rest[k + 1], ap, Args(left[k + 1]))
                /\ asked[k + 1].char \in Glyphs(asked)
           \/ MeetsCut(asked[k + 1], fmt)
           \/ MeetsNumber(asked[k + 1], fmt, rest[k + 1], ap, Args(left[k + 1]), FieldsOf(asked))
    BY <1>1, <1>2, <1>3, Met, Zenon
  <1>5. fmt[1] \in Glyphs(asked) /\ fmt' = rest[k + 1] /\ ap' = Args(left[k + 1])
    BY <1>3, <1>4, Zenon DEF MeetsChar, MeetsCut, MeetsNumber
  <1>6. At(k + 1, rest, left, asked', fmt', ap')
    BY <1>3, <1>4, <1>5, Zenon
  <1>7. shown' = shown \o <<fmt[1]>> /\ <<fmt[1]>> \in Seq(Glyphs(asked)) /\ Len(<<fmt[1]>>) <= 1
    BY <1>2, <1>3, <1>5
  <1>8. /\ shown' \in Seq(Glyphs(asked)) /\ SubSeq(shown', 1, Len(shown)) = shown
        /\ SubSeq(shown', Len(shown) + 1, Len(shown')) = <<fmt[1]>>
    <2>1. PICK out : out = <<fmt[1]>>
      OBVIOUS
    <2>2. IsJoin(shown', shown, out) /\ out \in Seq(Glyphs(asked))
      BY <1>7, <2>1, Zenon DEF IsJoin
    <2>3. /\ shown' \in Seq(Glyphs(asked)) /\ SubSeq(shown', 1, Len(shown)) = shown
          /\ SubSeq(shown', Len(shown) + 1, Len(shown')) = out
      BY <1>2, <2>2, PrintedBehind
    <2> QED
      BY <2>1, <2>3, Zenon
  <1>9. FormatInv'
    BY <1>2, <1>3, <1>6, <1>8, Zenon DEF FormatInv
  <1>10. fmt' = <<>> => ap' = <<>>
    BY <1>2, <1>3, <1>6, Finished, Zenon
  <1> QED
    BY <1>2, <1>3, <1>7, <1>8, <1>9, <1>10, Zenon DEF StepRight

(***************************************************************************)
(* A number is printed as its field asks for it.                           *)
(***************************************************************************)
LEMMA PrintFieldRight ==
  ASSUME FormatInv, PrintField
  PROVE  FormatInv' /\ StepRight
  <1>1. PICK k, rest, left : At(k, rest, left, asked, fmt, ap)
    BY Zenon DEF FormatInv
  <1>2. /\ asked \in PRINTED_TEXTS /\ shown \in Seq(Glyphs(asked)) /\ overlong = FALSE /\ ranOff \in BOOLEAN
        /\ ranOff => asked[Len(asked)].type = "cut"
    BY DEF FormatInv
  <1>3. PICK d, str : d = Directive(Tail(fmt)) /\ str = Converted(d.type[1], ap[1])
    OBVIOUS
  <1>4. /\ fmt # <<>> /\ fmt[1] = "%" /\ d.type # <<>>
        /\ overlong' = (overlong \/ Len(str) + 1 > PRINTF_BUF)
        /\ shown' = shown \o Padstr(str, d.width, d.left, d.padchar)
        /\ fmt' = d.rest /\ ap' = Tail(ap) /\ asked' = asked /\ ranOff' = ranOff
    BY <1>3, Zenon DEF PrintField
  <1>5. PICK p : p = asked[k + 1]
    OBVIOUS
  <1>6. /\ At(k + 1, rest, left, asked, rest[k + 1], Args(left[k + 1]))
        /\ \/ MeetsChar(p, fmt, rest[k + 1], ap, Args(left[k + 1])) /\ p.char \in Glyphs(asked)
           \/ MeetsCut(p, fmt)
           \/ MeetsNumber(p, fmt, rest[k + 1], ap, Args(left[k + 1]), FieldsOf(asked))
    BY <1>1, <1>2, <1>4, <1>5, Met, Zenon
  <1>7. MeetsNumber(p, fmt, rest[k + 1], ap, Args(left[k + 1]), FieldsOf(asked))
    BY <1>3, <1>4, <1>6, Zenon DEF MeetsChar, MeetsCut, IsChar
  <1>8. /\ IsNumber(p) /\ Reads(d, p, rest[k + 1])
        /\ ap # <<>> /\ ap[1] = p.value /\ Tail(ap) = Args(left[k + 1]) /\ Tail(ap) # ap
        /\ FieldsOf(asked)[Len(FieldsOf(asked)) - Len(ap) + 1] = p
    BY <1>3, <1>7, Zenon DEF MeetsNumber
  <1>9. IsField(p) /\ p.type \in {"d", "x", "o"} /\ p.value \in Ints
    BY <1>8, Zenon DEF IsNumber
  <1>10. d.left = p.left /\ d.padchar = PadOf(p) /\ d.width = p.width /\ d.type = <<p.type>>
           /\ d.rest = rest[k + 1]
    <2>1. "cut" # "d" /\ "cut" # "x" /\ "cut" # "o"
      OBVIOUS
    <2>2. p.type # "cut"
      BY <1>9, <2>1, Zenon
    <2> QED
      BY <1>8, <2>2, Zenon DEF Reads
  <1>11. str = Converted(p.type, p.value)
    <2>1. <<p.type>>[1] = p.type
      OBVIOUS
    <2> QED
      BY <1>3, <1>8, <1>10, <2>1, Zenon
  <1>12. Converts(str, p.type, p.value)
    BY <1>9, <1>11, ConvertedRight
  <1>13. PICK out : out = Padstr(str, p.width, p.left, PadOf(p))
    OBVIOUS
  <1>14. ShowsField(out, p) /\ out \in Seq(DigitChars \cup {"-", "0", " "})
    BY <1>9, <1>12, <1>13, PadstrShows, Zenon
  <1>15. out \in Seq(Glyphs(asked))
    <2>1. DigitChars \cup {"-", "0", " "} \subseteq Glyphs(asked)
      BY DEF Glyphs
    <2> QED
      BY <1>14, <2>1, SeqWider
  <1>16. IsJoin(shown', shown, out)
    BY <1>4, <1>10, <1>13, Zenon DEF IsJoin
  <1>17. /\ shown' \in Seq(Glyphs(asked)) /\ SubSeq(shown', 1, Len(shown)) = shown
         /\ SubSeq(shown', Len(shown) + 1, Len(shown')) = out
    BY <1>2, <1>15, <1>16, PrintedBehind
  <1>18. overlong' = FALSE
    <2>1. Len(str) + 1 <= PRINTF_BUF /\ str \in Seq(DigitChars \cup {"-"})
      BY <1>12, Zenon DEF Converts
    <2>2. ~ Len(str) + 1 > PRINTF_BUF
      BY <2>1, FormatAssumption
    <2> QED
      BY <1>2, <1>4, <2>2
  <1>19. At(k + 1, rest, left, asked', fmt', ap')
    BY <1>4, <1>6, <1>8, <1>10, Zenon
  <1>20. FormatInv'
    BY <1>2, <1>4, <1>17, <1>18, <1>19, Zenon DEF FormatInv
  <1>21. fmt' = <<>> => ap' = <<>>
    BY <1>2, <1>4, <1>19, Finished, Zenon
  <1> QED
    BY <1>2, <1>4, <1>8, <1>14, <1>17, <1>18, <1>20, <1>21, Zenon DEF StepRight

(***************************************************************************)
(* Only a field without a type, the last of the text, ends the string      *)
(* within a directive.                                                     *)
(***************************************************************************)
LEMMA PrintRunsOffRight ==
  ASSUME FormatInv, PrintRunsOff
  PROVE  FormatInv' /\ StepRight
  <1>1. PICK k, rest, left : At(k, rest, left, asked, fmt, ap)
    BY Zenon DEF FormatInv
  <1>2. asked \in PRINTED_TEXTS
    BY DEF FormatInv
  <1>3. /\ fmt # <<>> /\ fmt[1] = "%" /\ Directive(Tail(fmt)).type = <<>> /\ ranOff' = TRUE
        /\ UNCHANGED <<asked, fmt, ap, shown, overlong>>
    BY Zenon DEF PrintRunsOff
  <1>4. \/ MeetsChar(asked[k + 1], fmt, rest[k + 1], ap, Args(left[k + 1]))
        \/ MeetsCut(asked[k + 1], fmt) /\ k + 1 = Len(asked)
        \/ MeetsNumber(asked[k + 1], fmt, rest[k + 1], ap, Args(left[k + 1]), FieldsOf(asked))
    BY <1>1, <1>2, <1>3, Met, Zenon
  <1>5. CASE MeetsChar(asked[k + 1], fmt, rest[k + 1], ap, Args(left[k + 1]))
    BY <1>3, <1>5, Zenon DEF MeetsChar, IsChar
  <1>6. CASE MeetsCut(asked[k + 1], fmt) /\ k + 1 = Len(asked)
    <2>1. asked[Len(asked)].type = "cut"
      BY <1>6, Zenon DEF MeetsCut, IsCut
    <2> QED
      BY <1>3, <2>1, NothingPrinted, Zenon
  <1>7. CASE MeetsNumber(asked[k + 1], fmt, rest[k + 1], ap, Args(left[k + 1]), FieldsOf(asked))
    <2>1. PICK type : type = asked[k + 1].type
      OBVIOUS
    <2>2. type \in {"d", "x", "o"} /\ (type = "cut" \/ <<type>> = <<>>)
      BY <1>3, <1>7, <2>1, Zenon DEF MeetsNumber, IsNumber, Reads
    <2> QED
      BY <2>2
  <1> QED
    BY <1>4, <1>5, <1>6, <1>7

(***************************************************************************)
(* Every step keeps the invariant, and is right.                           *)
(***************************************************************************)
LEMMA FormatStep ==
  ASSUME FormatInv, [FormatNext]_formatVars
  PROVE  FormatInv' /\ StepRight
  <1>1. CASE PrintChar
    BY <1>1, PrintCharRight
  <1>2. CASE PrintField
    BY <1>2, PrintFieldRight
  <1>3. CASE PrintRunsOff
    BY <1>3, PrintRunsOffRight
  <1>4. CASE UNCHANGED formatVars
    BY <1>4, NothingPrinted DEF formatVars, FormatInv
  <1> QED
    BY <1>1, <1>2, <1>3, <1>4 DEF FormatNext, PrintDone

(***************************************************************************)
(* Every number is shown in its field as the caller wrote it, the least    *)
(* int also, from a buffer that is long enough, and takes its own          *)
(* argument; the loop leaves the format string only where that ends within *)
(* a directive: for every text of characters and numeric fields, and every *)
(* width of an int that FormatAssumption allows.                           *)
(***************************************************************************)
THEOREM NumbersAreShown == FormatSpec => FieldsRight
  <1>1. FormatInit => FormatInv
    BY FormatStarts
  <1>2. FormatInv /\ [FormatNext]_formatVars => FormatInv'
    BY FormatStep
  <1>3. FormatInv /\ [FormatNext]_formatVars =>
          [LET fields == FieldsOf(asked)
               str == SubSeq(shown', Len(shown) + 1, Len(shown'))
           IN  /\ SubSeq(shown', 1, Len(shown)) = shown /\ ~ overlong'
               /\ ap' # ap => ShowsField(str, fields[Len(fields) - Len(ap) + 1])
               /\ ap' = ap => Len(str) <= 1
               /\ fmt' = <<>> => ap' = <<>>
               /\ ranOff' => asked[Len(asked)].type = "cut"]_formatVars
    BY FormatStep, Zenon DEF StepRight
  <1> QED
    BY <1>1, <1>2, <1>3, PTL DEF FormatSpec, FieldsRight

(***************************************************************************)
(* The type invariant: never more arguments than the text has pieces.      *)
(***************************************************************************)
THEOREM FormatTypes == FormatSpec => []FormatTypeOK
  <1>1. FormatInit => FormatInv
    BY FormatStarts
  <1>2. FormatInv /\ [FormatNext]_formatVars => FormatInv'
    BY FormatStep
  <1>3. FormatInv => FormatTypeOK
    BY FewArguments DEF FormatInv, FormatTypeOK
  <1> QED
    BY <1>1, <1>2, <1>3, PTL DEF FormatSpec
==============================================================================
