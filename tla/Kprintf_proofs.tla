--------------------------- MODULE Kprintf_proofs ---------------------------
(***************************************************************************)
(* Proofs about kprintf: what it writes stays inside its buffer, numbers   *)
(* are printed exactly, and the line gets the text in order.               *)
(***************************************************************************)
EXTENDS Kprintf, SequenceTheorems, WellFoundedInduction, TLAPS

(* A non-empty set of numbers has a least one.  The provers have no        *)
(* induction rule; a proof below that all numbers have a property takes    *)
(* the least that has it not.                                              *)
LEMMA LeastNat ==
  ASSUME NEW T, T \subseteq Nat, T # {}
  PROVE  \E x \in T : \A y \in T : x <= y
<1>1. \E x \in T : \A y \in T : ~ (<<y, x>> \in OpToRel(<, Nat))
  BY NatLessThanWellFounded, WFMin
<1>2. PICK x \in T : \A y \in T : ~ (<<y, x>> \in OpToRel(<, Nat))
  BY <1>1
<1>3. ASSUME NEW y \in T PROVE x <= y
  <2>1. <<y, x>> \notin OpToRel(<, Nat)
    BY <1>2
  <2>2. x \in Nat /\ y \in Nat
    OBVIOUS
  <2>3. ~ (y < x)
    BY <2>1, <2>2 DEF OpToRel
  <2> QED BY <2>2, <2>3
<1> QED BY <1>3

(* The greatest element of a set.                                          *)
LEMMA MaxIs ==
  ASSUME NEW S, NEW x \in S, S \subseteq Int, \A y \in S : y <= x
  PROVE  Max(S) = x
<1>1. \A y \in S : x >= y
  OBVIOUS
<1>2. \E z \in S : \A y \in S : z >= y
  BY <1>1
<1>3. Max(S) \in S /\ \A y \in S : Max(S) >= y
  BY <1>2 DEF Max
<1> DEFINE m == Max(S)
<1>4. m \in Int /\ x \in Int /\ m >= x /\ m <= x
  BY <1>3
<1> HIDE DEF m
<1>5. m = x
  BY <1>4
<1> QED BY <1>5 DEF m

-----------------------------------------------------------------------------
(* DigitsOf is defined by a recursive function: f is such a function for   *)
(* the numbers below N.                                                    *)
DigitsBelow(N, base, f) ==
  f = [n \in 0 .. N - 1 |->
         IF n < base THEN <<HexChars[n + 1]>>
         ELSE Append(f[n \div base], HexChars[(n % base) + 1])]

(* Each digit makes the number smaller.                                    *)
LEMMA DivBase ==
  ASSUME NEW v \in Nat, NEW base \in {10, 16}, v >= base
  PROVE  v \div base \in 0 .. v - 1 /\ v % base \in 0 .. base - 1
<1>1. CASE base = 10 BY <1>1
<1>2. CASE base = 16 BY <1>2
<1> QED BY <1>1, <1>2

(* There is one for N + 1 if there is one for N, and so for every N.       *)
LEMMA DigitsExtend ==
  ASSUME NEW N \in Nat, NEW base \in {10, 16}, NEW f, DigitsBelow(N, base, f)
  PROVE  \E g : DigitsBelow(N + 1, base, g)
<1> DEFINE g == [n \in 0 .. N |->
         IF n < base THEN <<HexChars[n + 1]>>
         ELSE Append(f[n \div base], HexChars[(n % base) + 1])]
<1>1. ASSUME NEW n \in 0 .. N - 1
      PROVE  g[n] = f[n]
  <2>1. f[n] = IF n < base THEN <<HexChars[n + 1]>>
         ELSE Append(f[n \div base], HexChars[(n % base) + 1])
    BY DEF DigitsBelow
  <2> QED BY <2>1
<1>2. ASSUME NEW n \in 0 .. N, ~(n < base)
      PROVE  g[n \div base] = f[n \div base]
  <2>1. n \div base \in 0 .. N - 1
    BY <1>2, DivBase
  <2> HIDE DEF g
  <2> QED BY <1>1, <2>1
<1>3. g = [n \in 0 .. N |->
         IF n < base THEN <<HexChars[n + 1]>>
         ELSE Append(g[n \div base], HexChars[(n % base) + 1])]
  <2>1. ASSUME NEW n \in 0 .. N
        PROVE (IF n < base THEN <<HexChars[n + 1]>>
         ELSE Append(f[n \div base], HexChars[(n % base) + 1])) =
          IF n < base THEN <<HexChars[n + 1]>>
         ELSE Append(g[n \div base], HexChars[(n % base) + 1])
    <3> HIDE DEF g
    <3> QED BY <1>2
  <2> DEFINE a(n) == IF n < base THEN <<HexChars[n + 1]>>
         ELSE Append(f[n \div base], HexChars[(n % base) + 1])
         b(n) == IF n < base THEN <<HexChars[n + 1]>>
         ELSE Append(g[n \div base], HexChars[(n % base) + 1])
  <2>2. \A n \in 0 .. N : a(n) = b(n) BY <2>1
  <2> HIDE DEF a, b
  <2>3. [n \in 0 .. N |-> a(n)] = [n \in 0 .. N |-> b(n)] BY <2>2
  <2> USE DEF a, b
  <2> QED BY <2>3
<1>4. (N + 1) - 1 = N OBVIOUS
<1> HIDE DEF g
<1>5. DigitsBelow(N + 1, base, g) BY <1>3, <1>4 DEF DigitsBelow
<1> QED BY <1>5

LEMMA DigitsExist ==
  ASSUME NEW base \in {10, 16}
  PROVE \A n \in Nat : \E f : DigitsBelow(n, base, f)
<1> DEFINE T == {n \in Nat : ~ \E f : DigitsBelow(n, base, f)}
<1>1. SUFFICES ASSUME T # {} PROVE FALSE
  OBVIOUS
<1>2. PICK n \in T : \A m \in T : n <= m
  BY <1>1, LeastNat
<1>3. CASE n = 0
  <2> DEFINE f == [v \in {} |-> 0]
  <2>1. 0 .. n - 1 = {} BY <1>3
  <2>2. f = [v \in {} |->
         IF v < base THEN <<HexChars[v + 1]>>
         ELSE Append(f[v \div base], HexChars[(v % base) + 1])]
    OBVIOUS
  <2> HIDE DEF f
  <2>3. DigitsBelow(n, base, f) BY <2>1, <2>2 DEF DigitsBelow
  <2> QED BY <2>3
<1>4. CASE n # 0
  <2>1. n - 1 \in Nat /\ n - 1 \notin T /\ (n - 1) + 1 = n
    BY <1>2, <1>4
  <2>2. PICK f : DigitsBelow(n - 1, base, f)
    BY <2>1
  <2>3. \E g : DigitsBelow((n - 1) + 1, base, g)
    BY <2>1, <2>2, DigitsExtend
  <2> QED BY <2>1, <2>3
<1> QED BY <1>3, <1>4

(* So DigitsOf satisfies its equation.                                     *)
LEMMA DigitsEquation ==
  ASSUME NEW v \in 0 .. WORD - 1, NEW base \in {10, 16}
  PROVE  DigitsOf(v, base) =
       IF v < base THEN <<HexChars[v + 1]>>
       ELSE Append(DigitsOf(v \div base, base), HexChars[(v % base) + 1])
<1> DEFINE d == CHOOSE f : DigitsBelow(WORD, base, f)
<1>1. \E f : DigitsBelow(WORD, base, f)
  BY DigitsExist, KprintfConstants
<1>2. DigitsBelow(WORD, base, d)
  BY <1>1
<1>3. \A n : DigitsOf(n, base) = d[n]
  BY DEF DigitsOf, DigitsBelow
<1> HIDE DEF d
<1>4. d[v] = IF v < base THEN <<HexChars[v + 1]>>
             ELSE Append(d[v \div base], HexChars[(v % base) + 1])
  <2>1. d = [n \in 0 .. WORD - 1 |->
               IF n < base THEN <<HexChars[n + 1]>>
               ELSE Append(d[n \div base], HexChars[(n % base) + 1])]
    BY <1>2 DEF DigitsBelow
  <2> QED BY <2>1
<1> QED BY <1>3, <1>4, Zenon

(* The same for the powers of ten.                                         *)
PowersUpTo(N, f) ==
  f = [k \in 0 .. N |-> IF k = 0 THEN 1 ELSE 10 * f[k - 1]]

LEMMA PowersExist == \A N \in Nat : \E f : PowersUpTo(N, f)
<1> DEFINE T == {N \in Nat : ~ \E f : PowersUpTo(N, f)}
<1>1. SUFFICES ASSUME T # {} PROVE FALSE
  OBVIOUS
<1>2. PICK N \in T : \A m \in T : N <= m
  BY <1>1, LeastNat
<1>3. CASE N = 0
  <2> DEFINE f == [k \in 0 .. 0 |-> 1]
  <2>1. f = [k \in 0 .. N |-> IF k = 0 THEN 1 ELSE 10 * f[k - 1]]
    BY <1>3
  <2> HIDE DEF f
  <2> QED BY <2>1 DEF PowersUpTo
<1>4. CASE N # 0
  <2>1. N \in Nat /\ N - 1 \in Nat /\ N - 1 \notin T
    BY <1>2, <1>4
  <2>2. PICK f : PowersUpTo(N - 1, f)
    BY <2>1
  <2> DEFINE g == [k \in 0 .. N |-> IF k = 0 THEN 1 ELSE 10 * f[k - 1]]
  <2>3. ASSUME NEW k \in 0 .. N - 1 PROVE g[k] = f[k]
    BY <2>1, <2>2 DEF PowersUpTo
  <2>4. ASSUME NEW k \in 0 .. N, k # 0 PROVE g[k - 1] = f[k - 1]
    <3> HIDE DEF g
    <3>1. k - 1 \in 0 .. N - 1
      BY <2>1, <2>4
    <3> QED BY <2>3, <3>1
  <2>5. g = [k \in 0 .. N |-> IF k = 0 THEN 1 ELSE 10 * g[k - 1]]
    <3> DEFINE a(k) == IF k = 0 THEN 1 ELSE 10 * f[k - 1]
               b(k) == IF k = 0 THEN 1 ELSE 10 * g[k - 1]
    <3>1. \A k \in 0 .. N : a(k) = b(k)
      <4> HIDE DEF g
      <4> QED BY <2>4
    <3> HIDE DEF a, b
    <3>2. [k \in 0 .. N |-> a(k)] = [k \in 0 .. N |-> b(k)]
      BY <3>1
    <3> QED BY <3>2 DEF a, b
  <2> HIDE DEF g
  <2>6. PowersUpTo(N, g)
    BY <2>5 DEF PowersUpTo
  <2> QED BY <2>6
<1> QED BY <1>3, <1>4

LEMMA Powers ==
  /\ PowerOfTen[0] = 1
  /\ \A k \in 1 .. MAX_INT_DIGITS : PowerOfTen[k] = 10 * PowerOfTen[k - 1]
<1>1. \E f : PowersUpTo(MAX_INT_DIGITS, f)
  BY PowersExist, KprintfConstants
<1>2. PowerOfTen = CHOOSE f : PowersUpTo(MAX_INT_DIGITS, f)
  BY Zenon DEF PowerOfTen, PowersUpTo
<1>3. PowersUpTo(MAX_INT_DIGITS, PowerOfTen)
  BY <1>1, <1>2
<1>4. PowerOfTen = [k \in 0 .. MAX_INT_DIGITS |->
                      IF k = 0 THEN 1 ELSE 10 * PowerOfTen[k - 1]]
  BY <1>3 DEF PowersUpTo
<1>5. MAX_INT_DIGITS \in Nat
  BY KprintfConstants
<1> QED BY <1>4, <1>5

LEMMA PowersNat ==
  \A k \in 0 .. MAX_INT_DIGITS : PowerOfTen[k] \in Nat \ {0}
<1> DEFINE T == {k \in 0 .. MAX_INT_DIGITS : PowerOfTen[k] \notin Nat \ {0}}
<1>0. MAX_INT_DIGITS \in Nat
  BY KprintfConstants
<1>1. SUFFICES ASSUME T # {} PROVE FALSE
  OBVIOUS
<1>2. PICK k \in T : \A m \in T : k <= m
  <2>1. T \subseteq Nat
    BY <1>0
  <2> HIDE DEF T
  <2> QED BY <1>1, <2>1, LeastNat
<1>3. k # 0
  BY Powers
<1>4. k - 1 \in 0 .. MAX_INT_DIGITS /\ k - 1 \notin T /\ k \in 1 .. MAX_INT_DIGITS
  BY <1>0, <1>2, <1>3
<1> QED BY <1>4, Powers

-----------------------------------------------------------------------------
(* The value of a digit, in either case.                                   *)
LEMMA HexDigits ==
  ASSUME NEW d \in 1 .. 16
  PROVE  DigitValue(HexChars[d]) = d - 1 /\ HexChars[d] # "-"
<1> USE DEF HexChars
<1>1. d \in {1, 2, 3, 4, 5, 6, 7, 8, 9, 10, 11, 12, 13, 14, 15, 16}
  OBVIOUS
<1>2. HexChars[d] # "-"
  BY <1>1
<1>3. ASSUME NEW e \in 1 .. 16, HexChars[e] = HexChars[d]
        \/ (HexChars[e] \in DOMAIN Upper /\ Upper[HexChars[e]] = HexChars[d])
      PROVE e = d
  <2>1. e \in {1, 2, 3, 4, 5, 6, 7, 8, 9, 10, 11, 12, 13, 14, 15, 16}
    OBVIOUS
  <2>2. CASE HexChars[e] = HexChars[d]
    BY <2>1, <1>1, <2>2
  <2>3. CASE HexChars[e] \in DOMAIN Upper /\ Upper[HexChars[e]] = HexChars[d]
    BY <2>1, <1>1, <2>3 DEF Upper
  <2> QED BY <1>3, <2>2, <2>3
<1> QED
  <2> HIDE DEF HexChars
  <2> QED BY <1>2, <1>3 DEF DigitValue

LEMMA UpperDigits ==
  ASSUME NEW d \in 1 .. 16
  PROVE  /\ DigitValue(UpperChar(HexChars[d])) = d - 1
         /\ UpperChar(HexChars[d]) # "-"
<1>1. d \in {1, 2, 3, 4, 5, 6, 7, 8, 9, 10, 11, 12, 13, 14, 15, 16}
  OBVIOUS
<1>2. CASE HexChars[d] \notin DOMAIN Upper
  BY <1>2, HexDigits DEF UpperChar
<1>3. CASE HexChars[d] \in DOMAIN Upper
  <2>1. d \in {11, 12, 13, 14, 15, 16}
    BY <1>1, <1>3 DEF HexChars, Upper
  <2>2. Upper[HexChars[d]] # "-"
    BY <2>1 DEF HexChars, Upper
  <2>3. ASSUME NEW e \in 1 .. 16,
               \/ HexChars[e] = Upper[HexChars[d]]
               \/ /\ HexChars[e] \in DOMAIN Upper
                  /\ Upper[HexChars[e]] = Upper[HexChars[d]]
        PROVE  e = d
    <3>1. e \in {1, 2, 3, 4, 5, 6, 7, 8, 9, 10, 11, 12, 13, 14, 15, 16}
      OBVIOUS
    <3>2. HexChars[e] # Upper[HexChars[d]]
      BY <2>1, <3>1 DEF HexChars, Upper
    <3>3. e \in {11, 12, 13, 14, 15, 16}
      BY <2>3, <3>1, <3>2 DEF HexChars, Upper
    <3> QED BY <2>1, <2>3, <3>2, <3>3 DEF HexChars, Upper
  <2>4. DigitValue(Upper[HexChars[d]]) = d - 1
    BY <1>3, <2>3 DEF DigitValue
  <2> QED BY <1>3, <2>2, <2>4 DEF UpperChar
<1> QED BY <1>2, <1>3

-----------------------------------------------------------------------------
HexDigit == {HexChars[d] : d \in 1 .. 16}

(* The text of a number is a sequence of digits, and not empty.            *)
LEMMA DigitsAreHex ==
  ASSUME NEW base \in {10, 16}
  PROVE  \A v \in 0 .. WORD - 1 :
           DigitsOf(v, base) \in Seq(HexDigit) /\ Len(DigitsOf(v, base)) > 0
<1> DEFINE T == {v \in 0 .. WORD - 1 :
      ~ (DigitsOf(v, base) \in Seq(HexDigit) /\ Len(DigitsOf(v, base)) > 0)}
<1>1. SUFFICES ASSUME T # {} PROVE FALSE
  OBVIOUS
<1>2. WORD \in Nat /\ T \subseteq Nat
  BY KprintfConstants
<1>3. PICK v \in T : \A m \in T : v <= m
  <2> HIDE DEF T
  <2> QED BY <1>1, <1>2, LeastNat
<1>4. v \in 0 .. WORD - 1
  OBVIOUS
<1>5. CASE v < base
  <2>1. DigitsOf(v, base) = <<HexChars[v + 1]>>
    BY <1>4, <1>5, DigitsEquation
  <2> DEFINE c == HexChars[v + 1]
  <2>2. v + 1 \in 1 .. 16
    BY <1>2, <1>4, <1>5
  <2>3. c \in HexDigit
    BY <2>2, Zenon DEF HexDigit
  <2> HIDE DEF c
  <2>4. <<c>> \in Seq(HexDigit) /\ Len(<<c>>) > 0
    BY <2>3
  <2> QED BY <2>1, <2>4, Zenon DEF c
<1>6. CASE ~(v < base)
  <2> DEFINE w == v \div base
             c == HexChars[(v % base) + 1]
  <2>1. w \in 0 .. v - 1 /\ v % base \in 0 .. base - 1
    BY <1>2, <1>4, <1>6, DivBase
  <2>2. w \in 0 .. WORD - 1 /\ w \notin T
    <3> HIDE DEF w
    <3> QED BY <1>2, <1>3, <1>4, <2>1
  <2>3. c \in HexDigit
    <3>1. (v % base) + 1 \in 1 .. 16
      BY <2>1
    <3> QED BY <3>1, Zenon DEF HexDigit
  <2>4. DigitsOf(v, base) = Append(DigitsOf(w, base), c)
    BY <1>4, <1>6, DigitsEquation
  <2>5. DigitsOf(w, base) \in Seq(HexDigit) /\ Len(DigitsOf(w, base)) > 0
    BY <2>2
  <2> HIDE DEF w, c
  <2>6. Append(DigitsOf(w, base), c) \in Seq(HexDigit)
        /\ Len(Append(DigitsOf(w, base), c)) > 0
    BY <2>3, <2>5
  <2> QED BY <2>4, <2>6
<1> QED BY <1>5, <1>6

(* A number below a power of ten has at most that many digits.             *)
LEMMA DigitsLength ==
  ASSUME NEW base \in {10, 16}
  PROVE  \A v \in 0 .. WORD - 1 : \A k \in 1 .. MAX_INT_DIGITS :
           v < PowerOfTen[k] => Len(DigitsOf(v, base)) <= k
<1> DEFINE P(v) == \A k \in 1 .. MAX_INT_DIGITS :
                     v < PowerOfTen[k] => Len(DigitsOf(v, base)) <= k
           T == {v \in 0 .. WORD - 1 : ~ P(v)}
<1>1. SUFFICES ASSUME T # {} PROVE FALSE
  OBVIOUS
<1>2. WORD \in Nat /\ MAX_INT_DIGITS \in Nat /\ T \subseteq Nat
  BY KprintfConstants
<1>3. PICK v \in T : \A m \in T : v <= m
  <2> HIDE DEF T
  <2> QED BY <1>1, <1>2, LeastNat
<1>4. v \in 0 .. WORD - 1
  OBVIOUS
<1>5. PICK k \in 1 .. MAX_INT_DIGITS :
        v < PowerOfTen[k] /\ ~ (Len(DigitsOf(v, base)) <= k)
  OBVIOUS
<1>6. CASE v < base
  <2>1. DigitsOf(v, base) = <<HexChars[v + 1]>>
    BY <1>4, <1>6, DigitsEquation
  <2>2. Len(<<HexChars[v + 1]>>) = 1
    OBVIOUS
  <2> QED BY <1>2, <1>5, <2>1, <2>2
<1>7. CASE ~(v < base)
  <2> DEFINE w == v \div base
             c == HexChars[(v % base) + 1]
  <2>1. w \in 0 .. v - 1
    BY <1>2, <1>4, <1>7, DivBase
  <2>2. w \in 0 .. WORD - 1 /\ w \notin T
    <3> HIDE DEF w
    <3> QED BY <1>2, <1>3, <1>4, <2>1
  <2>3. k # 1
    <3>1. PowerOfTen[1] = 10
      BY <1>2, <1>5, Powers
    <3> QED BY <3>1, <1>4, <1>5, <1>7
  <2>4. /\ k - 1 \in 1 .. MAX_INT_DIGITS
        /\ PowerOfTen[k] = 10 * PowerOfTen[k - 1]
        /\ PowerOfTen[k - 1] \in Nat
    BY <2>3, <1>2, <1>5, Powers, PowersNat
  <2>5. w < PowerOfTen[k - 1]
    <3> DEFINE q == PowerOfTen[k - 1]
    <3>1. q \in Nat /\ v < 10 * q
      BY <1>5, <2>4
    <3> HIDE DEF q
    <3>2. v \div 10 < q /\ v \div 16 < q
      BY <3>1, <1>2, <1>4
    <3> QED BY <3>2 DEF q
  <2>6. DigitsOf(v, base) = Append(DigitsOf(w, base), c)
    BY <1>4, <1>7, DigitsEquation
  <2>7. Len(DigitsOf(w, base)) <= k - 1
    BY <2>2, <2>4, <2>5
  <2>8. DigitsOf(w, base) \in Seq(HexDigit)
    BY <2>2, DigitsAreHex
  <2> HIDE DEF w, c
  <2>9. Len(Append(DigitsOf(w, base), c)) = Len(DigitsOf(w, base)) + 1
        /\ Len(DigitsOf(w, base)) \in Nat
    BY <2>8
  <2> QED BY <1>5, <2>6, <2>7, <2>9
<1> QED BY <1>6, <1>7

-----------------------------------------------------------------------------
(* Denotes is a fold over the positions of a text: f gives what each set   *)
(* of positions amounts to, the last position first.                       *)
ValueOf(f, s, text, base) ==
  IF s = {} THEN 0 ELSE f[s \ {Max(s)}] * base + DigitValue(text[Max(s)])

ValuesOn(S, text, base, f) == f = [s \in SUBSET S |-> ValueOf(f, s, text, base)]

(* Denotes is such a function at all positions.                            *)
LEMMA DenotesFold ==
  ASSUME NEW text, NEW base
  PROVE  Denotes(text, base) =
           (CHOOSE f : ValuesOn(DOMAIN text, text, base, f))[DOMAIN text]
BY Zenon DEF Denotes, FoldLeft, MapThenFoldSet, ValuesOn, ValueOf

(* There is such a function for every number of positions.                 *)
LEMMA ValuesExist ==
  ASSUME NEW text, NEW base
  PROVE  \A N \in Nat : \E f : ValuesOn(1 .. N, text, base, f)
<1> DEFINE T == {N \in Nat : ~ \E f : ValuesOn(1 .. N, text, base, f)}
<1>1. SUFFICES ASSUME T # {} PROVE FALSE
  OBVIOUS
<1>2. PICK N \in T : \A m \in T : N <= m
  BY <1>1, LeastNat
<1>3. CASE N = 0
  <2> DEFINE f == [s \in SUBSET {} |-> 0]
  <2>1. 1 .. N = {}
    BY <1>3
  <2>2. \A s \in SUBSET {} : ValueOf(f, s, text, base) = 0
    BY DEF ValueOf
  <2>3. [s \in SUBSET {} |-> ValueOf(f, s, text, base)] = [s \in SUBSET {} |-> 0]
    BY <2>2, Zenon
  <2>4. ValuesOn({}, text, base, f)
    BY <2>3, Zenon DEF ValuesOn
  <2> QED BY <2>1, <2>4, Zenon
<1>4. CASE N # 0
  <2>1. N \in Nat /\ N - 1 \in Nat /\ N - 1 \notin T
    BY <1>2, <1>4
  <2>2. PICK f : ValuesOn(1 .. N - 1, text, base, f)
    BY <2>1
  <2> DEFINE g == [s \in SUBSET (1 .. N) |-> ValueOf(f, s, text, base)]
  <2>3. ASSUME NEW s \in SUBSET (1 .. N - 1) PROVE g[s] = f[s]
    <3>1. s \in SUBSET (1 .. N)
      BY <2>1
    <3>2. f[s] = ValueOf(f, s, text, base)
      BY <2>2, Zenon DEF ValuesOn
    <3> QED BY <3>1, <3>2, Zenon
  <2>4. ASSUME NEW s \in SUBSET (1 .. N), s # {} PROVE s \ {Max(s)} \in SUBSET (1 .. N - 1)
    <3>1. CASE N \in s
      <4>1. Max(s) = N
        <5>1. s \subseteq Int /\ \A y \in s : y <= N
          BY <2>1
        <5> QED BY <3>1, <5>1, MaxIs
      <4> QED BY <4>1, <2>1
    <3>2. CASE N \notin s
      <4>1. s \subseteq 1 .. N - 1
        BY <3>2, <2>1
      <4> QED BY <4>1
    <3> QED BY <3>1, <3>2
  <2>5. \A s \in SUBSET (1 .. N) : ValueOf(f, s, text, base) = ValueOf(g, s, text, base)
    <3> HIDE DEF g
    <3> QED BY <2>3, <2>4, Zenon DEF ValueOf
  <2>6. [s \in SUBSET (1 .. N) |-> ValueOf(f, s, text, base)]
          = [s \in SUBSET (1 .. N) |-> ValueOf(g, s, text, base)]
    <3> HIDE DEF g
    <3> QED BY <2>5, Zenon
  <2>7. ValuesOn(1 .. N, text, base, g)
    BY <2>6, Zenon DEF ValuesOn
  <2> QED BY <2>7, Zenon
<1> QED BY <1>3, <1>4

(* On the first k positions, f proceeds digit by digit.                    *)
Accumulates(N, text, base, f) ==
  /\ f[{}] = 0
  /\ \A k \in 1 .. N :
       f[1 .. k] = f[1 .. k - 1] * base + DigitValue(text[k])

LEMMA ValuesStep ==
  ASSUME NEW text, NEW base, NEW N \in Nat, NEW f,
         ValuesOn(1 .. N, text, base, f)
  PROVE  Accumulates(N, text, base, f)
<1>1. \A s \in SUBSET (1 .. N) : f[s] = ValueOf(f, s, text, base)
  BY Zenon DEF ValuesOn
<1>2. f[{}] = 0
  BY <1>1 DEF ValueOf
<1>3. ASSUME NEW k \in 1 .. N
      PROVE  f[1 .. k] = f[1 .. k - 1] * base + DigitValue(text[k])
  <2>1. k \in 1 .. k /\ 1 .. k \subseteq Int /\ \A y \in 1 .. k : y <= k
    OBVIOUS
  <2>2. Max(1 .. k) = k
    BY <2>1, MaxIs
  <2>3. (1 .. k) \ {k} = 1 .. k - 1 /\ 1 .. k \in SUBSET (1 .. N) /\ 1 .. k # {}
    BY <2>1
  <2>4. f[1 .. k] = ValueOf(f, 1 .. k, text, base)
    BY <1>1, <2>3, Zenon
  <2> QED BY <2>2, <2>3, <2>4, Zenon DEF ValueOf
<1> QED BY <1>2, <1>3 DEF Accumulates

LEMMA DenotesValues ==
  ASSUME NEW S, NEW text \in Seq(S), NEW base
  PROVE  \E f : /\ ValuesOn(1 .. Len(text), text, base, f)
               /\ Denotes(text, base) = f[1 .. Len(text)]
<1>1. DOMAIN text = 1 .. Len(text) /\ Len(text) \in Nat
  OBVIOUS
<1>2. \E f : ValuesOn(1 .. Len(text), text, base, f)
  BY <1>1, ValuesExist
<1> QED BY <1>1, <1>2, DenotesFold, Zenon

LEMMA DenotesEmpty ==
  ASSUME NEW base
  PROVE  Denotes(<<>>, base) = 0
<1>1. <<>> \in Seq({}) /\ 1 .. Len(<<>>) = {} /\ Len(<<>>) \in Nat
  OBVIOUS
<1>2. PICK f : /\ ValuesOn(1 .. Len(<<>>), <<>>, base, f)
               /\ Denotes(<<>>, base) = f[1 .. Len(<<>>)]
  BY <1>1, DenotesValues
<1>3. Accumulates(Len(<<>>), <<>>, base, f)
  BY <1>1, <1>2, ValuesStep
<1> QED BY <1>1, <1>2, <1>3, Zenon DEF Accumulates

(* A digit more: the others count base times as much.                      *)
LEMMA DenotesAppend ==
  ASSUME NEW S, NEW text \in Seq(S), NEW c \in S, NEW base
  PROVE  Denotes(Append(text, c), base) = Denotes(text, base) * base + DigitValue(c)
<1> DEFINE n == Len(text)
           more == Append(text, c)
<1>1. /\ n \in Nat /\ more \in Seq(S) /\ Len(more) = n + 1
      /\ more[n + 1] = c
      /\ \A k \in 1 .. n : more[k] = text[k]
  BY AppendProperties
<1>2. PICK f : /\ ValuesOn(1 .. n, text, base, f)
               /\ Denotes(text, base) = f[1 .. n]
  BY DenotesValues
<1> HIDE DEF more, n
<1>3. PICK g : /\ ValuesOn(1 .. n + 1, more, base, g)
               /\ Denotes(more, base) = g[1 .. n + 1]
  <2>1. PICK g : /\ ValuesOn(1 .. Len(more), more, base, g)
                 /\ Denotes(more, base) = g[1 .. Len(more)]
    BY <1>1, DenotesValues
  <2> QED BY <1>1, <2>1
<1>4. Accumulates(n, text, base, f)
  BY <1>1, <1>2, ValuesStep
<1>5. Accumulates(n + 1, more, base, g)
  BY <1>1, <1>3, ValuesStep
<1>6. g[1 .. n] = f[1 .. n]
  <2> DEFINE T == {k \in 0 .. n : g[1 .. k] # f[1 .. k]}
  <2>1. SUFFICES T = {}
    BY <1>1
  <2>2. SUFFICES ASSUME T # {} PROVE FALSE
    OBVIOUS
  <2>3. T \subseteq Nat
    BY <1>1
  <2>4. PICK k \in T : \A m \in T : k <= m
    <3> HIDE DEF T
    <3> QED BY <2>2, <2>3, LeastNat
  <2>5. k \in 0 .. n /\ g[1 .. k] # f[1 .. k]
    OBVIOUS
  <2>6. k # 0
    <3>1. 1 .. 0 = {}
      OBVIOUS
    <3> QED BY <2>5, <3>1, <1>4, <1>5, Zenon DEF Accumulates
  <2>7. k \in 1 .. n /\ k \in 1 .. n + 1 /\ k - 1 \in 0 .. n /\ k - 1 \notin T
    <3> HIDE DEF T
    <3> QED BY <1>1, <2>3, <2>4, <2>5, <2>6
  <2>8. g[1 .. k - 1] = f[1 .. k - 1]
    BY <2>7
  <2> QED BY <2>5, <2>7, <2>8, <1>1, <1>4, <1>5, Zenon DEF Accumulates
<1>7. n + 1 \in 1 .. n + 1 /\ (n + 1) - 1 = n
  BY <1>1
<1>8. g[1 .. n + 1] = g[1 .. n] * base + DigitValue(c)
  BY <1>1, <1>5, <1>7, Zenon DEF Accumulates
<1> QED BY <1>2, <1>3, <1>6, <1>8, Zenon DEF more

(* Leading zeros, as of pointers, do not change what a text denotes.       *)
LEMMA DenotesDigits ==
  ASSUME NEW base \in {10, 16}, NEW zeros \in Seq(HexDigit), Denotes(zeros, base) = 0
  PROVE  \A v \in 0 .. WORD - 1 : Denotes(zeros \o DigitsOf(v, base), base) = v
<1> DEFINE T == {v \in 0 .. WORD - 1 :
                   ~ (Denotes(zeros \o DigitsOf(v, base), base) = v)}
<1>1. SUFFICES ASSUME T # {} PROVE FALSE
  OBVIOUS
<1>2. WORD \in Nat /\ T \subseteq Nat
  BY KprintfConstants
<1>3. PICK v \in T : \A m \in T : v <= m
  <2> HIDE DEF T
  <2> QED BY <1>1, <1>2, LeastNat
<1>4. v \in 0 .. WORD - 1 /\ v \in Nat
  BY <1>2
<1>5. CASE v < base
  <2> DEFINE c == HexChars[v + 1]
  <2>1. v + 1 \in 1 .. 16
    BY <1>4, <1>5
  <2>2. c \in HexDigit /\ DigitValue(c) = v
    <3>1. DigitValue(c) = (v + 1) - 1
      BY <2>1, HexDigits
    <3>2. c \in HexDigit
      BY <2>1, Zenon DEF HexDigit
    <3> HIDE DEF c
    <3> QED BY <3>1, <3>2, <1>4
  <2>3. DigitsOf(v, base) = <<c>>
    BY <1>4, <1>5, DigitsEquation
  <2> HIDE DEF c
  <2>4. zeros \o <<c>> = Append(zeros, c)
    BY <2>2, AppendIsConcat
  <2>5. Denotes(Append(zeros, c), base) = Denotes(zeros, base) * base + DigitValue(c)
    BY <2>2, DenotesAppend
  <2>6. Denotes(Append(zeros, c), base) = v
    BY <2>2, <2>5, <1>4
  <2> QED BY <2>3, <2>4, <2>6
<1>6. CASE ~(v < base)
  <2> DEFINE w == v \div base
             r == v % base
             c == HexChars[r + 1]
  <2>1. w \in 0 .. v - 1 /\ r \in 0 .. base - 1
    BY <1>4, <1>6, DivBase
  <2>2. w \in 0 .. WORD - 1 /\ w \notin T
    <3> HIDE DEF w
    <3> QED BY <1>2, <1>3, <1>4, <2>1
  <2>3. c \in HexDigit /\ DigitValue(c) = r
    <3>1. r + 1 \in 1 .. 16
      BY <2>1
    <3> HIDE DEF r
    <3>2. DigitValue(c) = (r + 1) - 1
      BY <3>1, HexDigits
    <3>3. c \in HexDigit
      BY <3>1, Zenon DEF HexDigit
    <3> HIDE DEF c
    <3> QED BY <2>1, <3>2, <3>3
  <2>4. DigitsOf(v, base) = Append(DigitsOf(w, base), c)
    BY <1>4, <1>6, DigitsEquation
  <2>5. DigitsOf(w, base) \in Seq(HexDigit)
    BY <2>2, DigitsAreHex
  <2>6. w * base + r = v
    BY <1>4
  <2>7. Denotes(zeros \o DigitsOf(w, base), base) = w
    BY <2>2
  <2> HIDE DEF w, r, c
  <2>8. /\ zeros \o DigitsOf(w, base) \in Seq(HexDigit)
        /\ zeros \o Append(DigitsOf(w, base), c) = Append(zeros \o DigitsOf(w, base), c)
    BY <2>3, <2>5
  <2>9. Denotes(Append(zeros \o DigitsOf(w, base), c), base) = w * base + DigitValue(c)
    BY <2>3, <2>7, <2>8, DenotesAppend
  <2> QED BY <2>3, <2>4, <2>6, <2>8, <2>9
<1> QED BY <1>5, <1>6

(* Capital letters.                                                        *)
LEMMA UpperAppend ==
  ASSUME NEW S, NEW text \in Seq(S), NEW c \in S, NEW U, \A x \in S : UpperChar(x) \in U
  PROVE  /\ UpperText(text) \in Seq(U) /\ Len(UpperText(text)) = Len(text)
         /\ UpperText(Append(text, c)) = Append(UpperText(text), UpperChar(c))
BY DEF UpperText

UpperDigit == {UpperChar(x) : x \in HexDigit}

LEMMA DenotesUpper ==
  \A v \in 0 .. WORD - 1 : Denotes(UpperText(DigitsOf(v, 16)), 16) = v
<1> DEFINE T == {v \in 0 .. WORD - 1 :
                   ~ (Denotes(UpperText(DigitsOf(v, 16)), 16) = v)}
<1>1. SUFFICES ASSUME T # {} PROVE FALSE
  OBVIOUS
<1>2. WORD \in Nat /\ T \subseteq Nat
  BY KprintfConstants
<1>3. PICK v \in T : \A m \in T : v <= m
  <2> HIDE DEF T
  <2> QED BY <1>1, <1>2, LeastNat
<1>4. v \in 0 .. WORD - 1 /\ v \in Nat
  BY <1>2
<1>5. \A x \in HexDigit : UpperChar(x) \in UpperDigit
  BY Zenon DEF UpperDigit
<1>6. CASE v < 16
  <2> DEFINE c == HexChars[v + 1]
             u == UpperChar(c)
  <2>1. v + 1 \in 1 .. 16
    BY <1>4, <1>6
  <2>2. c \in HexDigit /\ u \in UpperDigit
    BY <2>1, <1>5, Zenon DEF HexDigit
  <2>3. DigitValue(u) = v
    <3>1. DigitValue(u) = (v + 1) - 1
      BY <2>1, UpperDigits, Zenon
    <3> HIDE DEF u
    <3> QED BY <3>1, <1>4
  <2>4. DigitsOf(v, 16) = <<c>>
    BY <1>4, <1>6, DigitsEquation
  <2> HIDE DEF u
  <2>5. UpperText(<<c>>) = Append(<<>>, u)
    BY DEF UpperText, u
  <2>6. Denotes(Append(<<>>, u), 16) = Denotes(<<>>, 16) * 16 + DigitValue(u)
    <3>1. <<>> \in Seq(UpperDigit)
      OBVIOUS
    <3> QED BY <2>2, <3>1, DenotesAppend
  <2>7. Denotes(Append(<<>>, u), 16) = v
    BY <2>3, <2>6, <1>4, DenotesEmpty
  <2> HIDE DEF c
  <2> QED BY <2>4, <2>5, <2>7
<1>7. CASE ~(v < 16)
  <2> DEFINE w == v \div 16
             r == v % 16
             c == HexChars[r + 1]
             u == UpperChar(c)
  <2>1. w \in 0 .. v - 1 /\ r \in 0 .. 15
    BY <1>4, <1>7
  <2>2. w \in 0 .. WORD - 1 /\ w \notin T
    <3> HIDE DEF w
    <3> QED BY <1>2, <1>3, <1>4, <2>1
  <2>3. c \in HexDigit /\ u \in UpperDigit /\ DigitValue(u) = r
    <3>1. r + 1 \in 1 .. 16
      BY <2>1
    <3> HIDE DEF r
    <3>2. DigitValue(u) = (r + 1) - 1
      BY <3>1, UpperDigits, Zenon
    <3>3. c \in HexDigit /\ u \in UpperDigit
      BY <3>1, <1>5, Zenon DEF HexDigit
    <3> HIDE DEF u, c
    <3> QED BY <2>1, <3>2, <3>3
  <2>4. DigitsOf(v, 16) = Append(DigitsOf(w, 16), c)
    BY <1>4, <1>7, DigitsEquation
  <2>5. DigitsOf(w, 16) \in Seq(HexDigit)
    BY <2>2, DigitsAreHex
  <2>6. w * 16 + r = v
    BY <1>4
  <2>7. Denotes(UpperText(DigitsOf(w, 16)), 16) = w
    BY <2>2
  <2>8. /\ UpperText(DigitsOf(w, 16)) \in Seq(UpperDigit)
        /\ UpperText(Append(DigitsOf(w, 16), c)) = Append(UpperText(DigitsOf(w, 16)), u)
    <3> HIDE DEF w, r, c
    <3> QED BY <2>3, <2>5, <1>5, UpperAppend
  <2> HIDE DEF w, r, c, u
  <2>9. Denotes(Append(UpperText(DigitsOf(w, 16)), u), 16) = w * 16 + DigitValue(u)
    BY <2>3, <2>7, <2>8, DenotesAppend
  <2> QED BY <2>3, <2>4, <2>6, <2>8, <2>9
<1> QED BY <1>6, <1>7

Zeros(n) == [k \in 1 .. n |-> "0"]

LEMMA ZerosSeq == \A n \in Nat : Zeros(n) \in Seq(HexDigit) /\ Len(Zeros(n)) = n
<1>1. "0" = HexChars[1] /\ 1 \in 1 .. 16
  BY DEF HexChars
<1>2. "0" \in HexDigit
  BY <1>1, Zenon DEF HexDigit
<1> QED BY <1>2 DEF Zeros

LEMMA DenotesZeros ==
  ASSUME NEW base \in {10, 16}
  PROVE  \A n \in Nat : Denotes(Zeros(n), base) = 0
<1> DEFINE T == {n \in Nat : ~ (Denotes(Zeros(n), base) = 0)}
<1>1. SUFFICES ASSUME T # {} PROVE FALSE
  OBVIOUS
<1>2. PICK n \in T : \A m \in T : n <= m
  <2>1. T \subseteq Nat
    OBVIOUS
  <2> HIDE DEF T
  <2> QED BY <1>1, <2>1, LeastNat
<1>3. CASE n = 0
  <2>1. Zeros(n) = <<>>
    BY <1>3 DEF Zeros
  <2> QED BY <2>1, DenotesEmpty
<1>4. CASE n # 0
  <2>1. n \in Nat /\ n - 1 \in Nat /\ n - 1 \notin T
    BY <1>2, <1>4
  <2>2. Zeros(n) = Append(Zeros(n - 1), "0")
    BY <2>1 DEF Zeros
  <2>3. Denotes(Zeros(n - 1), base) = 0 /\ Zeros(n - 1) \in Seq(HexDigit)
    BY <2>1, ZerosSeq
  <2>4. "0" = HexChars[1] /\ 1 \in 1 .. 16
    BY DEF HexChars
  <2>5. "0" \in HexDigit /\ DigitValue("0") = 1 - 1
    BY <2>4, HexDigits, Zenon DEF HexDigit
  <2>6. Denotes(Append(Zeros(n - 1), "0"), base)
          = Denotes(Zeros(n - 1), base) * base + DigitValue("0")
    BY <2>3, <2>5, DenotesAppend
  <2>7. Denotes(Zeros(n), base) = 0
    BY <2>2, <2>3, <2>5, <2>6
  <2> QED BY <2>7
<1> QED BY <1>3, <1>4

-----------------------------------------------------------------------------
(* What NumbersExact says of a number and its text; it holds for the text  *)
(* of every conversion.                                                    *)
Exact(value, base, text) ==
  LET sign   == text[1] = "-"
      digits == IF sign THEN Tail(text) ELSE text
  IN  /\ Len(text) <= MAX_INT_DIGITS - 1
      /\ sign = (value < 0)
      /\ Denotes(digits, base) = (IF sign THEN -value ELSE value)

LEMMA NoSign ==
  /\ \A c \in HexDigit : c # "-"
  /\ \A c \in UpperDigit : c # "-"
<1>1. ASSUME NEW c \in HexDigit PROVE c # "-" /\ UpperChar(c) # "-"
  <2>1. PICK d \in 1 .. 16 : c = HexChars[d]
    BY Zenon DEF HexDigit
  <2> QED BY <2>1, HexDigits, UpperDigits, Zenon
<1> QED BY <1>1, Zenon DEF UpperDigit

(* The longest texts: a word, and the sign and the digits of half a word.  *)
LEMMA TextLengths ==
  ASSUME NEW base \in {10, 16}, NEW v \in 0 .. WORD - 1
  PROVE  /\ Len(DigitsOf(v, base)) <= MAX_INT_DIGITS - 1
         /\ v + v <= WORD => Len(DigitsOf(v, base)) <= MAX_INT_DIGITS - 2
<1> DEFINE m == MAX_INT_DIGITS
<1>1. m \in Nat /\ m >= 3 /\ WORD \in Nat /\ v \in Nat
  BY KprintfConstants
<1>2. PowerOfTen[m - 1] = 10 * PowerOfTen[m - 2] /\ PowerOfTen[m - 2] \in Nat
  <2>1. m - 1 \in 1 .. MAX_INT_DIGITS /\ m - 2 \in 0 .. MAX_INT_DIGITS /\ (m - 1) - 1 = m - 2
    BY <1>1
  <2> QED BY <2>1, Powers, PowersNat
<1>3. WORD < 2 * PowerOfTen[m - 2]
  BY KprintfConstants
<1>4. v < PowerOfTen[m - 1] /\ (v + v <= WORD => v < PowerOfTen[m - 2])
  <2> DEFINE q == PowerOfTen[m - 2]
  <2>1. q \in Nat /\ WORD < 2 * q /\ PowerOfTen[m - 1] = 10 * q
    BY <1>2, <1>3
  <2> HIDE DEF q
  <2>2. v < 10 * q /\ (v + v <= WORD => v < q)
    BY <1>1, <2>1
  <2> QED BY <2>1, <2>2 DEF q
<1>5. m - 1 \in 1 .. MAX_INT_DIGITS /\ m - 2 \in 1 .. MAX_INT_DIGITS
  BY <1>1
<1> HIDE DEF m
<1>6. /\ Len(DigitsOf(v, base)) <= m - 1
      /\ v + v <= WORD => Len(DigitsOf(v, base)) <= m - 2
  BY <1>4, <1>5, DigitsLength
<1> QED BY <1>6 DEF m

LEMMA DigitsExact ==
  ASSUME NEW base \in {10, 16}, NEW v \in 0 .. WORD - 1
  PROVE  Exact(v, base, DigitsOf(v, base))
<1> DEFINE t == DigitsOf(v, base)
<1>1. t \in Seq(HexDigit) /\ Len(t) > 0
  BY DigitsAreHex
<1>2. Denotes(<<>> \o t, base) = v
  <2>1. <<>> \in Seq(HexDigit)
    OBVIOUS
  <2> QED BY <2>1, DenotesEmpty, DenotesDigits
<1>3. Len(t) <= MAX_INT_DIGITS - 1
  BY TextLengths
<1> HIDE DEF t
<1>4. <<>> \o t = t
  BY <1>1, ConcatEmptySeq
<1>5. t[1] # "-"
  BY <1>1, NoSign
<1>6. ~(v < 0)
  BY KprintfConstants
<1>7. Exact(v, base, t)
  BY <1>2, <1>3, <1>4, <1>5, <1>6 DEF Exact
<1> QED BY <1>7 DEF t

LEMMA UpperExact ==
  ASSUME NEW v \in 0 .. WORD - 1
  PROVE  /\ Exact(v, 16, UpperText(DigitsOf(v, 16)))
         /\ UpperText(DigitsOf(v, 16)) \in Seq(UpperDigit)
<1> DEFINE t == DigitsOf(v, 16)
           u == UpperText(t)
<1>1. t \in Seq(HexDigit) /\ Len(t) > 0
  BY DigitsAreHex
<1>2. Denotes(u, 16) = v
  BY DenotesUpper
<1>3. Len(t) <= MAX_INT_DIGITS - 1
  BY TextLengths
<1> HIDE DEF t
<1>4. \A x \in HexDigit : UpperChar(x) \in UpperDigit
  BY Zenon DEF UpperDigit
<1>5. u \in Seq(UpperDigit) /\ Len(u) = Len(t)
  BY <1>1, <1>4 DEF UpperText
<1> HIDE DEF u
<1>6. u[1] # "-"
  BY <1>1, <1>5, NoSign
<1>7. ~(v < 0)
  BY KprintfConstants
<1>8. Exact(v, 16, u)
  BY <1>2, <1>3, <1>5, <1>6, <1>7 DEF Exact
<1> QED BY <1>5, <1>8 DEF t, u

LEMMA PointerExact ==
  ASSUME NEW v \in 0 .. WORD - 1
  PROVE  /\ PointerText(v) \in Seq(HexDigit)
         /\ Len(PointerText(v)) > 1
         /\ Exact(v, 16, PointerText(v))
<1> DEFINE t == DigitsOf(v, 16)
           d == POINTER_DIGITS - Len(t)
           n == IF d > 0 THEN d ELSE 0
           z == Zeros(n)
<1>1. t \in Seq(HexDigit) /\ Len(t) > 0 /\ Len(t) \in Nat
  BY DigitsAreHex
<1>2. POINTER_DIGITS \in Nat /\ POINTER_DIGITS > 1 /\ POINTER_DIGITS <= MAX_INT_DIGITS - 1
      /\ MAX_INT_DIGITS \in Nat
  BY KprintfConstants
<1>3. Len(t) <= MAX_INT_DIGITS - 1
  BY TextLengths
<1>4. PointerText(v) = z \o t
  BY Zenon DEF PointerText, Zeros
<1>5. n \in Nat
  <2> HIDE DEF t
  <2> QED BY <1>1, <1>2
<1>6. z \in Seq(HexDigit) /\ Len(z) = n /\ Denotes(z, 16) = 0
  <2> HIDE DEF n
  <2> QED BY <1>5, ZerosSeq, DenotesZeros
<1>7. Denotes(z \o t, 16) = v
  <2> HIDE DEF z
  <2> QED BY <1>6, DenotesDigits
<1>8. Len(t) + n > 1 /\ Len(t) + n <= MAX_INT_DIGITS - 1
  <2> HIDE DEF t
  <2> QED BY <1>1, <1>2, <1>3
<1> HIDE DEF t, n, z
<1>9. z \o t \in Seq(HexDigit) /\ Len(z \o t) = n + Len(t)
  BY <1>1, <1>6
<1> DEFINE s == z \o t
<1>10. s \in Seq(HexDigit) /\ Len(s) > 1 /\ Len(s) <= MAX_INT_DIGITS - 1
  BY <1>1, <1>5, <1>8, <1>9
<1> HIDE DEF s
<1>11. s[1] # "-"
  BY <1>10, NoSign
<1>12. ~(v < 0)
  BY KprintfConstants
<1>13. Exact(v, 16, s)
  BY <1>7, <1>10, <1>11, <1>12 DEF Exact, s
<1> QED BY <1>4, <1>10, <1>13 DEF s

LEMMA SignedExact ==
  ASSUME NEW v, v \in 0 .. WORD - 1 \/ (-v \in 1 .. WORD - 1 /\ v \in Int),
         v + v <= WORD, - WORD <= v + v
  PROVE  /\ Exact(v, 10, SignedText(v))
         /\ SignedText(v) \in Seq(HexDigit \cup {"-"})
<1>1. CASE v \in 0 .. WORD - 1
  <2>1. ~(v < 0)
    BY <1>1, KprintfConstants
  <2>2. SignedText(v) = DigitsOf(v, 10)
    BY <2>1 DEF SignedText
  <2>3. DigitsOf(v, 10) \in Seq(HexDigit \cup {"-"})
    <3>1. DigitsOf(v, 10) \in Seq(HexDigit)
      BY <1>1, DigitsAreHex
    <3> QED BY <3>1, SeqMonotonic
  <2> QED BY <1>1, <2>2, <2>3, DigitsExact
<1>2. CASE -v \in 1 .. WORD - 1 /\ v \in Int
  <2> DEFINE w == -v
             t == DigitsOf(w, 10)
             s == <<"-">> \o t
  <2>1. w \in 0 .. WORD - 1 /\ v < 0 /\ w + w <= WORD
    BY <1>2, KprintfConstants
  <2> HIDE DEF w
  <2>2. t \in Seq(HexDigit) /\ Len(t) > 0 /\ Len(t) <= MAX_INT_DIGITS - 2
    BY <2>1, DigitsAreHex, TextLengths
  <2>3. Denotes(<<>> \o t, 10) = w
    <3>1. <<>> \in Seq(HexDigit)
      OBVIOUS
    <3> QED BY <2>1, <3>1, DenotesEmpty, DenotesDigits
  <2>4. SignedText(v) = s
    BY <2>1 DEF SignedText, w
  <2> HIDE DEF t
  <2>5. <<>> \o t = t
    BY <2>2, ConcatEmptySeq
  <2>6. /\ s \in Seq(HexDigit \cup {"-"}) /\ Len(s) = 1 + Len(t)
        /\ s[1] = "-" /\ Tail(s) = t
    BY <2>2
  <2> HIDE DEF s
  <2>7. MAX_INT_DIGITS \in Nat /\ Len(t) \in Nat
    BY <2>2, KprintfConstants
  <2>8. Len(s) <= MAX_INT_DIGITS - 1
    BY <2>2, <2>6, <2>7
  <2>9. Exact(v, 10, s)
    BY <2>1, <2>3, <2>5, <2>6, <2>8 DEF Exact, w
  <2> QED BY <2>4, <2>6, <2>9
<1> QED BY <1>1, <1>2

LEMMA Arguments ==
  ASSUME NEW v \in Values
  PROVE  /\ UnsignedArg(v) \in 0 .. WORD - 1
         /\ \/ SignedArg(v) \in 0 .. WORD - 1
            \/ -SignedArg(v) \in 1 .. WORD - 1 /\ SignedArg(v) \in Int
         /\ SignedArg(v) + SignedArg(v) <= WORD
         /\ - WORD <= SignedArg(v) + SignedArg(v)
<1>1. /\ v \in 0 .. WORD - 1 /\ WORD \in Nat /\ INT_WORD \in 1 .. WORD
      /\ v \in Nat /\ WORD > 0
  BY KprintfConstants
<1>2. ASSUME NEW n \in 1 .. WORD
      PROVE  /\ v % n \in 0 .. n - 1
             /\ v % n \in 0 .. WORD - 1
  BY <1>1
<1>3. UnsignedArg(v) \in 0 .. WORD - 1
  BY <1>1, <1>2 DEF UnsignedArg
<1> DEFINE n == IF IsWide THEN WORD ELSE INT_WORD
           r == v % n
<1>4. n \in 1 .. WORD
  BY <1>1
<1>5. r \in 0 .. n - 1
  <2> HIDE DEF n
  <2> QED BY <1>2, <1>4
<1>6. SignedArg(v) = IF r * 2 >= n THEN r - n ELSE r
  BY Zenon DEF SignedArg
<1> HIDE DEF n, r
<1>7. CASE r * 2 >= n
  BY <1>1, <1>3, <1>4, <1>5, <1>6, <1>7
<1>8. CASE ~(r * 2 >= n)
  BY <1>1, <1>3, <1>4, <1>5, <1>6, <1>8
<1> QED BY <1>7, <1>8

-----------------------------------------------------------------------------
LEMMA FormatSeq ==
  ASSUME format \in Formats
  PROVE  /\ format \in Seq(STRING) /\ Len(format) \in Nat
         /\ \A q \in 1 .. Len(format) : format[q] \in STRING
BY KprintfConstants

(* Skipping stops, at the terminator of the format at the latest.          *)
LEMMA SkipStops ==
  ASSUME format \in Formats, NEW q \in 1 .. Len(format) + 1,
         NEW skipped, "NUL" \notin skipped, NEW r, r = SkipAll(q, skipped)
  PROVE  /\ r \in q .. Len(format) + 1
         /\ Char(r) \notin skipped
         /\ \A k \in q .. r - 1 : Char(k) \in skipped
<1> DEFINE T == {k \in q .. Len(format) + 1 : Char(k) \notin skipped}
<1>1. Len(format) \in Nat
  BY FormatSeq
<1>2. Len(format) + 1 \in T
  BY <1>1 DEF Char
<1>3. T \subseteq Nat
  BY <1>1
<1>4. PICK x \in T : \A y \in T : x <= y
  <2> HIDE DEF T
  <2> QED BY <1>2, <1>3, LeastNat
<1>5. ASSUME NEW k \in q .. x - 1 PROVE Char(k) \in skipped
  BY <1>1, <1>4
<1>6. \E y \in q .. Len(format) + 1 :
        /\ Char(y) \notin skipped
        /\ \A k \in q .. y - 1 : Char(k) \in skipped
  BY <1>4, <1>5
<1> QED BY <1>6 DEF SkipAll

Skipped == Flags \cup Decimal \cup {"l", "z"}

LEMMA NulNotSkipped == "NUL" \notin Flags /\ "NUL" \notin Decimal
<1>1. "NUL" \notin Flags
  BY DEF Flags
<1>2. ASSUME NEW d \in 1 .. 10 PROVE "NUL" # HexChars[d]
  <2>1. d \in {1, 2, 3, 4, 5, 6, 7, 8, 9, 10}
    OBVIOUS
  <2> QED BY <2>1 DEF HexChars
<1> QED BY <1>1, <1>2, Zenon DEF Decimal

(* So does the search for the specifier, over nothing but flags, width and *)
(* length.                                                                 *)
LEMMA SpecifierInside ==
  ASSUME format \in Formats, p \in 1 .. Len(format), NEW s, s = Specifier
  PROVE  /\ s \in p + 1 .. Len(format) + 1
         /\ \A k \in p + 1 .. s - 1 : Char(k) \in Skipped
<1> DEFINE n == Len(format)
           f == SkipAll(p + 1, Flags)
           m == SkipAll(f, Decimal)
<1>1. n \in Nat /\ p \in Nat /\ p <= n
  BY FormatSeq
<1>2. /\ f \in p + 1 .. n + 1
      /\ \A k \in p + 1 .. f - 1 : Char(k) \in Flags
  <2>1. p + 1 \in 1 .. Len(format) + 1
    BY <1>1
  <2> QED BY <2>1, NulNotSkipped, SkipStops
<1> HIDE DEF f
<1>3. /\ m \in f .. n + 1
      /\ \A k \in f .. m - 1 : Char(k) \in Decimal
  <2>1. f \in 1 .. Len(format) + 1
    BY <1>1, <1>2
  <2> QED BY <2>1, NulNotSkipped, SkipStops
<1> HIDE DEF m
<1>4. m = Modifier
  BY DEF Modifier, m, f
<1>5. m \in p + 1 .. n + 1 /\ \A k \in p + 1 .. m - 1 : Char(k) \in Skipped
  BY <1>1, <1>2, <1>3 DEF Skipped
<1>6. \A k \in Nat : Char(k) # "NUL" => k <= n
  BY DEF Char
<1>7. CASE Char(m) = "l" /\ Char(m + 1) = "l"
  <2>1. s = m + 2
    BY <1>4, <1>7 DEF Specifier
  <2>2. m + 1 <= n
    BY <1>1, <1>5, <1>6, <1>7
  <2> QED BY <1>1, <1>5, <1>7, <2>1, <2>2 DEF Skipped
<1>8. CASE Char(m) = "l" /\ Char(m + 1) # "l"
  <2>1. s = m + 1
    BY <1>4, <1>8 DEF Specifier
  <2>2. m <= n
    BY <1>1, <1>5, <1>6, <1>8
  <2> QED BY <1>1, <1>5, <1>8, <2>1, <2>2 DEF Skipped
<1>9. CASE Char(m) = "z"
  <2>1. s = m + 1
    BY <1>4, <1>9 DEF Specifier
  <2>2. m <= n
    BY <1>1, <1>5, <1>6, <1>9
  <2> QED BY <1>1, <1>5, <1>9, <2>1, <2>2 DEF Skipped
<1>10. CASE Char(m) \notin {"l", "z"}
  <2>1. s = m
    BY <1>4, <1>10 DEF Specifier
  <2> QED BY <1>5, <2>1
<1> QED BY <1>7, <1>8, <1>9, <1>10

(* Where skipping stops is the only place where it can.                    *)
LEMMA SkipsTo ==
  ASSUME format \in Formats, NEW q \in 1 .. Len(format) + 1,
         NEW skipped, "NUL" \notin skipped,
         NEW r \in q .. Len(format) + 1, Char(r) \notin skipped,
         \A k \in q .. r - 1 : Char(k) \in skipped
  PROVE  SkipAll(q, skipped) = r
<1> DEFINE s == SkipAll(q, skipped)
<1>1. /\ s \in q .. Len(format) + 1
      /\ Char(s) \notin skipped
      /\ \A k \in q .. s - 1 : Char(k) \in skipped
  BY SkipStops
<1> HIDE DEF s
<1>2. Len(format) \in Nat
  BY FormatSeq
<1>3. ~(s < r) /\ ~(r < s)
  BY <1>1, <1>2
<1>4. s = r
  BY <1>1, <1>2, <1>3
<1> QED BY <1>4 DEF s

LEMMA LengthsNotSkipped ==
  \A c \in {"l", "z"} : c \notin Flags /\ c \notin Decimal
<1> SUFFICES ASSUME NEW c \in {"l", "z"} PROVE c \notin Flags /\ c \notin Decimal
  OBVIOUS
<1>1. c \notin Flags
  BY DEF Flags
<1>2. ASSUME NEW d \in 1 .. 10 PROVE c # HexChars[d]
  <2>1. d \in {1, 2, 3, 4, 5, 6, 7, 8, 9, 10}
    OBVIOUS
  <2> QED BY <2>1 DEF HexChars
<1> QED BY <1>1, <1>2, Zenon DEF Decimal

(* kprintf finds the end of a whole conversion.                            *)
LEMMA SpecifierEnds ==
  ASSUME format \in Formats, p \in 1 .. Len(format), NEW e,
         IsConversion(format, p, e)
  PROVE  Specifier = e
<1> DEFINE n == Len(format)
           r == SkipAll(p + 1, Flags)
<1>1. n \in Nat /\ p \in 1 .. n /\ e \in 1 .. n /\ format \in Seq(STRING)
      /\ \A k \in 1 .. n : Char(k) = format[k]
  BY FormatSeq DEF IsConversion, Char
<1>2. PICK w \in p + 1 .. e, m \in p + 1 .. e :
        /\ m \in w .. e
        /\ \A k \in p + 1 .. w - 1 : format[k] \in Flags
        /\ \A k \in w .. m - 1 : format[k] \in Decimal
        /\ SubSeq(format, m, e - 1) \in {<<>>, <<"l">>, <<"l", "l">>, <<"z">>}
  BY DEF IsConversion
<1>3. \/ m = e
      \/ m = e - 1 /\ Char(m) \in {"l", "z"}
      \/ m = e - 2 /\ Char(m) = "l" /\ Char(m + 1) = "l"
  <2> DEFINE t == SubSeq(format, m, e - 1)
  <2>1. /\ Len(t) = e - m
        /\ \A k \in 1 .. e - m : t[k] = format[m + k - 1]
    BY <1>1, <1>2
  <2>2. t \in {<<>>, <<"l">>, <<"l", "l">>, <<"z">>}
    BY <1>2
  <2> HIDE DEF t
  <2>3. \/ Len(t) = 0
        \/ Len(t) = 1 /\ t[1] \in {"l", "z"}
        \/ Len(t) = 2 /\ t[1] = "l" /\ t[2] = "l"
    <3>1. CASE t = <<>>
      BY <3>1
    <3>2. CASE t = <<"l">>
      BY <3>2
    <3>3. CASE t = <<"l", "l">>
      BY <3>3
    <3>4. CASE t = <<"z">>
      BY <3>4
    <3> QED BY <2>2, <3>1, <3>2, <3>3, <3>4
  <2> QED BY <1>1, <1>2, <2>1, <2>3
<1>4. Char(e) \notin Flags /\ Char(e) \notin Decimal /\ Char(e) \notin {"l", "z"}
  BY <1>1 DEF IsConversion
<1>5. Char(m) \notin Flags /\ Char(m) \notin Decimal
  BY <1>3, <1>4, LengthsNotSkipped
<1>6. /\ r \in p + 1 .. n + 1 /\ Char(r) \notin Flags
      /\ \A k \in p + 1 .. r - 1 : Char(k) \in Flags
  <2>1. p + 1 \in 1 .. Len(format) + 1
    BY <1>1
  <2> QED BY <2>1, NulNotSkipped, SkipStops
<1> HIDE DEF r
<1>7. r \in w .. m
  <2>1. ~(r < w)
    BY <1>1, <1>2, <1>6
  <2>2. ~(m < r)
    BY <1>1, <1>2, <1>5, <1>6
  <2> QED BY <1>1, <1>2, <1>6, <2>1, <2>2
<1>8. SkipAll(r, Decimal) = m
  <2>1. r \in 1 .. Len(format) + 1 /\ m \in r .. Len(format) + 1
    BY <1>1, <1>2, <1>7
  <2>2. \A k \in r .. m - 1 : Char(k) \in Decimal
    BY <1>1, <1>2, <1>7
  <2> QED BY <1>5, <2>1, <2>2, NulNotSkipped, SkipsTo
<1>9. Modifier = m
  BY <1>8 DEF Modifier, r
<1>10. CASE m = e
  BY <1>4, <1>9, <1>10 DEF Specifier
<1>11. CASE m = e - 1 /\ Char(m) \in {"l", "z"}
  <2>1. m + 1 = e
    BY <1>1, <1>2, <1>11
  <2> QED BY <1>4, <1>9, <1>11, <2>1 DEF Specifier
<1>12. CASE m = e - 2 /\ Char(m) = "l" /\ Char(m + 1) = "l"
  <2>1. m + 2 = e
    BY <1>1, <1>2, <1>12
  <2> QED BY <1>9, <1>12, <2>1 DEF Specifier
<1> QED BY <1>3, <1>10, <1>11, <1>12

-----------------------------------------------------------------------------
LEMMA MinPair ==
  ASSUME NEW a \in Int, NEW b \in Int
  PROVE  Min({a, b}) = IF a <= b THEN a ELSE b
<1>1. \E x \in {a, b} : \A y \in {a, b} : x <= y
  OBVIOUS
<1>2. Min({a, b}) \in {a, b} /\ \A y \in {a, b} : Min({a, b}) <= y
  BY <1>1 DEF Min
<1> DEFINE m == Min({a, b})
<1>3. m \in {a, b} /\ m <= a /\ m <= b
  BY <1>2
<1> HIDE DEF m
<1>4. m = IF a <= b THEN a ELSE b
  BY <1>3
<1> QED BY <1>4 DEF m

(* text is whole, or the start of whole that reaches the end of the buffer.*)
Fits(text, whole, used) ==
  /\ Len(text) <= Len(whole)
  /\ \A k \in 1 .. Len(text) : text[k] = whole[k]
  /\ used + Len(text) <= PRINTF_BUFFER_SIZE - 1
  /\ text = whole \/ used + Len(text) = PRINTF_BUFFER_SIZE - 1

LEMMA ClipFits ==
  ASSUME NEW S, NEW whole \in Seq(S), NEW used \in Nat,
         used < PRINTF_BUFFER_SIZE
  PROVE  Clip(whole, used) \in Seq(S) /\ Fits(Clip(whole, used), whole, used)
<1> DEFINE n == Len(whole)
           room == PRINTF_BUFFER_SIZE - used - 1
           m == IF n <= room THEN n ELSE room
           t == SubSeq(whole, 1, m)
<1>1. n \in Nat /\ room \in Nat /\ PRINTF_BUFFER_SIZE \in Nat
  BY KprintfConstants
<1>2. Clip(whole, used) = t
  BY <1>1, MinPair DEF Clip
<1>3. m \in 0 .. n /\ used + m <= PRINTF_BUFFER_SIZE - 1
      /\ (m = n \/ used + m = PRINTF_BUFFER_SIZE - 1)
  BY <1>1
<1> HIDE DEF m
<1>4. t \in Seq(S) /\ Len(t) = m /\ \A k \in 1 .. m : t[k] = whole[k]
  BY <1>1, <1>3
<1>5. m = n => t = whole
  BY SubSeqFull
<1> HIDE DEF t
<1> QED BY <1>1, <1>2, <1>3, <1>4, <1>5 DEF Fits

(* A sequence that agrees with y in its first n places.                    *)
LEMMA PrefixOf ==
  ASSUME NEW S, NEW x \in Seq(S), NEW y \in Seq(S), NEW n \in Nat,
         n <= Len(x), n <= Len(y), \A k \in 1 .. n : x[k] = y[k]
  PROVE  IsPrefix(SubSeq(x, 1, n), y)
<1> DEFINE a == SubSeq(x, 1, n)
           b == SubSeq(y, 1, n)
<1>1. a \in Seq(S) /\ Len(a) = n /\ \A k \in 1 .. n : a[k] = x[k]
  OBVIOUS
<1>2. b \in Seq(S) /\ Len(b) = n /\ \A k \in 1 .. n : b[k] = y[k]
  OBVIOUS
<1> HIDE DEF a, b
<1>3. a = b
  BY <1>1, <1>2, SeqEqual
<1>4. SubSeq(a, 1, Len(a)) = a
  BY <1>1, SubSeqFull
<1>5. IsPrefix(a, y)
  BY <1>1, <1>3, <1>4 DEF IsPrefix, b
<1> QED BY <1>5 DEF a

(* What TextCutAtEnd says of the text b and what it should be, w.          *)
CutAtEnd(b, w) ==
  IF Len(b) < PRINTF_BUFFER_SIZE - 1 THEN b = w
  ELSE IsPrefix(SubSeq(b, 1, PRINTF_BUFFER_SIZE - 3), w)

(* Appending what fits cuts the text at its end, if at all.                *)
LEMMA AppendFits ==
  ASSUME NEW S, NEW b \in Seq(S), NEW text \in Seq(S), NEW whole \in Seq(S),
         Fits(text, whole, Len(b))
  PROVE  /\ CutAtEnd(b \o text, b \o whole)
         /\ Len(b \o text) < PRINTF_BUFFER_SIZE
<1> DEFINE x == b \o text
           y == b \o whole
           n == PRINTF_BUFFER_SIZE - 3
<1>1. /\ x \in Seq(S) /\ Len(x) = Len(b) + Len(text)
      /\ \A k \in 1 .. Len(x) : x[k] = IF k <= Len(b) THEN b[k] ELSE text[k - Len(b)]
  BY ConcatProperties
<1>2. /\ y \in Seq(S) /\ Len(y) = Len(b) + Len(whole)
      /\ \A k \in 1 .. Len(y) : y[k] = IF k <= Len(b) THEN b[k] ELSE whole[k - Len(b)]
  BY ConcatProperties
<1>3. Len(b) \in Nat /\ Len(text) \in Nat /\ Len(whole) \in Nat
      /\ n \in Nat /\ PRINTF_BUFFER_SIZE \in Nat
  BY KprintfConstants
<1>4. text = whole => x = y
  OBVIOUS
<1> HIDE DEF x, y
<1>5. CASE Len(x) < PRINTF_BUFFER_SIZE - 1
  BY <1>1, <1>3, <1>4, <1>5 DEF Fits, CutAtEnd, x, y
<1>6. CASE ~(Len(x) < PRINTF_BUFFER_SIZE - 1)
  <2>1. n <= Len(x) /\ n <= Len(y) /\ Len(x) <= Len(y)
    BY <1>1, <1>2, <1>3, <1>6 DEF Fits
  <2>2. \A k \in 1 .. n : x[k] = y[k]
    <3> SUFFICES ASSUME NEW k \in 1 .. n PROVE x[k] = y[k]
      OBVIOUS
    <3>1. /\ x[k] = IF k <= Len(b) THEN b[k] ELSE text[k - Len(b)]
          /\ y[k] = IF k <= Len(b) THEN b[k] ELSE whole[k - Len(b)]
      BY <1>1, <1>2, <1>3, <2>1
    <3>2. ~(k <= Len(b)) => text[k - Len(b)] = whole[k - Len(b)]
      <4>1. ~(k <= Len(b)) => k - Len(b) \in 1 .. Len(text)
        BY <1>1, <1>3, <2>1
      <4> QED BY <4>1 DEF Fits
    <3> QED BY <3>1, <3>2
  <2>3. IsPrefix(SubSeq(x, 1, n), y)
    BY <1>1, <1>2, <1>3, <2>1, <2>2, PrefixOf
  <2> QED BY <1>1, <1>3, <1>6, <2>3 DEF Fits, CutAtEnd, x, y
<1> QED BY <1>5, <1>6

(* A pointer whose 0x has no room: its digits fill the last two places.    *)
LEMMA AppendBare ==
  ASSUME NEW S, NEW b \in Seq(S), NEW text \in Seq(S), NEW whole \in Seq(S),
         Len(b) >= PRINTF_BUFFER_SIZE - 3,
         Len(b) + Len(text) = PRINTF_BUFFER_SIZE - 1
  PROVE  /\ CutAtEnd(b \o text, b \o whole)
         /\ Len(b \o text) < PRINTF_BUFFER_SIZE
<1> DEFINE x == b \o text
           y == b \o whole
           n == PRINTF_BUFFER_SIZE - 3
<1>1. /\ x \in Seq(S) /\ Len(x) = Len(b) + Len(text)
      /\ \A k \in 1 .. Len(x) : x[k] = IF k <= Len(b) THEN b[k] ELSE text[k - Len(b)]
  BY ConcatProperties
<1>2. /\ y \in Seq(S) /\ Len(y) = Len(b) + Len(whole)
      /\ \A k \in 1 .. Len(y) : y[k] = IF k <= Len(b) THEN b[k] ELSE whole[k - Len(b)]
  BY ConcatProperties
<1>3. Len(b) \in Nat /\ Len(text) \in Nat /\ Len(whole) \in Nat
      /\ n \in Nat /\ PRINTF_BUFFER_SIZE \in Nat
  BY KprintfConstants
<1> HIDE DEF x, y
<1>4. n <= Len(b) /\ n <= Len(x) /\ n <= Len(y)
  BY <1>1, <1>2, <1>3
<1>5. \A k \in 1 .. n : x[k] = b[k] /\ y[k] = b[k]
  <2> HIDE DEF n
  <2> QED BY <1>1, <1>2, <1>3, <1>4
<1>6. IsPrefix(SubSeq(x, 1, n), y)
  BY <1>1, <1>2, <1>3, <1>4, <1>5, PrefixOf
<1> QED BY <1>1, <1>3, <1>6 DEF CutAtEnd, x, y

-----------------------------------------------------------------------------
(* The characters of a text.  (The provers do not know that a literal is   *)
(* a STRING.)                                                              *)
Character ==
  STRING \cup HexDigit \cup UpperDigit
    \cup {"NUL", "LF", "CR", "%", "-", "x", "(", "n", "u", "l", ")"}

TerminatorOf(b) ==
  \/ Len(b) < PRINTF_BUFFER_SIZE
  \/ /\ Len(b) = PRINTF_BUFFER_SIZE
     /\ b[PRINTF_BUFFER_SIZE - 1] = "%"
     /\ b[PRINTF_BUFFER_SIZE] \notin Supported

(* All texts are sequences of characters; the format loop is inside the    *)
(* format until it goes astray, and the output starts behind it.           *)
TextTypes ==
  /\ buffer \in Seq(Character) /\ full \in Seq(Character)
  /\ tx \in Seq(Character) /\ wire \in Seq(Character)

Progress ==
  /\ at = "format" => p <= Len(format) + 1
  /\ at \in {"format", "astray"} => out = 1
  /\ at = "cr" => out > 1

(* Whatever way there is to split the format into characters and whole     *)
(* conversions, the format loop is at one of the marks.                    *)
AtMark ==
  at = "format" =>
    \A marks \in SUBSET (1 .. Len(format) + 1) :
      Splits(format, marks) => p \in marks

(* What is emitted up to position q ends at a mark.                        *)
EndsAtMark(q) ==
  \A marks \in SUBSET (1 .. Len(format) + 1) :
    Splits(format, marks) => q + 1 \in marks

(* The inductive invariant.                                                *)
PrintInv ==
  /\ TypeOK /\ TextTypes /\ Progress /\ AtMark
  /\ TerminatorInside /\ TextCutAtEnd /\ NumbersExact /\ StaysInFormat

LEMMA PrintInit == Init => PrintInv
<1> SUFFICES ASSUME Init PROVE PrintInv
  OBVIOUS
<1> USE DEF Init
<1>1. format \in Seq(STRING) /\ Len(format) \in Nat
  BY FormatSeq
<1>2. tx \in Seq(STRING) /\ Len(tx) <= TX_SIZE
  BY KprintfConstants
<1>3. tx \in Seq(Character)
  BY <1>2, SeqMonotonic DEF Character
<1>4. TypeOK
  BY <1>1, <1>2 DEF TypeOK
<1>5. TextTypes /\ Progress
  BY <1>1, <1>3 DEF TextTypes, Progress
<1>6. TerminatorInside /\ TextCutAtEnd
  BY KprintfConstants DEF TerminatorInside, TextCutAtEnd
<1>7. NumbersExact
  <2>1. 0 \in 0 .. WORD - 1
    BY KprintfConstants
  <2>2. Exact(0, 10, DigitsOf(0, 10))
    BY <2>1, DigitsExact
  <2>3. DigitsOf(0, 10) = <<HexChars[1]>>
    BY <2>1, DigitsEquation
  <2>4. <<HexChars[1]>> = <<"0">>
    BY DEF HexChars
  <2>5. Exact(0, 10, <<"0">>)
    BY <2>2, <2>3, <2>4
  <2>6. num.value = 0 /\ num.base = 10 /\ num.text = <<"0">>
    OBVIOUS
  <2> QED BY <2>5, <2>6, Zenon DEF Exact, NumbersExact
<1>8. AtMark
  BY DEF AtMark, Splits
<1> QED BY <1>4, <1>5, <1>6, <1>7, <1>8 DEF PrintInv, StaysInFormat

(* A step of the format loop keeps the invariant if what it appends and    *)
(* where it goes on are right.                                             *)
LEMMA EmitKeeps ==
  ASSUME PrintInv, MoreFormat,
         NEW text \in Seq(Character), NEW whole \in Seq(Character),
         NEW q \in p .. Len(format) + 1,
         Emit(text, whole, q),
         NumbersExact',
         CutAtEnd(buffer \o text, full \o whole),
         TerminatorOf(buffer \o text),
         EndsAtMark(q)
  PROVE  PrintInv'
<1>1. /\ TypeOK /\ TextTypes /\ Progress /\ at = "format"
      /\ p \in Nat /\ p >= 1 /\ p <= Len(format) + 1 /\ Len(format) \in Nat
  BY FormatSeq DEF PrintInv, MoreFormat, TypeOK, Progress
<1>2. /\ buffer' = buffer \o text /\ full' = full \o whole /\ p' = q + 1
      /\ format' = format /\ out' = out /\ tx' = tx /\ wire' = wire
      /\ at' = IF q + 1 > Len(format) + 1 THEN "astray" ELSE "format"
  BY DEF Emit
<1>3. buffer' \in Seq(Character) /\ full' \in Seq(Character)
  BY <1>1, <1>2, ConcatProperties DEF TextTypes
<1>4. out = 1
  BY <1>1 DEF Progress
<1>5. TypeOK'
  BY <1>1, <1>2, <1>3, <1>4 DEF TypeOK
<1>6. TextTypes'
  BY <1>1, <1>2, <1>3 DEF TextTypes
<1>7. Progress'
  BY <1>1, <1>2, <1>4 DEF Progress
<1>8. TerminatorInside'
  BY <1>2 DEF TerminatorInside, TerminatorOf, Supported
<1>9. TextCutAtEnd'
  BY <1>2 DEF TextCutAtEnd, CutAtEnd
<1>10. StaysInFormat'
  <2> SUFFICES ASSUME at' = "astray", Whole(format) PROVE FALSE
    BY <1>2 DEF StaysInFormat
  <2>1. PICK marks \in SUBSET (1 .. Len(format) + 1) : Splits(format, marks)
    BY DEF Whole
  <2>2. q + 1 \in 1 .. Len(format) + 1
    BY <2>1 DEF EndsAtMark
  <2> QED BY <1>1, <1>2, <2>2
<1>11. AtMark'
  BY <1>2 DEF AtMark, EndsAtMark
<1> QED BY <1>5, <1>6, <1>7, <1>8, <1>9, <1>10, <1>11 DEF PrintInv

(* At the start of a step of the format loop.                              *)
LEMMA AtFormat ==
  ASSUME PrintInv, MoreFormat
  PROVE  /\ buffer = full /\ buffer \in Seq(Character) /\ Len(buffer) \in Nat
         /\ Len(buffer) < PRINTF_BUFFER_SIZE - 1
         /\ PRINTF_BUFFER_SIZE \in Nat
         /\ format \in Formats /\ p \in 1 .. Len(format) /\ Len(format) \in Nat
         /\ Char(p) \in Character
<1>1. format \in Formats /\ Len(format) \in Nat /\ p \in Nat /\ p >= 1
  BY FormatSeq DEF PrintInv, TypeOK
<1>2. p <= Len(format)
  BY <1>1 DEF MoreFormat, Char
<1>3. format[p] \in STRING
  BY <1>1, <1>2, FormatSeq
<1>4. Char(p) \in Character
  BY <1>2, <1>3 DEF Char, Character
<1> QED BY <1>1, <1>2, <1>4, KprintfConstants
        DEF PrintInv, MoreFormat, TextCutAtEnd, TextTypes

(* The conversion at p goes on behind its specifier.                       *)
LEMMA AtConversion ==
  ASSUME PrintInv, MoreFormat, Char(p) = "%"
  PROVE  /\ Specifier \in p .. Len(format) + 1
         /\ EndsAtMark(Specifier)
         /\ Char(Specifier) \in Character
<1> DEFINE s == Specifier
<1>1. format \in Formats /\ p \in 1 .. Len(format) /\ Len(format) \in Nat
  BY AtFormat
<1>2. /\ s \in p + 1 .. Len(format) + 1
      /\ \A k \in p + 1 .. s - 1 : Char(k) \in Skipped
  BY <1>1, SpecifierInside
<1> HIDE DEF s
<1>3. s \in p .. Len(format) + 1
  BY <1>1, <1>2
<1>4. EndsAtMark(s)
  <2> SUFFICES ASSUME NEW marks \in SUBSET (1 .. Len(format) + 1),
                      Splits(format, marks)
               PROVE  s + 1 \in marks
    BY DEF EndsAtMark
  <2>1. p \in marks /\ p # Len(format) + 1 /\ format[p] = "%"
    BY <1>1 DEF PrintInv, MoreFormat, AtMark, Char
  <2>2. PICK n \in marks : n > p /\ IsConversion(format, p, n - 1)
    BY <2>1 DEF Splits
  <2>3. s = n - 1
    BY <1>1, <2>2, SpecifierEnds DEF s
  <2>4. n \in Nat
    BY <1>1
  <2> QED BY <2>2, <2>3, <2>4
<1>5. Char(s) \in Character
  <2>1. s \in Nat /\ s >= 1
    BY <1>1, <1>3
  <2> QED BY <1>1, <2>1, FormatSeq DEF Char, Character
<1> QED BY <1>3, <1>4, <1>5 DEF s

(* A character always fits.                                                *)
LEMMA OneFits ==
  ASSUME PrintInv, MoreFormat, NEW c \in Character
  PROVE  /\ <<c>> \in Seq(Character)
         /\ CutAtEnd(buffer \o <<c>>, full \o <<c>>)
         /\ TerminatorOf(buffer \o <<c>>)
<1>1. <<c>> \in Seq(Character) /\ Len(<<c>>) = 1
  OBVIOUS
<1>2. Fits(<<c>>, <<c>>, Len(buffer))
  BY <1>1, AtFormat DEF Fits
<1> QED BY <1>1, <1>2, AtFormat, AppendFits DEF TerminatorOf

(* A text is cut to what fits.                                             *)
LEMMA ClippedFits ==
  ASSUME PrintInv, MoreFormat, NEW text \in Seq(Character)
  PROVE  /\ Clip(text, Len(buffer)) \in Seq(Character)
         /\ CutAtEnd(buffer \o Clip(text, Len(buffer)), full \o text)
         /\ TerminatorOf(buffer \o Clip(text, Len(buffer)))
<1>1. /\ Clip(text, Len(buffer)) \in Seq(Character)
      /\ Fits(Clip(text, Len(buffer)), text, Len(buffer))
  BY AtFormat, ClipFits
<1> QED BY <1>1, AtFormat, AppendFits DEF TerminatorOf


-----------------------------------------------------------------------------
(* One lemma per step of the format loop.                                  *)
LEMMA CopyCharKeeps == PrintInv /\ CopyChar => PrintInv'
<1> SUFFICES ASSUME PrintInv, CopyChar PROVE PrintInv'
  OBVIOUS
<1>1. MoreFormat /\ Emit(<<Char(p)>>, <<Char(p)>>, p) /\ num' = num
  BY DEF CopyChar
<1>2. Char(p) \in Character /\ p \in p .. Len(format) + 1 /\ p # Len(format) + 1
  BY <1>1, AtFormat
<1>3. NumbersExact'
  BY <1>1 DEF PrintInv, NumbersExact
<1>4. EndsAtMark(p)
  <2>1. p \in 1 .. Len(format) /\ format[p] # "%"
    BY <1>1, AtFormat DEF CopyChar, Char
  <2>2. at = "format"
    BY <1>1 DEF MoreFormat
  <2> QED BY <1>2, <2>1, <2>2 DEF PrintInv, AtMark, EndsAtMark, Splits, IsConversion
<1> QED BY <1>1, <1>2, <1>3, <1>4, OneFits, EmitKeeps

LEMMA ConvertCharKeeps == PrintInv /\ ConvertChar => PrintInv'
<1> SUFFICES ASSUME PrintInv, ConvertChar PROVE PrintInv'
  OBVIOUS
<1>1. PICK c \in Chars : Emit(<<c>>, <<c>>, Specifier)
  BY DEF ConvertChar
<1>2. MoreFormat /\ Char(p) = "%" /\ num' = num
  BY DEF ConvertChar, Conversion
<1>3. c \in Character
  BY KprintfConstants DEF Character
<1>4. NumbersExact'
  BY <1>2 DEF PrintInv, NumbersExact
<1> QED BY <1>1, <1>2, <1>3, <1>4, AtConversion, OneFits, EmitKeeps

LEMMA ConvertPercentKeeps == PrintInv /\ ConvertPercent => PrintInv'
<1> SUFFICES ASSUME PrintInv, ConvertPercent PROVE PrintInv'
  OBVIOUS
<1>1. Emit(<<"%">>, <<"%">>, Specifier)
  BY DEF ConvertPercent
<1>2. MoreFormat /\ Char(p) = "%" /\ num' = num
  BY DEF ConvertPercent, Conversion
<1>3. "%" \in Character
  BY DEF Character
<1>4. NumbersExact'
  BY <1>2 DEF PrintInv, NumbersExact
<1> QED BY <1>1, <1>2, <1>3, <1>4, AtConversion, OneFits, EmitKeeps

LEMMA ConvertStringKeeps == PrintInv /\ ConvertString => PrintInv'
<1> SUFFICES ASSUME PrintInv, ConvertString PROVE PrintInv'
  OBVIOUS
<1> DEFINE null == <<"(", "n", "u", "l", "l", ")">>
<1>1. PICK s \in Strings :
        LET str == IF s = <<"NULL">> THEN null ELSE s
        IN  Emit(Clip(str, Len(buffer)), str, Specifier)
  BY DEF ConvertString
<1>2. MoreFormat /\ Char(p) = "%" /\ num' = num
  BY DEF ConvertString, Conversion
<1> DEFINE str == IF s = <<"NULL">> THEN null ELSE s
<1>3. Emit(Clip(str, Len(buffer)), str, Specifier)
  BY <1>1
<1>4. str \in Seq(Character)
  <2>1. s \in Seq(Character)
    <3>1. s \in Seq(STRING)
      BY KprintfConstants
    <3> QED BY <3>1, SeqMonotonic DEF Character
  <2>2. null \in Seq(Character)
    BY DEF Character
  <2> HIDE DEF null
  <2> QED BY <2>1, <2>2
<1> HIDE DEF str
<1>5. NumbersExact'
  BY <1>2 DEF PrintInv, NumbersExact
<1> QED BY <1>2, <1>3, <1>4, <1>5, AtConversion, ClippedFits, EmitKeeps

(* Two characters at once may take the place of the terminator.            *)
LEMMA ConvertUnknownKeeps == PrintInv /\ ConvertUnknown => PrintInv'
<1> SUFFICES ASSUME PrintInv, ConvertUnknown PROVE PrintInv'
  OBVIOUS
<1> DEFINE c == Char(Specifier)
           text == <<"%", c>>
<1>1. Emit(text, text, Specifier)
  BY DEF ConvertUnknown
<1>2. MoreFormat /\ Char(p) = "%" /\ num' = num /\ c \notin Supported
  BY DEF ConvertUnknown
<1>3. c \in Character
  BY <1>2, AtConversion
<1> HIDE DEF c
<1>4. text \in Seq(Character) /\ Len(text) = 2 /\ text[1] = "%" /\ text[2] = c
  BY <1>3 DEF Character
<1> HIDE DEF text
<1> DEFINE b == buffer \o text
           n == PRINTF_BUFFER_SIZE - 3
<1>5. /\ buffer = full /\ buffer \in Seq(Character) /\ Len(buffer) \in Nat
      /\ Len(buffer) < PRINTF_BUFFER_SIZE - 1 /\ PRINTF_BUFFER_SIZE \in Nat
  BY <1>2, AtFormat
<1>6. /\ b \in Seq(Character) /\ Len(b) = Len(buffer) + 2
      /\ b[Len(buffer) + 1] = "%" /\ b[Len(buffer) + 2] = c
  <2>1. /\ b \in Seq(Character) /\ Len(b) = Len(buffer) + Len(text)
        /\ \A i \in 1 .. Len(buffer) + Len(text) :
             b[i] = IF i <= Len(buffer) THEN buffer[i] ELSE text[i - Len(buffer)]
    BY <1>4, <1>5, ConcatProperties
  <2> HIDE DEF b
  <2>2. /\ b[Len(buffer) + 1] = text[(Len(buffer) + 1) - Len(buffer)]
        /\ b[Len(buffer) + 2] = text[(Len(buffer) + 2) - Len(buffer)]
    BY <2>1, <1>4, <1>5
  <2> QED BY <2>1, <2>2, <1>4, <1>5
<1>7. n \in Nat
  BY KprintfConstants
<1> HIDE DEF b
<1>8. TerminatorOf(b)
  BY <1>2, <1>5, <1>6 DEF TerminatorOf
<1>9. CutAtEnd(b, b)
  <2>1. CASE Len(b) < PRINTF_BUFFER_SIZE - 1
    BY <2>1 DEF CutAtEnd
  <2>2. CASE ~(Len(b) < PRINTF_BUFFER_SIZE - 1)
    <3>1. n <= Len(b)
      BY <2>2, <1>5, <1>6
    <3>2. IsPrefix(SubSeq(b, 1, n), b)
      BY <3>1, <1>6, <1>7, PrefixOf
    <3> QED BY <2>2, <3>2 DEF CutAtEnd
  <2> QED BY <2>1, <2>2
<1>10. CutAtEnd(buffer \o text, full \o text) /\ TerminatorOf(buffer \o text)
  BY <1>5, <1>8, <1>9 DEF b
<1>11. NumbersExact'
  BY <1>2 DEF PrintInv, NumbersExact
<1> QED BY <1>1, <1>2, <1>4, <1>10, <1>11, AtConversion, EmitKeeps

(* A number without prefix.                                                *)
LEMMA NumberKeeps ==
  ASSUME PrintInv, MoreFormat, Char(p) = "%",
         NEW text \in Seq(Character), NEW value, NEW base,
         Exact(value, base, text),
         EmitNumber(<<>>, <<>>, text, value, base)
  PROVE  PrintInv'
<1> DEFINE cut == Clip(text, Len(buffer))
<1>1. Len(buffer) \in Nat /\ Len(buffer) + Len(<<>>) = Len(buffer)
  BY AtFormat
<1>2. Emit(<<>> \o cut, <<>> \o text, Specifier)
  BY <1>1 DEF EmitNumber
<1>3. /\ cut \in Seq(Character)
      /\ CutAtEnd(buffer \o cut, full \o text) /\ TerminatorOf(buffer \o cut)
  BY ClippedFits
<1> HIDE DEF cut
<1>4. <<>> \o cut = cut /\ <<>> \o text = text
  BY <1>3, ConcatEmptySeq
<1>5. NumbersExact'
  <2>1. num'.value = value /\ num'.base = base /\ num'.text = text
    BY DEF EmitNumber
  <2> QED BY <2>1, Zenon DEF NumbersExact, Exact
<1> QED BY <1>2, <1>3, <1>4, <1>5, AtConversion, EmitKeeps

LEMMA ConvertSignedKeeps == PrintInv /\ ConvertSigned => PrintInv'
<1> SUFFICES ASSUME PrintInv, ConvertSigned PROVE PrintInv'
  OBVIOUS
<1>1. PICK v \in Values :
        EmitNumber(<<>>, <<>>, SignedText(SignedArg(v)), SignedArg(v), 10)
  BY DEF ConvertSigned
<1>2. MoreFormat /\ Char(p) = "%"
  BY DEF ConvertSigned, Conversion
<1> DEFINE a == SignedArg(v)
           t == SignedText(a)
<1>3. Exact(a, 10, t) /\ t \in Seq(HexDigit \cup {"-"})
  BY Arguments, SignedExact
<1> HIDE DEF t
<1>4. t \in Seq(Character)
  BY <1>3, SeqMonotonic DEF Character
<1> QED BY <1>1, <1>2, <1>3, <1>4, NumberKeeps DEF t

LEMMA ConvertUnsignedKeeps == PrintInv /\ ConvertUnsigned => PrintInv'
<1> SUFFICES ASSUME PrintInv, ConvertUnsigned PROVE PrintInv'
  OBVIOUS
<1>1. PICK v \in Values :
        EmitNumber(<<>>, <<>>, DigitsOf(UnsignedArg(v), 10), UnsignedArg(v), 10)
  BY DEF ConvertUnsigned
<1>2. MoreFormat /\ Char(p) = "%"
  BY DEF ConvertUnsigned, Conversion
<1> DEFINE a == UnsignedArg(v)
           t == DigitsOf(a, 10)
<1>3. a \in 0 .. WORD - 1
  BY Arguments
<1> HIDE DEF a
<1>4. Exact(a, 10, t) /\ t \in Seq(HexDigit)
  BY <1>3, DigitsExact, DigitsAreHex
<1> HIDE DEF t
<1>5. t \in Seq(Character)
  BY <1>4, SeqMonotonic DEF Character
<1> QED BY <1>1, <1>2, <1>4, <1>5, NumberKeeps DEF t, a

LEMMA ConvertHexKeeps == PrintInv /\ ConvertHex => PrintInv'
<1> SUFFICES ASSUME PrintInv, ConvertHex PROVE PrintInv'
  OBVIOUS
<1>1. PICK v \in Values :
        LET low  == DigitsOf(UnsignedArg(v), 16)
            text == IF Char(Specifier) = "x" THEN low ELSE UpperText(low)
        IN  EmitNumber(<<>>, <<>>, text, UnsignedArg(v), 16)
  BY DEF ConvertHex
<1>2. MoreFormat /\ Char(p) = "%"
  BY DEF ConvertHex, Conversion
<1> DEFINE a == UnsignedArg(v)
           t == IF Char(Specifier) = "x" THEN DigitsOf(a, 16)
                ELSE UpperText(DigitsOf(a, 16))
<1>3. a \in 0 .. WORD - 1
  BY Arguments
<1>4. EmitNumber(<<>>, <<>>, t, a, 16)
  BY <1>1
<1> HIDE DEF a
<1>5. Exact(a, 16, t) /\ t \in Seq(HexDigit \cup UpperDigit)
  <2>1. Exact(a, 16, DigitsOf(a, 16)) /\ DigitsOf(a, 16) \in Seq(HexDigit)
    BY <1>3, DigitsExact, DigitsAreHex
  <2>2. /\ Exact(a, 16, UpperText(DigitsOf(a, 16)))
        /\ UpperText(DigitsOf(a, 16)) \in Seq(UpperDigit)
    BY <1>3, UpperExact
  <2>3. /\ DigitsOf(a, 16) \in Seq(HexDigit \cup UpperDigit)
        /\ UpperText(DigitsOf(a, 16)) \in Seq(HexDigit \cup UpperDigit)
    BY <2>1, <2>2, SeqMonotonic
  <2> QED BY <2>1, <2>2, <2>3
<1> HIDE DEF t
<1>6. t \in Seq(Character)
  BY <1>5, SeqMonotonic DEF Character
<1> QED BY <1>2, <1>4, <1>5, <1>6, NumberKeeps

LEMMA ConvertPointerKeeps == PrintInv /\ ConvertPointer => PrintInv'
<1> SUFFICES ASSUME PrintInv, ConvertPointer PROVE PrintInv'
  OBVIOUS
<1> DEFINE hex_0x == <<"0", "x">>
           prefix == IF Len(buffer) + 2 < PRINTF_BUFFER_SIZE - 1
                     THEN hex_0x ELSE <<>>
<1>1. PICK v \in Values : EmitNumber(prefix, hex_0x, PointerText(v), v, 16)
  BY DEF ConvertPointer
<1>2. MoreFormat /\ Char(p) = "%"
  BY DEF ConvertPointer, Conversion
<1> DEFINE t == PointerText(v)
           whole == hex_0x \o t
           used == Len(buffer) + Len(prefix)
           cut == Clip(t, used)
           text == prefix \o cut
<1>3. Exact(v, 16, t) /\ t \in Seq(HexDigit) /\ Len(t) > 1
  <2>1. v \in 0 .. WORD - 1
    BY KprintfConstants
  <2> QED BY <2>1, PointerExact
<1>4. Emit(text, whole, Specifier)
  BY <1>1 DEF EmitNumber
<1>5. NumbersExact'
  <2>1. num'.value = v /\ num'.base = 16 /\ num'.text = t
    BY <1>1 DEF EmitNumber
  <2> QED BY <2>1, <1>3, Zenon DEF NumbersExact, Exact
<1> HIDE DEF t
<1>6. t \in Seq(Character)
  BY <1>3, SeqMonotonic DEF Character
<1>7. hex_0x \in Seq(Character) /\ Len(hex_0x) = 2
  <2>1. "0" = HexChars[1] /\ 1 \in 1 .. 16
    BY DEF HexChars
  <2>2. "0" \in HexDigit
    BY <2>1, Zenon DEF HexDigit
  <2> QED BY <2>2 DEF Character
<1> HIDE DEF hex_0x
<1>8. /\ buffer = full /\ buffer \in Seq(Character) /\ Len(buffer) \in Nat
      /\ Len(buffer) < PRINTF_BUFFER_SIZE - 1 /\ PRINTF_BUFFER_SIZE \in Nat
  BY <1>2, AtFormat
<1>9. /\ prefix \in Seq(Character) /\ Len(prefix) \in Nat
      /\ used \in Nat /\ used < PRINTF_BUFFER_SIZE
  <2>1. CASE Len(buffer) + 2 < PRINTF_BUFFER_SIZE - 1
    <3>1. prefix = hex_0x
      BY <2>1
    <3> HIDE DEF prefix
    <3> QED BY <2>1, <3>1, <1>7, <1>8
  <2>2. CASE ~(Len(buffer) + 2 < PRINTF_BUFFER_SIZE - 1)
    <3>1. prefix = <<>> /\ Len(prefix) = 0
      BY <2>2
    <3>2. <<>> \in Seq(Character)
      OBVIOUS
    <3> HIDE DEF prefix
    <3> QED BY <3>1, <3>2, <1>8
  <2> QED BY <2>1, <2>2
<1>10. cut \in Seq(Character) /\ Fits(cut, t, used)
  <2> HIDE DEF used
  <2> QED BY <1>6, <1>9, ClipFits
<1>11. text \in Seq(Character) /\ whole \in Seq(Character)
  <2> HIDE DEF prefix, cut
  <2> QED BY <1>6, <1>7, <1>9, <1>10, ConcatProperties
<1>12. CutAtEnd(buffer \o text, full \o whole) /\ TerminatorOf(buffer \o text)
  <2>1. CASE Len(buffer) + 2 < PRINTF_BUFFER_SIZE - 1
    <3>1. prefix = hex_0x /\ used = Len(buffer) + 2
      BY <2>1, <1>7
    <3> HIDE DEF prefix, used, cut
    <3>2. /\ Len(text) = 2 + Len(cut) /\ Len(whole) = 2 + Len(t)
          /\ \A k \in 1 .. Len(text) :
               text[k] = IF k <= 2 THEN hex_0x[k] ELSE cut[k - 2]
          /\ \A k \in 1 .. Len(whole) :
               whole[k] = IF k <= 2 THEN hex_0x[k] ELSE t[k - 2]
      <4>1. text = hex_0x \o cut
        BY <3>1
      <4> HIDE DEF text
      <4>2. /\ Len(text) = Len(hex_0x) + Len(cut)
            /\ \A k \in 1 .. Len(hex_0x) + Len(cut) : text[k] =
                 IF k <= Len(hex_0x) THEN hex_0x[k] ELSE cut[k - Len(hex_0x)]
        BY <4>1, <1>7, <1>10, ConcatProperties
      <4>3. /\ Len(whole) = Len(hex_0x) + Len(t)
            /\ \A k \in 1 .. Len(hex_0x) + Len(t) : whole[k] =
                 IF k <= Len(hex_0x) THEN hex_0x[k] ELSE t[k - Len(hex_0x)]
        BY <1>6, <1>7, ConcatProperties
      <4> HIDE DEF whole
      <4> QED BY <4>2, <4>3, <1>7
    <3>3. cut = t => text = whole
      BY <3>1
    <3>4. Len(cut) \in Nat /\ Len(t) \in Nat
      BY <1>6, <1>10
    <3> HIDE DEF text, whole
    <3>5. \A k \in 1 .. Len(text) : text[k] = whole[k]
      <4> SUFFICES ASSUME NEW k \in 1 .. Len(text) PROVE text[k] = whole[k]
        OBVIOUS
      <4>1. k \in 1 .. Len(whole) /\ (~(k <= 2) => k - 2 \in 1 .. Len(cut))
        BY <3>2, <3>4, <1>10 DEF Fits
      <4>2. ~(k <= 2) => cut[k - 2] = t[k - 2]
        BY <4>1, <1>10 DEF Fits
      <4>3. /\ text[k] = IF k <= 2 THEN hex_0x[k] ELSE cut[k - 2]
            /\ whole[k] = IF k <= 2 THEN hex_0x[k] ELSE t[k - 2]
        BY <3>2, <4>1
      <4> QED BY <4>2, <4>3
    <3>6. Fits(text, whole, Len(buffer))
      BY <3>1, <3>2, <3>3, <3>4, <3>5, <1>8, <1>10 DEF Fits
    <3> QED BY <3>6, <1>8, <1>11, AppendFits DEF TerminatorOf
  <2>2. CASE ~(Len(buffer) + 2 < PRINTF_BUFFER_SIZE - 1)
    <3>1. prefix = <<>> /\ used = Len(buffer)
      BY <2>2, <1>8
    <3> HIDE DEF prefix, used, cut
    <3>2. text = cut
      BY <3>1, <1>10, ConcatEmptySeq
    <3>3. Len(buffer) + Len(text) = PRINTF_BUFFER_SIZE - 1
      BY <2>2, <3>1, <3>2, <1>3, <1>8, <1>10 DEF Fits
    <3>4. Len(buffer) >= PRINTF_BUFFER_SIZE - 3
      BY <2>2, <1>8
    <3> HIDE DEF text, whole
    <3> QED BY <3>3, <3>4, <1>8, <1>11, AppendBare DEF TerminatorOf
  <2> QED BY <2>1, <2>2
<1> HIDE DEF text, whole
<1> QED BY <1>2, <1>4, <1>5, <1>11, <1>12, AtConversion, EmitKeeps


-----------------------------------------------------------------------------
(* The steps behind the format loop leave the text alone.                  *)
LEMMA TextStays ==
  ASSUME PrintInv, UNCHANGED <<format, p, buffer, full, num>>,
         at' # "format", at' # "astray" \/ at = "astray"
  PROVE  /\ TerminatorInside' /\ TextCutAtEnd' /\ NumbersExact' /\ StaysInFormat'
         /\ AtMark'
         /\ buffer' \in Seq(Character) /\ full' \in Seq(Character)
BY DEF PrintInv, TextTypes, TerminatorInside, TextCutAtEnd, NumbersExact,
       StaysInFormat, AtMark, Supported

LEMMA OutputKeeps ==
  ASSUME PrintInv, EndOfFormat \/ PutChar \/ PutReturn \/ Return
  PROVE  PrintInv'
<1>1. /\ TypeOK /\ TextTypes /\ Progress
      /\ Len(format) \in Nat /\ Len(buffer) \in Nat /\ Len(tx) \in Nat
      /\ TX_SIZE \in Nat
  BY FormatSeq, KprintfConstants DEF PrintInv, TypeOK, TextTypes
<1>2. CASE EndOfFormat
  <2>1. UNCHANGED <<format, p, buffer, full, num>> /\ at' = "output"
    BY <1>2 DEF EndOfFormat
  <2>2. TypeOK' /\ TextTypes' /\ Progress'
    BY <1>1, <1>2 DEF EndOfFormat, TypeOK, TextTypes, Progress
  <2> QED BY <2>1, <2>2, TextStays DEF PrintInv
<1>3. CASE PutChar
  <2>1. UNCHANGED <<format, p, buffer, full, num, wire>>
    BY <1>3 DEF PutChar
  <2>2. /\ out \in 1 .. Len(buffer) /\ out' = out + 1
        /\ at' = IF buffer[out] = "LF" THEN "cr" ELSE "output"
    BY <1>1, <1>3 DEF PutChar, MoreOutput, NeedsReturn, TypeOK
  <2>3. buffer[out] \in Character
    BY <1>1, <2>2 DEF TextTypes
  <2>4. tx' = Append(tx, buffer[out]) /\ Len(tx) < TX_SIZE
    BY <1>3 DEF PutChar, TxReady, WriteDR
  <2>5. tx' \in Seq(Character) /\ Len(tx') <= TX_SIZE
    BY <1>1, <2>3, <2>4, AppendProperties DEF TextTypes
  <2>6. at' \in {"cr", "output"} /\ (at' = "cr" => buffer[out] = "LF")
    BY <2>2
  <2>7. TypeOK'
    <3>1. out' \in 1 .. Len(buffer') + 1 /\ out' - 1 = out
      BY <1>1, <2>1, <2>2
    <3> QED BY <1>1, <2>1, <2>5, <2>6, <3>1 DEF TypeOK
  <2>8. TextTypes' /\ Progress'
    BY <1>1, <2>1, <2>2, <2>5, <2>6 DEF TextTypes, Progress
  <2> QED BY <2>1, <2>6, <2>7, <2>8, TextStays DEF PrintInv
<1>4. CASE PutReturn
  <2>1. UNCHANGED <<format, p, buffer, out, full, num, wire>> /\ at' = "output"
    BY <1>4 DEF PutReturn
  <2>2. tx' = Append(tx, "CR") /\ Len(tx) < TX_SIZE
    BY <1>4 DEF PutReturn, TxReady, WriteDR
  <2>3. "CR" \in Character
    BY DEF Character
  <2>4. tx' \in Seq(Character) /\ Len(tx') <= TX_SIZE
    BY <1>1, <2>2, <2>3, AppendProperties DEF TextTypes
  <2>5. TypeOK' /\ TextTypes' /\ Progress'
    BY <1>1, <2>1, <2>4 DEF TypeOK, TextTypes, Progress
  <2> QED BY <2>1, <2>5, TextStays DEF PrintInv
<1>5. CASE Return
  <2>1. UNCHANGED <<format, p, buffer, full, num>> /\ at' = "done"
    BY <1>5 DEF Return
  <2>2. TypeOK' /\ TextTypes' /\ Progress'
    BY <1>1, <1>5 DEF Return, TypeOK, TextTypes, Progress
  <2> QED BY <2>1, <2>2, TextStays DEF PrintInv
<1> QED BY <1>2, <1>3, <1>4, <1>5

LEMMA TransmitKeeps == PrintInv /\ Transmit => PrintInv'
<1> SUFFICES ASSUME PrintInv, Transmit PROVE PrintInv'
  OBVIOUS
<1>1. /\ UNCHANGED <<format, p, buffer, out, at, full, num>>
      /\ tx # <<>> /\ wire' = Append(wire, Head(tx)) /\ tx' = Tail(tx)
  BY DEF Transmit
<1>2. tx \in Seq(Character) /\ wire \in Seq(Character) /\ Len(tx) <= TX_SIZE
      /\ TX_SIZE \in Nat
  BY KprintfConstants DEF PrintInv, TextTypes, TypeOK
<1>3. /\ tx' \in Seq(Character) /\ Len(tx') <= TX_SIZE
      /\ wire' \in Seq(Character)
  BY <1>1, <1>2, HeadTailProperties, AppendProperties
<1>4. TypeOK' /\ TextTypes' /\ Progress'
  BY <1>1, <1>3 DEF PrintInv, TypeOK, TextTypes, Progress
<1>5. TerminatorInside' /\ TextCutAtEnd' /\ NumbersExact' /\ StaysInFormat'
      /\ AtMark'
  BY <1>1 DEF PrintInv, TerminatorInside, TextCutAtEnd, NumbersExact,
       StaysInFormat, AtMark, Supported
<1> QED BY <1>4, <1>5 DEF PrintInv

LEMMA PrintStep == PrintInv /\ [Next]_vars => PrintInv'
<1> SUFFICES ASSUME PrintInv, [Next]_vars PROVE PrintInv'
  OBVIOUS
<1>1. CASE UNCHANGED vars
  <2>1. UNCHANGED <<format, p, buffer, out, tx, at, full, num, wire>>
    BY <1>1 DEF vars
  <2>2. TypeOK' /\ TextTypes' /\ Progress'
    BY <2>1 DEF PrintInv, TypeOK, TextTypes, Progress
  <2>3. TerminatorInside' /\ TextCutAtEnd' /\ NumbersExact' /\ StaysInFormat'
        /\ AtMark'
    BY <2>1 DEF PrintInv, TerminatorInside, TextCutAtEnd, NumbersExact,
         StaysInFormat, AtMark, Supported
  <2> QED BY <2>2, <2>3 DEF PrintInv
<1>2. CASE Kprintf
  BY <1>2, CopyCharKeeps, ConvertCharKeeps, ConvertStringKeeps,
     ConvertSignedKeeps, ConvertUnsignedKeeps, ConvertHexKeeps,
     ConvertPointerKeeps, ConvertPercentKeeps, ConvertUnknownKeeps,
     OutputKeeps DEF Kprintf
<1>3. CASE Transmit
  BY <1>3, TransmitKeeps
<1> QED BY <1>1, <1>2, <1>3 DEF Next

LEMMA PrintAlways == Spec => []PrintInv
BY PrintInit, PrintStep, PTL DEF Spec

(* The positions of kprintf stay inside its format and its buffer, and the *)
(* transmit FIFO inside its size, whatever the format and the arguments.   *)
THEOREM PrintTypeCorrect == Spec => []TypeOK
<1>1. PrintInv => TypeOK
  BY DEF PrintInv
<1> QED BY <1>1, PrintAlways, PTL

(* The terminator is written inside the buffer, however long the text, but *)
(* for the two characters of an unsupported conversion in the last place.  *)
THEOREM TerminatorAlwaysInside == Spec => []TerminatorInside
<1>1. PrintInv => TerminatorInside
  BY DEF PrintInv
<1> QED BY <1>1, PrintAlways, PTL

(* The buffer holds the start of the text the format and the arguments     *)
(* stand for: nothing is lost in the middle when the buffer fills up.      *)
THEOREM TextAlwaysCutAtEnd == Spec => []TextCutAtEnd
<1>1. PrintInv => TextCutAtEnd
  BY DEF PrintInv
<1> QED BY <1>1, PrintAlways, PTL

(* The digits written backwards into num_buf denote the argument, in       *)
(* either base, either case and with the zeros of a pointer, and num_buf   *)
(* is long enough for them.                                                *)
THEOREM NumbersAlwaysExact == Spec => []NumbersExact
<1>1. PrintInv => NumbersExact
  BY DEF PrintInv
<1> QED BY <1>1, PrintAlways, PTL

(* No format made of characters and whole conversions makes kprintf read   *)
(* on behind its terminator.                                               *)
THEOREM AlwaysStaysInFormat == Spec => []StaysInFormat
<1>1. PrintInv => StaysInFormat
  BY DEF PrintInv
<1> QED BY <1>1, PrintAlways, PTL


-----------------------------------------------------------------------------
(* FlattenSeq is defined by a recursive function; what it returns for one  *)
(* sequence more.                                                          *)
FlatUpTo(N, seqs, f) ==
  f = [i \in 1 .. N |-> IF i = 1 THEN seqs[i] ELSE f[i - 1] \o seqs[i]]

LEMMA FlatsExist ==
  ASSUME NEW seqs
  PROVE  \A N \in Nat : \E f : FlatUpTo(N, seqs, f)
<1> DEFINE T == {N \in Nat : ~ \E f : FlatUpTo(N, seqs, f)}
<1>1. SUFFICES ASSUME T # {} PROVE FALSE
  OBVIOUS
<1>2. PICK N \in T : \A m \in T : N <= m
  BY <1>1, LeastNat
<1>3. CASE N = 0
  <2> DEFINE f == [i \in {} |-> 0]
  <2>1. 1 .. N = {}
    BY <1>3
  <2>2. f = [i \in {} |-> IF i = 1 THEN seqs[i] ELSE f[i - 1] \o seqs[i]]
    OBVIOUS
  <2> HIDE DEF f
  <2>3. FlatUpTo(N, seqs, f)
    BY <2>1, <2>2 DEF FlatUpTo
  <2> QED BY <2>3
<1>4. CASE N # 0
  <2>1. N \in Nat /\ N - 1 \in Nat /\ N - 1 \notin T
    BY <1>2, <1>4
  <2>2. PICK f : FlatUpTo(N - 1, seqs, f)
    BY <2>1
  <2> DEFINE g == [i \in 1 .. N |-> IF i = 1 THEN seqs[i] ELSE f[i - 1] \o seqs[i]]
  <2>3. ASSUME NEW i \in 1 .. N - 1 PROVE g[i] = f[i]
    <3>1. f[i] = IF i = 1 THEN seqs[i] ELSE f[i - 1] \o seqs[i]
      BY <2>2 DEF FlatUpTo
    <3>2. i \in 1 .. N
      BY <2>1
    <3> QED BY <3>1, <3>2
  <2>4. ASSUME NEW i \in 1 .. N, i # 1 PROVE g[i - 1] = f[i - 1]
    <3> HIDE DEF g
    <3>1. i - 1 \in 1 .. N - 1
      BY <2>1, <2>4
    <3> QED BY <2>3, <3>1
  <2>5. g = [i \in 1 .. N |-> IF i = 1 THEN seqs[i] ELSE g[i - 1] \o seqs[i]]
    <3> DEFINE a(i) == IF i = 1 THEN seqs[i] ELSE f[i - 1] \o seqs[i]
               b(i) == IF i = 1 THEN seqs[i] ELSE g[i - 1] \o seqs[i]
    <3>1. \A i \in 1 .. N : a(i) = b(i)
      <4> HIDE DEF g
      <4> QED BY <2>4
    <3> HIDE DEF a, b
    <3>2. [i \in 1 .. N |-> a(i)] = [i \in 1 .. N |-> b(i)]
      BY <3>1
    <3> QED BY <3>2 DEF a, b
  <2> HIDE DEF g
  <2>6. FlatUpTo(N, seqs, g)
    BY <2>5 DEF FlatUpTo
  <2> QED BY <2>6
<1> QED BY <1>3, <1>4

LEMMA FlattenValues ==
  ASSUME NEW S, NEW seqs \in Seq(S), seqs # <<>>
  PROVE  \E f : FlatUpTo(Len(seqs), seqs, f) /\ FlattenSeq(seqs) = f[Len(seqs)]
<1>1. Len(seqs) \in Nat /\ Len(seqs) # 0
  OBVIOUS
<1>2. \E f : FlatUpTo(Len(seqs), seqs, f)
  BY <1>1, FlatsExist
<1>3. FlattenSeq(seqs) = (CHOOSE f : FlatUpTo(Len(seqs), seqs, f))[Len(seqs)]
  BY <1>1, Zenon DEF FlattenSeq, FlatUpTo
<1> QED BY <1>2, <1>3, Zenon

FlatStep(N, seqs, f) ==
  \A i \in 1 .. N : f[i] = IF i = 1 THEN seqs[i] ELSE f[i - 1] \o seqs[i]

LEMMA FlatSteps ==
  ASSUME NEW N, NEW seqs, NEW f, FlatUpTo(N, seqs, f)
  PROVE  FlatStep(N, seqs, f)
<1> DEFINE a(i) == IF i = 1 THEN seqs[i] ELSE f[i - 1] \o seqs[i]
<1>1. f = [i \in 1 .. N |-> a(i)]
  BY DEF FlatUpTo
<1> HIDE DEF a
<1>2. \A i \in 1 .. N : f[i] = a(i)
  BY <1>1
<1> QED BY <1>2 DEF FlatStep, a

LEMMA FlattenAppend ==
  ASSUME NEW S, NEW seqs \in Seq(Seq(S)), NEW x \in Seq(S)
  PROVE  FlattenSeq(Append(seqs, x)) =
           IF seqs = <<>> THEN x ELSE FlattenSeq(seqs) \o x
<1> DEFINE n == Len(seqs)
           more == Append(seqs, x)
<1>1. /\ n \in Nat /\ more \in Seq(Seq(S)) /\ Len(more) = n + 1 /\ more # <<>>
      /\ more[n + 1] = x
      /\ \A k \in 1 .. n : more[k] = seqs[k]
  BY AppendProperties
<1> HIDE DEF more
<1>2. PICK g : FlatUpTo(Len(more), more, g) /\ FlattenSeq(more) = g[Len(more)]
  BY <1>1, FlattenValues
<1>3. FlatStep(n + 1, more, g) /\ FlattenSeq(more) = g[n + 1]
  BY <1>1, <1>2, FlatSteps
<1>4. CASE seqs = <<>>
  <2>1. n + 1 = 1
    BY <1>4
  <2>2. g[n + 1] = more[n + 1]
    <3>1. n + 1 \in 1 .. n + 1
      BY <2>1
    <3> QED BY <1>3, <2>1, <3>1 DEF FlatStep
  <2> QED BY <1>1, <1>3, <1>4, <2>2 DEF more
<1>5. CASE seqs # <<>>
  <2>1. PICK f : FlatUpTo(n, seqs, f) /\ FlattenSeq(seqs) = f[n]
    BY <1>5, FlattenValues
  <2>2. FlatStep(n, seqs, f)
    BY <2>1, FlatSteps
  <2>3. n # 0
    BY <1>5
  <2> HIDE DEF n
  <2>4. g[n] = f[n]
    <3> DEFINE T == {k \in 1 .. n : g[k] # f[k]}
    <3>0. n \in 1 .. n
      BY <1>1, <2>3
    <3>1. SUFFICES ASSUME T # {} PROVE FALSE
      BY <3>0, Zenon
    <3>2. T \subseteq Nat
      BY <1>1
    <3>3. PICK k \in T : \A m \in T : k <= m
      <4> HIDE DEF T
      <4> QED BY <3>1, <3>2, LeastNat
    <3>4. k \in 1 .. n /\ k \in 1 .. n + 1 /\ g[k] # f[k] /\ k \in Nat
      BY <1>1
    <3>5. k # 1 => k - 1 \in 1 .. n /\ k - 1 \notin T
      <4> HIDE DEF T
      <4> QED BY <1>1, <3>2, <3>3, <3>4
    <3>6. k # 1 => g[k - 1] = f[k - 1]
      BY <3>5
    <3>7. f[k] = IF k = 1 THEN seqs[k] ELSE f[k - 1] \o seqs[k]
      BY <2>2, <3>4 DEF FlatStep
    <3>8. g[k] = IF k = 1 THEN more[k] ELSE g[k - 1] \o more[k]
      BY <1>3, <3>4 DEF FlatStep
    <3>9. more[k] = seqs[k]
      BY <1>1, <3>4
    <3> QED BY <3>4, <3>6, <3>7, <3>8, <3>9, Zenon
  <2>5. n + 1 \in 1 .. n + 1 /\ n + 1 # 1 /\ (n + 1) - 1 = n
    BY <1>1, <2>3
  <2>6. g[n + 1] = g[n] \o more[n + 1]
    BY <1>3, <2>5 DEF FlatStep
  <2> QED BY <1>1, <1>3, <1>5, <2>1, <2>4, <2>6 DEF more
<1> QED BY <1>4, <1>5

LEMMA FlattenEmpty == FlattenSeq(<<>>) = <<>>
BY DEF FlattenSeq

(* The line for one character, and for a text that grows by one.           *)
LineOf(c) == IF c = "LF" THEN <<"LF", "CR">> ELSE <<c>>
Parts(text) == [k \in DOMAIN text |-> LineOf(text[k])]

LEMMA LinesAppend ==
  ASSUME NEW text \in Seq(Character), NEW c \in Character
  PROVE  Lines(Append(text, c)) =
           IF text = <<>> THEN LineOf(c) ELSE Lines(text) \o LineOf(c)
<1>1. \A d \in Character : LineOf(d) \in Seq(Character)
  <2>1. {"LF", "CR"} \subseteq Character
    BY DEF Character
  <2> QED BY <2>1 DEF LineOf
<1>2. \A t : Lines(t) = FlattenSeq(Parts(t))
  BY Zenon DEF Lines, Parts, LineOf
<1>3. /\ Parts(text) \in Seq(Seq(Character))
      /\ Parts(Append(text, c)) = Append(Parts(text), LineOf(c))
      /\ Parts(text) = <<>> <=> text = <<>>
  <2> DEFINE L == [d \in Character |-> LineOf(d)]
  <2>1. \A d \in Character : L[d] = LineOf(d) /\ L[d] \in Seq(Character)
    BY <1>1
  <2>2. \A t \in Seq(Character) : Parts(t) = [k \in 1 .. Len(t) |-> L[t[k]]]
    BY <2>1 DEF Parts
  <2> HIDE DEF L
  <2>3. Append(text, c) \in Seq(Character)
    OBVIOUS
  <2>4. [k \in 1 .. Len(text) |-> L[text[k]]] \in Seq(Seq(Character))
    BY <2>1
  <2>5. [k \in 1 .. Len(Append(text, c)) |-> L[Append(text, c)[k]]]
          = Append([k \in 1 .. Len(text) |-> L[text[k]]], L[c])
    BY <2>1, <2>3
  <2>6. [k \in 1 .. Len(text) |-> L[text[k]]] = <<>> <=> text = <<>>
    OBVIOUS
  <2> QED BY <2>1, <2>2, <2>3, <2>4, <2>5, <2>6
<1>4. FlattenSeq(Append(Parts(text), LineOf(c))) =
        IF Parts(text) = <<>> THEN LineOf(c) ELSE FlattenSeq(Parts(text)) \o LineOf(c)
  BY <1>1, <1>3, FlattenAppend
<1> QED BY <1>2, <1>3, <1>4, Zenon

LEMMA LinesEmpty == Lines(<<>>) = <<>>
<1>1. Parts(<<>>) = <<>>
  BY DEF Parts
<1>2. Lines(<<>>) = FlattenSeq(Parts(<<>>))
  BY Zenon DEF Lines, Parts, LineOf
<1> QED BY <1>1, <1>2, FlattenEmpty


LEMMA LinesGrow ==
  \A text \in Seq(Character) :
    /\ Lines(text) \in Seq(Character)
    /\ \A c \in Character : Lines(Append(text, c)) = Lines(text) \o LineOf(c)
<1>1. \A c \in Character : LineOf(c) \in Seq(Character)
  <2>1. {"LF", "CR"} \subseteq Character
    BY DEF Character
  <2> QED BY <2>1 DEF LineOf
<1>2. ASSUME NEW text \in Seq(Character), NEW c \in Character
      PROVE  Lines(Append(text, c)) = Lines(text) \o LineOf(c)
  <2>1. CASE text = <<>>
    <3>1. Lines(Append(text, c)) = LineOf(c) /\ Lines(text) = <<>>
      BY <2>1, LinesAppend, LinesEmpty
    <3>2. <<>> \o LineOf(c) = LineOf(c)
      BY <1>1, ConcatEmptySeq
    <3> QED BY <3>1, <3>2
  <2>2. CASE text # <<>>
    BY <2>2, LinesAppend
  <2> QED BY <2>1, <2>2
<1>3. ASSUME NEW text \in Seq(Character)
      PROVE  Lines(text) \in Seq(Character)
  <2> DEFINE T == {n \in Nat : \E t \in Seq(Character) :
                                 Len(t) = n /\ Lines(t) \notin Seq(Character)}
  <2>1. SUFFICES ASSUME T # {} PROVE FALSE
    <3>1. Len(text) \in Nat
      OBVIOUS
    <3> QED BY <3>1, Zenon
  <2>2. PICK n \in T : \A m \in T : n <= m
    BY <2>1, LeastNat
  <2>3. PICK t \in Seq(Character) : Len(t) = n /\ Lines(t) \notin Seq(Character)
    BY <2>2
  <2>4. t # <<>>
    BY <2>3, LinesEmpty
  <2>5. PICK s \in Seq(Character), c \in Character : t = Append(s, c)
    BY <2>4, SequenceEmptyOrAppend
  <2>6. Len(s) \in Nat /\ Len(s) < n
    BY <2>3, <2>5
  <2>7. Lines(s) \in Seq(Character)
    BY <2>2, <2>6
  <2>8. Lines(t) = Lines(s) \o LineOf(c)
    BY <1>2, <2>5
  <2>9. Lines(s) \o LineOf(c) \in Seq(Character)
    BY <1>1, <2>7, ConcatProperties
  <2> QED BY <2>3, <2>8, <2>9
<1> QED BY <1>2, <1>3

(* What SentInOrder says, for one earlier text.                            *)
Sent == Lines(SubSeq(buffer, 1, out - 1))
Now  == IF at = "cr" THEN Front(Sent) ELSE Sent

LEMMA SentIs ==
  SentInOrder <=> \E earlier \in EarlierOutput : wire \o tx = earlier \o Now
BY Zenon DEF SentInOrder, Now, Sent

LEMMA SentNothing ==
  ASSUME out = 1
  PROVE  Sent = <<>>
<1>1. SubSeq(buffer, 1, out - 1) = <<>>
  BY SubSeqEmpty
<1> QED BY <1>1, LinesEmpty DEF Sent

LEMMA EarlierSeq == \A text \in EarlierOutput : text \in Seq(Character)
<1>1. \A text \in EarlierOutput : text \in Seq(STRING)
  BY KprintfConstants
<1> QED BY <1>1, SeqMonotonic DEF Character

LEMMA SentInit == Init => SentInOrder
<1> SUFFICES ASSUME Init PROVE SentInOrder
  OBVIOUS
<1>1. out = 1 /\ at = "format" /\ tx \in EarlierOutput /\ wire = <<>>
  BY DEF Init
<1>2. Now = <<>>
  BY <1>1, SentNothing DEF Now
<1>3. wire \o tx = tx \o Now
  BY <1>1, <1>2, EarlierSeq, ConcatEmptySeq
<1> QED BY <1>1, <1>3, SentIs

(* What the UART gets next is what the text continues with.                *)
LEMMA SentMore ==
  ASSUME PrintInv, SentInOrder, NEW c \in Character,
         tx' = Append(tx, c), wire' = wire,
         Now' = Append(Now, c), Now \in Seq(Character)
  PROVE  SentInOrder'
<1>1. PICK earlier \in EarlierOutput : wire \o tx = earlier \o Now
  BY SentIs
<1>2. /\ wire \in Seq(Character) /\ tx \in Seq(Character)
      /\ earlier \in Seq(Character)
  BY EarlierSeq DEF PrintInv, TextTypes
<1>3. wire \o Append(tx, c) = Append(wire \o tx, c)
  BY <1>2
<1>4. earlier \o Append(Now, c) = Append(earlier \o Now, c)
  BY <1>2
<1>5. wire' \o tx' = earlier \o Now'
  BY <1>1, <1>3, <1>4
<1>6. (\E e \in EarlierOutput : wire \o tx = e \o Now)'
  BY <1>5
<1> QED BY <1>6, Zenon DEF SentInOrder, Now, Sent

LEMMA SentStep == PrintInv /\ SentInOrder /\ [Next]_vars => SentInOrder'
<1> SUFFICES ASSUME PrintInv, SentInOrder, [Next]_vars PROVE SentInOrder'
  OBVIOUS
<1>1. TypeOK /\ TextTypes /\ Progress
  BY DEF PrintInv
<1>2. CASE at = "format" /\ UNCHANGED <<out, tx, wire>> /\ at' # "cr"
  <2>1. out = 1 /\ out' = 1
    BY <1>1, <1>2 DEF Progress
  <2>2. Now = <<>>
    BY <1>2, <2>1, SentNothing DEF Now
  <2>3. SubSeq(buffer', 1, out' - 1) = <<>>
    BY <2>1, SubSeqEmpty
  <2>4. Now' = <<>>
    BY <1>2, <2>3, LinesEmpty DEF Now, Sent
  <2>5. PICK earlier \in EarlierOutput : wire \o tx = earlier \o Now
    BY SentIs
  <2>6. (\E e \in EarlierOutput : wire \o tx = e \o Now)'
    BY <1>2, <2>2, <2>4, <2>5
  <2> QED BY <2>6, Zenon DEF SentInOrder, Now, Sent
<1>3. CASE /\ UNCHANGED <<buffer, out, tx, wire>>
           /\ (at # "cr" /\ at' # "cr") \/ at' = at
  <2>1. Now' = Now
    BY <1>3 DEF Now, Sent
  <2>2. PICK earlier \in EarlierOutput : wire \o tx = earlier \o Now
    BY SentIs
  <2>3. (\E e \in EarlierOutput : wire \o tx = e \o Now)'
    BY <1>3, <2>1, <2>2
  <2> QED BY <2>3, Zenon DEF SentInOrder, Now, Sent
<1>4. CASE PutChar
  <2> DEFINE text == SubSeq(buffer, 1, out - 1)
             c == buffer[out]
  <2>1. /\ at = "output" /\ out' = out + 1 /\ buffer' = buffer /\ wire' = wire
        /\ at' = IF c = "LF" THEN "cr" ELSE "output"
        /\ tx' = Append(tx, c)
    BY <1>4 DEF PutChar, NeedsReturn, TxReady, WriteDR
  <2>2. buffer \in Seq(Character) /\ out \in 1 .. Len(buffer) /\ Len(buffer) \in Nat
    BY <1>1, <1>4 DEF PutChar, MoreOutput, TypeOK, TextTypes
  <2>3. c \in Character /\ text \in Seq(Character) /\ Len(text) = out - 1
    BY <2>2
  <2>4. SubSeq(buffer, 1, out) = Append(text, c)
    BY <2>2
  <2> HIDE DEF text, c
  <2>5. Sent = Lines(text) /\ Now = Lines(text) /\ Lines(text) \in Seq(Character)
    BY <2>1, <2>3, LinesGrow DEF Sent, Now, text
  <2>6. Sent' = Lines(text) \o LineOf(c)
    <3>1. out' - 1 = out
      BY <2>1, <2>2
    <3>2. Sent' = Lines(SubSeq(buffer, 1, out))
      BY <2>1, <3>1 DEF Sent
    <3> QED BY <2>3, <2>4, <3>2, LinesGrow
  <2>7. Now' = Append(Now, c)
    <3>1. CASE c = "LF"
      <4>1. Sent' = Lines(text) \o <<"LF", "CR">> /\ at' = "cr"
        BY <2>1, <2>6, <3>1 DEF LineOf
      <4>2. "CR" \in Character
        BY DEF Character
      <4>3. Front(Lines(text) \o <<c, "CR">>) = Append(Lines(text), c)
        BY <2>3, <2>5, <4>2 DEF Front
      <4> QED BY <2>5, <3>1, <4>1, <4>3 DEF Now
    <3>2. CASE c # "LF"
      <4>1. Sent' = Lines(text) \o <<c>> /\ at' # "cr"
        BY <2>1, <2>6, <3>2 DEF LineOf
      <4>2. Lines(text) \o <<c>> = Append(Lines(text), c)
        BY <2>3, <2>5
      <4> QED BY <2>5, <4>1, <4>2 DEF Now
    <3> QED BY <3>1, <3>2
  <2> QED BY <2>1, <2>3, <2>5, <2>7, SentMore
<1>5. CASE PutReturn
  <2> DEFINE text == SubSeq(buffer, 1, out - 2)
  <2>1. /\ at = "cr" /\ at' = "output" /\ UNCHANGED <<buffer, out, wire>>
        /\ tx' = Append(tx, "CR")
    BY <1>5 DEF PutReturn, TxReady, WriteDR
  <2>2. /\ buffer \in Seq(Character) /\ Len(buffer) \in Nat
        /\ out \in 2 .. Len(buffer) + 1 /\ buffer[out - 1] = "LF"
    BY <1>1, <2>1 DEF TypeOK, TextTypes, Progress
  <2>3. {"LF", "CR"} \subseteq Character
    BY DEF Character
  <2>4. text \in Seq(Character) /\ SubSeq(buffer, 1, out - 1) = Append(text, "LF")
    BY <2>2
  <2> HIDE DEF text
  <2>5. Lines(text) \in Seq(Character) /\ Sent = Lines(text) \o <<"LF", "CR">>
    BY <2>3, <2>4, LinesGrow DEF Sent, LineOf
  <2>6. Now = Front(Sent) /\ Now' = Sent
    BY <2>1 DEF Now, Sent
  <2>7. Sent \in Seq(Character) /\ Sent = Append(Front(Sent), "CR")
        /\ Front(Sent) \in Seq(Character)
    <3> DEFINE L == Lines(text)
    <3> HIDE DEF L
    <3>1. /\ L \o <<"LF", "CR">> \in Seq(Character)
          /\ Front(L \o <<"LF", "CR">>) = Append(L, "LF")
          /\ L \o <<"LF", "CR">> = Append(Append(L, "LF"), "CR")
          /\ Append(L, "LF") \in Seq(Character)
      BY <2>3, <2>5 DEF Front, L
    <3> QED BY <2>5, <3>1 DEF L
  <2> QED BY <2>1, <2>3, <2>6, <2>7, SentMore
<1>6. CASE Transmit
  <2>1. /\ UNCHANGED <<buffer, out, at>>
        /\ tx # <<>> /\ wire' = Append(wire, Head(tx)) /\ tx' = Tail(tx)
    BY <1>6 DEF Transmit
  <2>2. tx \in Seq(Character) /\ wire \in Seq(Character)
    BY <1>1 DEF TextTypes
  <2>3. Append(wire, Head(tx)) \o Tail(tx) = wire \o tx
    BY <2>1, <2>2
  <2>4. Now' = Now
    BY <2>1 DEF Now, Sent
  <2>5. PICK earlier \in EarlierOutput : wire \o tx = earlier \o Now
    BY SentIs
  <2>6. (\E e \in EarlierOutput : wire \o tx = e \o Now)'
    BY <2>1, <2>3, <2>4, <2>5
  <2> QED BY <2>6, Zenon DEF SentInOrder, Now, Sent
<1>7. CASE EndOfFormat \/ Return \/ UNCHANGED vars
  BY <1>3, <1>7 DEF EndOfFormat, Return, vars
<1>8. CASE \/ CopyChar \/ ConvertChar \/ ConvertString \/ ConvertSigned
           \/ ConvertUnsigned \/ ConvertHex \/ ConvertPointer \/ ConvertPercent
           \/ ConvertUnknown
  <2>1. MoreFormat /\ \E text, whole, q : Emit(text, whole, q)
    BY <1>8 DEF CopyChar, ConvertChar, ConvertString, ConvertSigned,
       ConvertUnsigned, ConvertHex, ConvertPointer, ConvertPercent,
       ConvertUnknown, Conversion, EmitNumber
  <2>2. at = "format" /\ UNCHANGED <<out, tx, wire>> /\ at' # "cr"
    BY <2>1 DEF MoreFormat, Emit
  <2> QED BY <1>2, <2>2
<1> QED BY <1>4, <1>5, <1>6, <1>7, <1>8 DEF Next, Kprintf

(* The line gets what the buffer holds, in order and without loss, with a  *)
(* carriage return behind each newline, however slow the UART sends.       *)
THEOREM AlwaysSentInOrder == Spec => []SentInOrder
BY PrintAlways, SentInit, SentStep, PTL DEF Spec
=============================================================================
