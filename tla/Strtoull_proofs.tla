-------------------------- MODULE Strtoull_proofs --------------------------
(***************************************************************************)
(* The parser stays inside its string, saturates at the right number, and  *)
(* computes the value that the positions of the digits give, for every     *)
(* limit, string and base.                                                 *)
(***************************************************************************)
EXTENDS Strtoull, SequenceTheorems, FiniteSetTheorems, WellFoundedInduction,
        TLAPS

(* The test with cutoff and cutlim decides exactly whether the next digit  *)
(* takes the result past the limit.                                        *)
LEMMA CutoffExact ==
  ASSUME base \in 2 .. 16, result \in Nat, NEW digit \in 0 .. base - 1
  PROVE  Overflows(digit) <=> result * base + digit > UINT64_MAX
<1> DEFINE q == UINT64_MAX \div base
           r == UINT64_MAX % base
<1>1. q \in Nat /\ r \in 0 .. base - 1 /\ UINT64_MAX = q * base + r
  BY ParserConstants
<1> HIDE DEF q, r
<1>2. CASE result > q
  <2>1. PICK k \in Nat : result = q + 1 + k
    BY <1>1, <1>2, result - q - 1 \in Nat
  <2>2. result * base = q * base + base + k * base /\ k * base \in Nat
    BY <1>1, <2>1
  <2>3. result * base + digit > q * base + r
    BY <1>1, <2>2
  <2> QED BY <1>1, <1>2, <2>3 DEF Overflows, Cutoff, q
<1>3. CASE result = q
  BY SMTT(30), <1>1, <1>3 DEF Overflows, Cutoff, Cutlim, q, r
<1>4. CASE result < q
  <2>1. PICK k \in Nat : q = result + 1 + k
    BY <1>1, <1>4, q - result - 1 \in Nat
  <2>2. q * base = result * base + base + k * base /\ k * base \in Nat
    BY <1>1, <2>1
  <2>3. result * base + digit <= q * base + r
    BY <1>1, <2>2
  <2> QED BY <1>1, <1>4, <2>3 DEF Overflows, Cutoff, Cutlim, q, r
<1> QED BY <1>1, <1>2, <1>3, <1>4

-----------------------------------------------------------------------------
(* The inductive invariant: the type, the saturation, and that base is     *)
(* supported and the inner loop entered only beyond the limit.             *)
ParserInv ==
  /\ TypeOK
  /\ at \in {"digits", "overflow"} => base \in 2 .. 16
  /\ at \in {"space", "digits"} => exact = result
  /\ at = "overflow" => exact > UINT64_MAX
  /\ Saturates

LEMMA StringLength ==
  ASSUME str \in Strings
  PROVE  Len(str) \in Nat
BY ParserConstants, LenProperties

(* Only the characters before the terminator are spaces, signs or digits.  *)
LEMMA BeforeTerminator ==
  ASSUME str \in Strings, NEW i \in Nat, Char(i) # 0
  PROVE  i < Len(str)
BY StringLength DEF Char

LEMMA DigitRange ==
  ASSUME base \in 2 .. 16, NEW c, IsDigit(c)
  PROVE  DigitOf(c) \in 0 .. base - 1 /\ c # 0
<1>1. DigitOf(c) # NotADigit
  BY DEF IsDigit, NotADigit
<1>2. c \in 48 .. 57 \/ c \in 97 .. 122 \/ c \in 65 .. 90
  BY <1>1 DEF DigitOf
<1>3. DigitOf(c) \in Nat
  BY <1>2 DEF DigitOf
<1> QED BY <1>2, <1>3 DEF IsDigit

LEMMA ParserInvInit == Init => ParserInv
<1> SUFFICES ASSUME Init PROVE ParserInv
  OBVIOUS
<1>1. Len(str) \in Nat /\ base \in Int
  BY StringLength, ParserConstants DEF Init
<1> QED BY <1>1, ParserConstants DEF Init, ParserInv, TypeOK, Saturates

LEMMA ParserInvSkipSpace ==
  ASSUME ParserInv, SkipSpace
  PROVE  ParserInv'
<1>1. nptr \in Nat /\ Char(nptr) # 0 /\ str \in Strings
  BY DEF ParserInv, TypeOK, SkipSpace, Spaces
<1>2. nptr < Len(str) /\ Len(str) \in Nat
  BY <1>1, BeforeTerminator, StringLength
<1> QED BY <1>1, <1>2 DEF ParserInv, TypeOK, SkipSpace, Saturates

LEMMA ParserInvDetermineBase ==
  ASSUME ParserInv, DetermineBase
  PROVE  ParserInv'
<1>1. nptr \in Nat /\ str \in Strings /\ nptr <= Len(str) /\ Len(str) \in Nat
  BY StringLength DEF ParserInv, TypeOK
<1>2. AfterSign \in Nat /\ AfterSign <= Len(str)
  <2>1. CASE Char(nptr) \in {PLUS, MINUS}
    BY <1>1, <2>1, BeforeTerminator DEF AfterSign, PLUS, MINUS
  <2> QED BY <1>1, <2>1 DEF AfterSign
<1>3. HasPrefix(AfterSign) => AfterSign + 2 <= Len(str)
  <2> SUFFICES ASSUME HasPrefix(AfterSign) PROVE AfterSign + 2 <= Len(str)
    OBVIOUS
  <2>1. Char(AfterSign + 1) # 0
    BY DEF HasPrefix, XS
  <2>2. AfterSign + 1 < Len(str)
    BY <1>1, <1>2, <2>1, BeforeTerminator
  <2> QED BY <1>1, <1>2, <2>2
<1>4. nptr' \in 0 .. Len(str) /\ base' \in Int
  BY <1>1, <1>2, <1>3 DEF DetermineBase, ParserInv, TypeOK
<1> QED BY <1>1, <1>4 DEF ParserInv, TypeOK, DetermineBase, Saturates

LEMMA ParserInvDigit ==
  ASSUME ParserInv, Digit
  PROVE  ParserInv'
<1> DEFINE digit == DigitOf(Char(nptr))
<1>1. /\ base \in 2 .. 16 /\ result \in Nat /\ exact = result
      /\ str \in Strings /\ nptr \in Nat /\ result <= UINT64_MAX
  BY ParserConstants DEF ParserInv, TypeOK, Digit
<1>2. digit \in 0 .. base - 1 /\ Char(nptr) # 0
  BY <1>1, DigitRange DEF Digit
<1>3. nptr < Len(str) /\ Len(str) \in Nat
  BY <1>1, <1>2, BeforeTerminator, StringLength
<1>4. Overflows(digit) <=> result * base + digit > UINT64_MAX
  BY <1>1, <1>2, CutoffExact
<1>5. result * base + digit \in Nat
  BY <1>1, <1>2
<1>6. /\ exact' = result * base + digit /\ nptr' = nptr + 1
      /\ UNCHANGED <<str, base>>
      /\ \/ Overflows(digit) /\ result' = UINT64_MAX /\ at' = "overflow"
         \/ ~Overflows(digit) /\ result' = result * base + digit
            /\ at' = "digits"
  BY <1>1 DEF Digit
<1> HIDE DEF digit
<1>7. TypeOK'
  BY <1>1, <1>3, <1>4, <1>5, <1>6, ParserConstants DEF TypeOK
<1> QED BY <1>1, <1>4, <1>5, <1>6, <1>7, ParserConstants
        DEF ParserInv, Saturates

LEMMA ParserInvSkipDigit ==
  ASSUME ParserInv, SkipDigit
  PROVE  ParserInv'
<1> DEFINE digit == DigitOf(Char(nptr))
<1>1. /\ base \in 2 .. 16 /\ exact \in Nat /\ exact > UINT64_MAX
      /\ str \in Strings /\ nptr \in Nat
  BY DEF ParserInv, TypeOK, SkipDigit
<1>2. digit \in 0 .. base - 1 /\ Char(nptr) # 0
  BY <1>1, DigitRange DEF SkipDigit
<1>3. nptr < Len(str) /\ Len(str) \in Nat
  BY <1>1, <1>2, BeforeTerminator, StringLength
<1>4. exact' = exact * base + digit
  BY DEF SkipDigit
<1> HIDE DEF digit
<1>5. exact' \in Nat /\ exact' > UINT64_MAX
  <2>1. exact * base \in Nat /\ exact * base >= exact
    BY <1>1
  <2> QED BY <1>1, <1>2, <1>4, <2>1, ParserConstants
<1> QED BY <1>1, <1>3, <1>5, ParserConstants
        DEF ParserInv, TypeOK, SkipDigit, Saturates

LEMMA ParserInvEndOfDigits ==
  ASSUME ParserInv, EndOfDigits
  PROVE  ParserInv'
BY DEF ParserInv, TypeOK, EndOfDigits, Saturates

LEMMA ParserInvNext ==
  ASSUME ParserInv, [Next]_vars
  PROVE  ParserInv'
<1>1. CASE UNCHANGED vars
  BY <1>1 DEF vars, ParserInv, TypeOK, Saturates
<1> QED BY <1>1, ParserInvSkipSpace, ParserInvDetermineBase, ParserInvDigit,
           ParserInvSkipDigit, ParserInvEndOfDigits DEF Next

(* The inductive invariant holds in every call.                            *)
THEOREM ParserInvariant == Spec => []ParserInv
<1>1. ParserInv /\ [Next]_vars => ParserInv'
  BY ParserInvNext
<1> QED BY ParserInvInit, <1>1, PTL DEF Spec

(* The parser never reads past the terminator of its string, and the       *)
(* result always fits its type.                                            *)
THEOREM ParserTypeCorrect == Spec => []TypeOK
<1>1. ParserInv => TypeOK
  BY DEF ParserInv
<1> QED BY ParserInvariant, <1>1, PTL

(* The result is the number the digits denote, or UINT64_MAX if that is    *)
(* larger: the overflow check neither misses a case nor fires too early.   *)
THEOREM ParserSaturates == Spec => []Saturates
<1>1. ParserInv => Saturates
  BY DEF ParserInv
<1> QED BY ParserInvariant, <1>1, PTL

-----------------------------------------------------------------------------
(* A non-empty set of numbers has a least one; the provers have no         *)
(* induction rule, so a proof that all numbers have a property takes the   *)
(* least that has it not.                                                  *)
LEMMA LeastNat ==
  ASSUME NEW T, T \subseteq Nat, T # {}
  PROVE  \E x \in T : \A y \in T : x <= y
<1>1. PICK x \in T : \A y \in T : ~ (<<y, x>> \in OpToRel(<, Nat))
  BY NatLessThanWellFounded, WFMin
<1>2. ASSUME NEW y \in T PROVE x <= y
  <2>1. <<y, x>> \notin OpToRel(<, Nat) /\ x \in Nat /\ y \in Nat
    BY <1>1
  <2> QED BY <2>1 DEF OpToRel
<1> QED BY <1>2

LEMMA MinIs ==
  ASSUME NEW S, NEW x \in S, S \subseteq Int, \A y \in S : x <= y
  PROVE  Min(S) = x
<1> DEFINE m == Min(S)
<1>1. m \in S /\ \A y \in S : m =< y
  BY DEF Min
<1> HIDE DEF m
<1>2. m = x
  BY <1>1
<1> QED BY <1>2 DEF m

-----------------------------------------------------------------------------
(***************************************************************************)
(* SumFunction takes the indices in an order that is not known.  Sums(F)   *)
(* is the recursive function behind it, from sets of indices to their      *)
(* sums; it exists, and any index may be taken first.                      *)
(***************************************************************************)
SumStep(g, s, F) ==
  IF s = {} THEN 0
  ELSE F[CHOOSE x \in s : TRUE] + g[s \ {CHOOSE x \in s : TRUE}]

AreSums(g, F) == g = [s \in SUBSET DOMAIN F |-> SumStep(g, s, F)]

Sums(F) == CHOOSE g : AreSums(g, F)

LEMMA SumIsSums ==
  ASSUME NEW F
  PROVE  SumFunction(F) = Sums(F)[DOMAIN F]
BY Zenon DEF SumFunction, SumFunctionOnSet, FoldFunctionOnSet, MapThenFoldSet,
             Sums, AreSums, SumStep

(* g is right about the sets of at most n indices.                         *)
SumsUpTo(n, g, F) ==
  /\ g = [s \in SUBSET DOMAIN F |-> g[s]]
  /\ \A s \in SUBSET DOMAIN F : Cardinality(s) <= n => g[s] = SumStep(g, s, F)

LEMMA SumsExtend ==
  ASSUME NEW F, IsFiniteSet(DOMAIN F), NEW n \in Nat, NEW f, SumsUpTo(n, f, F)
  PROVE  \E g : SumsUpTo(n + 1, g, F)
<1> DEFINE D == SUBSET DOMAIN F
           g == [s \in D |-> SumStep(f, s, F)]
<1>1. ASSUME NEW s \in D, Cardinality(s) <= n PROVE g[s] = f[s]
  BY <1>1, Zenon DEF SumsUpTo
<1>2. ASSUME NEW s \in D, Cardinality(s) <= n + 1
      PROVE  g[s] = SumStep(g, s, F)
  <2>1. g[s] = SumStep(f, s, F)
    BY Zenon
  <2>2. CASE s = {}
    BY <2>1, <2>2, Zenon DEF SumStep
  <2>3. CASE s # {}
    <3> DEFINE x == CHOOSE y \in s : TRUE
    <3>1. x \in s
      BY <2>3
    <3> HIDE DEF x
    <3>2. /\ IsFiniteSet(s) /\ s \ {x} \in D
          /\ Cardinality(s \ {x}) = Cardinality(s) - 1 /\ Cardinality(s) \in Nat
      BY <3>1, FS_Subset, FS_RemoveElement, FS_CardinalityType
    <3>3. Cardinality(s \ {x}) <= n
      BY <1>2, <3>2
    <3>4. g[s \ {x}] = f[s \ {x}]
      BY <1>1, <3>2, <3>3, Zenon
    <3> HIDE DEF g
    <3> QED BY <2>1, <2>3, <3>4, Zenon DEF SumStep, x
  <2> QED BY <2>2, <2>3
<1>3. g = [s \in D |-> g[s]]
  BY Zenon
<1> HIDE DEF g
<1>4. SumsUpTo(n + 1, g, F)
  BY <1>2, <1>3, Zenon DEF SumsUpTo
<1> QED BY <1>4

LEMMA SumsExist ==
  ASSUME NEW F, IsFiniteSet(DOMAIN F)
  PROVE  AreSums(Sums(F), F)
<1> DEFINE D == SUBSET DOMAIN F
           T == {n \in Nat : ~ \E g : SumsUpTo(n, g, F)}
<1>1. T = {}
  <2> SUFFICES ASSUME T # {} PROVE FALSE
    OBVIOUS
  <2>1. PICK n \in T : \A m \in T : n <= m
    BY LeastNat
  <2>2. CASE n = 0
    <3> DEFINE g == [s \in D |-> 0]
    <3>1. ASSUME NEW s \in D, Cardinality(s) <= 0 PROVE g[s] = SumStep(g, s, F)
      <4>1. IsFiniteSet(s)
        BY FS_Subset
      <4>2. Cardinality(s) = 0
        BY <3>1, <4>1, FS_CardinalityType
      <4>3. s = {}
        BY <4>1, <4>2, FS_EmptySet
      <4> QED BY <4>3, Zenon DEF SumStep
    <3>2. g = [s \in D |-> g[s]]
      BY Zenon
    <3> HIDE DEF g
    <3>3. SumsUpTo(0, g, F)
      BY <3>1, <3>2, Zenon DEF SumsUpTo
    <3> QED BY <2>2, <3>3
  <2>3. CASE n # 0
    <3>1. n - 1 \in Nat /\ n - 1 \notin T /\ (n - 1) + 1 = n
      BY <2>1, <2>3
    <3>2. PICK f : SumsUpTo(n - 1, f, F)
      BY <3>1
    <3>3. \E g : SumsUpTo((n - 1) + 1, g, F)
      BY <3>1, <3>2, SumsExtend
    <3> QED BY <3>1, <3>3
  <2> QED BY <2>2, <2>3
<1>2. Cardinality(DOMAIN F) \in Nat
  BY FS_CardinalityType
<1>3. PICK g : SumsUpTo(Cardinality(DOMAIN F), g, F)
  BY <1>1, <1>2
<1>4. ASSUME NEW s \in D PROVE g[s] = SumStep(g, s, F)
  <2>1. Cardinality(s) <= Cardinality(DOMAIN F)
    BY FS_Subset
  <2> QED BY <1>3, <2>1, Zenon DEF SumsUpTo
<1>5. g = [s \in D |-> g[s]]
  BY <1>3, Zenon DEF SumsUpTo
<1>6. [s \in D |-> g[s]] = [s \in D |-> SumStep(g, s, F)]
  BY <1>4, Zenon
<1>7. AreSums(g, F)
  BY <1>5, <1>6, Zenon DEF AreSums
<1> QED BY <1>7, Zenon DEF Sums

(* The sum of a set of indices is that of one of them and the others.      *)
LEMMA SumsEquation ==
  ASSUME NEW F, IsFiniteSet(DOMAIN F), NEW s \in SUBSET DOMAIN F
  PROVE  Sums(F)[s] = SumStep(Sums(F), s, F)
<1>1. Sums(F) = [t \in SUBSET DOMAIN F |-> SumStep(Sums(F), t, F)]
  BY SumsExist, Zenon DEF AreSums
<1> DEFINE g == Sums(F)
<1> HIDE DEF g
<1>2. g[s] = SumStep(g, s, F)
  BY <1>1, Zenon DEF g
<1> QED BY <1>2 DEF g

SplitsAnywhere(g, s, F) ==
  g[s] \in Nat /\ \A x \in s : g[s] = F[x] + g[s \ {x}]

LEMMA SumsSplit ==
  ASSUME NEW F, IsFiniteSet(DOMAIN F), \A x \in DOMAIN F : F[x] \in Nat
  PROVE  \A s \in SUBSET DOMAIN F : SplitsAnywhere(Sums(F), s, F)
<1> DEFINE D == SUBSET DOMAIN F
           g == Sums(F)
           T == {n \in Nat : \E s \in D : /\ Cardinality(s) = n
                                          /\ ~ SplitsAnywhere(g, s, F)}
<1>0. ASSUME NEW s \in D
      PROVE  IsFiniteSet(s) /\ Cardinality(s) \in Nat
  BY FS_Subset, FS_CardinalityType
<1>1. ASSUME NEW s \in D, NEW x \in s
      PROVE  /\ s \ {x} \in D /\ Cardinality(s \ {x}) \in Nat
             /\ Cardinality(s \ {x}) < Cardinality(s)
  <2>1. s \ {x} \in D
    OBVIOUS
  <2>2. Cardinality(s \ {x}) = Cardinality(s) - 1
    BY <1>0, FS_RemoveElement
  <2> QED BY <1>0, <2>1, <2>2
<1>2. T = {}
  <2> SUFFICES ASSUME T # {} PROVE FALSE
    OBVIOUS
  <2>1. PICK n \in T : \A m \in T : n <= m
    BY LeastNat
  <2>2. PICK s \in D : Cardinality(s) = n /\ ~ SplitsAnywhere(g, s, F)
    BY <2>1
  <2>3. ASSUME NEW t \in D, Cardinality(t) < Cardinality(s)
        PROVE  SplitsAnywhere(g, t, F)
    <3>1. Cardinality(t) \in Nat /\ Cardinality(t) \notin T
      <4> HIDE DEF T
      <4> QED BY <1>0, <2>1, <2>2, <2>3
    <3> HIDE DEF g
    <3> QED BY <3>1
  <2>4. g[s] = SumStep(g, s, F)
    BY SumsEquation
  <2> HIDE DEF g, T
  <2>5. CASE s = {}
    BY <2>2, <2>4, <2>5 DEF SumStep, SplitsAnywhere
  <2>6. CASE s # {}
    <3> DEFINE c == CHOOSE y \in s : TRUE
    <3>1. c \in s
      BY <2>6
    <3>2. g[s] = F[c] + g[s \ {c}]
      BY <2>4, <2>6, Zenon DEF SumStep
    <3> HIDE DEF c
    <3>3. SplitsAnywhere(g, s \ {c}, F)
      BY <1>1, <2>3, <3>1
    <3>4. F[c] \in Nat /\ g[s \ {c}] \in Nat
      BY <3>1, <3>3 DEF SplitsAnywhere
    <3>5. ASSUME NEW x \in s PROVE g[s] = F[x] + g[s \ {x}]
      <4>1. CASE x = c
        BY <3>2, <4>1
      <4>2. CASE x # c
        <5> DEFINE r == (s \ {c}) \ {x}
        <5>1. r = (s \ {x}) \ {c} /\ c \in s \ {x} /\ x \in s \ {c}
          BY <3>1, <4>2
        <5>2. SplitsAnywhere(g, s \ {x}, F)
          BY <1>1, <2>3
        <5>3. r \in D /\ Cardinality(r) < Cardinality(s)
          <6> DEFINE t == s \ {c}
          <6>1. t \in D /\ Cardinality(t) \in Nat /\ Cardinality(t) < Cardinality(s)
            BY <1>1, <3>1
          <6>2. x \in t
            BY <5>1
          <6> HIDE DEF t
          <6>3. /\ t \ {x} \in D /\ Cardinality(t \ {x}) \in Nat
                /\ Cardinality(t \ {x}) < Cardinality(t)
            BY <1>1, <6>1, <6>2
          <6>4. Cardinality(s) \in Nat
            BY <1>0
          <6> QED BY <6>1, <6>3, <6>4 DEF t
        <5>4. SplitsAnywhere(g, r, F)
          BY <2>3, <5>3
        <5> HIDE DEF r
        <5>5. g[s \ {c}] = F[x] + g[r]
          BY <3>3, <5>1, Zenon DEF SplitsAnywhere, r
        <5>6. g[s \ {x}] = F[c] + g[r]
          BY <5>1, <5>2, Zenon DEF SplitsAnywhere
        <5>7. g[r] \in Nat /\ F[x] \in Nat
          BY <5>4 DEF SplitsAnywhere
        <5> QED BY <3>2, <3>4, <5>5, <5>6, <5>7
      <4> QED BY <4>1, <4>2
    <3>6. g[s] \in Nat
      BY <3>2, <3>4
    <3> QED BY <2>2, <3>5, <3>6, Zenon DEF SplitsAnywhere
  <2> QED BY <2>5, <2>6
<1>3. ASSUME NEW s \in D PROVE SplitsAnywhere(g, s, F)
  <2>1. Cardinality(s) \in Nat
    BY <1>0
  <2> HIDE DEF g
  <2> QED BY <1>2, <2>1
<1> QED BY <1>3

-----------------------------------------------------------------------------
(* The powers of the base.                                                 *)
ArePowers(f, b, N) ==
  f = [k \in 0 .. N |-> IF k = 0 THEN 1 ELSE b * f[k - 1]]

LEMMA PowersExist ==
  ASSUME NEW b
  PROVE  \A N \in Nat : \E f : ArePowers(f, b, N)
<1> DEFINE T == {N \in Nat : ~ \E f : ArePowers(f, b, N)}
<1>1. SUFFICES ASSUME T # {} PROVE FALSE
  OBVIOUS
<1>2. PICK N \in T : \A m \in T : N <= m
  BY <1>1, LeastNat
<1>3. CASE N = 0
  <2> DEFINE f == [k \in 0 .. 0 |-> 1]
  <2>1. f = [k \in 0 .. N |-> IF k = 0 THEN 1 ELSE b * f[k - 1]]
    BY <1>3
  <2> HIDE DEF f
  <2> QED BY <2>1 DEF ArePowers
<1>4. CASE N # 0
  <2>1. N \in Nat /\ N - 1 \in Nat /\ N - 1 \notin T
    BY <1>2, <1>4
  <2>2. PICK f : ArePowers(f, b, N - 1)
    BY <2>1
  <2> DEFINE h(k) == IF k = 0 THEN 1 ELSE b * f[k - 1]
             g == [k \in 0 .. N |-> h(k)]
  <2>3. ASSUME NEW k \in 0 .. N - 1 PROVE g[k] = f[k]
    <3>1. f[k] = h(k)
      BY <2>1, <2>2 DEF ArePowers
    <3> HIDE DEF h
    <3> QED BY <2>1, <3>1
  <2>4. ASSUME NEW k \in 0 .. N, k # 0 PROVE g[k - 1] = f[k - 1]
    <3> HIDE DEF g
    <3>1. k - 1 \in 0 .. N - 1
      BY <2>1, <2>4
    <3> QED BY <2>3, <3>1
  <2> DEFINE e(k) == IF k = 0 THEN 1 ELSE b * g[k - 1]
  <2>5. \A k \in 0 .. N : h(k) = e(k)
    <3> HIDE DEF g
    <3> QED BY <2>4
  <2>6. g = [k \in 0 .. N |-> e(k)]
    <3> HIDE DEF h, e
    <3> QED BY <2>5
  <2> HIDE DEF g
  <2>7. ArePowers(g, b, N)
    BY <2>6 DEF ArePowers
  <2> QED BY <2>7
<1> QED BY <1>3, <1>4

LEMMA PowerEquation ==
  ASSUME str \in Strings
  PROVE  /\ Power[0] = 1
         /\ \A k \in 1 .. Len(str) : Power[k] = base * Power[k - 1]
<1>1. Power = CHOOSE f : ArePowers(f, base, Len(str))
  BY Zenon DEF Power, ArePowers
<1>2. \E f : ArePowers(f, base, Len(str))
  BY PowersExist, StringLength
<1>3. ArePowers(Power, base, Len(str))
  BY <1>1, <1>2
<1>4. Power = [k \in 0 .. Len(str) |-> IF k = 0 THEN 1 ELSE base * Power[k - 1]]
  BY <1>3 DEF ArePowers
<1> QED BY <1>4, StringLength

LEMMA PowerNat ==
  ASSUME str \in Strings, base \in 2 .. 16
  PROVE  \A k \in 0 .. Len(str) : Power[k] \in Nat
<1> DEFINE T == {k \in 0 .. Len(str) : Power[k] \notin Nat}
<1>1. SUFFICES ASSUME T # {} PROVE FALSE
  OBVIOUS
<1>2. T \subseteq Nat
  BY StringLength
<1>3. PICK k \in T : \A m \in T : k <= m
  <2> HIDE DEF T
  <2> QED BY <1>1, <1>2, LeastNat
<1>4. k # 0
  BY PowerEquation
<1>5. k - 1 \in 0 .. Len(str) /\ k - 1 \notin T /\ k \in 1 .. Len(str)
  BY StringLength, <1>3, <1>4
<1> QED BY <1>5, PowerEquation

-----------------------------------------------------------------------------
(***************************************************************************)
(* While digits are read: exact is the value of the digits before nptr,    *)
(* Rest that of the others, by position; both together are Value.          *)
(***************************************************************************)
Rest(k) == Sums(Terms)[k .. End - 1]

LEMMA ValueIsRest == Value = Sums(Terms)[Body .. End - 1]
<1>1. DOMAIN Terms = Body .. End - 1
  BY Zenon DEF Terms
<1> QED BY <1>1, SumIsSums, Zenon DEF Value

(* End is where it is said to be.                                          *)
LEMMA EndIs ==
  ASSUME str \in Strings, base \in 2 .. 16, Body \in 0 .. Len(str)
  PROVE  /\ End \in Body .. Len(str) /\ ~IsDigit(Char(End))
         /\ \A i \in Body .. Len(str) : ~IsDigit(Char(i)) => End <= i
<1> DEFINE S == {i \in Body .. Len(str) : ~IsDigit(Char(i))}
<1>1. Len(str) \in Nat
  BY StringLength
<1>2. ~IsDigit(Char(Len(str)))
  BY <1>1, DigitRange DEF Char
<1>3. S \subseteq Nat /\ S # {}
  BY <1>1, <1>2
<1>4. PICK x \in S : \A y \in S : x <= y
  <2> HIDE DEF S
  <2> QED BY <1>3, LeastNat
<1>5. End = x
  <2>1. S \subseteq Int
    BY <1>3
  <2>2. End = Min(S)
    BY DEF End
  <2> HIDE DEF S
  <2> QED BY <1>4, <2>1, <2>2, MinIs
<1> HIDE DEF S
<1>6. x \in Body .. Len(str) /\ ~IsDigit(Char(x))
  BY DEF S
<1>7. \A i \in Body .. Len(str) : ~IsDigit(Char(i)) => x <= i
  BY <1>4 DEF S
<1> QED BY <1>5, <1>6, <1>7

LEMMA RestSteps ==
  ASSUME str \in Strings, base \in 2 .. 16, Body \in 0 .. Len(str)
  PROVE  /\ Rest(End) = 0
         /\ \A k \in Body .. End : Rest(k) \in Nat
         /\ \A k \in Body .. End - 1 :
              Rest(k) = DigitOf(Char(k)) * Power[End - 1 - k] + Rest(k + 1)
<1>1. /\ Len(str) \in Nat /\ End \in Body .. Len(str)
      /\ \A i \in Body .. Len(str) : ~IsDigit(Char(i)) => End <= i
  BY StringLength, EndIs
<1> DEFINE D == Body .. End - 1
<1>2. DOMAIN Terms = D /\ IsFiniteSet(D)
  <2>1. DOMAIN Terms = D
    BY Zenon DEF Terms
  <2> QED BY <1>1, <2>1, FS_Interval
<1>3. ASSUME NEW i \in D
      PROVE  /\ Terms[i] = DigitOf(Char(i)) * Power[End - 1 - i]
             /\ Terms[i] \in Nat
  <2>1. Terms[i] = DigitOf(Char(i)) * Power[End - 1 - i]
    BY Zenon DEF Terms
  <2>2. IsDigit(Char(i)) /\ End - 1 - i \in 0 .. Len(str)
    BY <1>1
  <2>3. DigitOf(Char(i)) \in Nat /\ Power[End - 1 - i] \in Nat
    BY <2>2, DigitRange, PowerNat
  <2> QED BY <2>1, <2>3
<1>4. \A s \in SUBSET D : SplitsAnywhere(Sums(Terms), s, Terms)
  BY <1>2, <1>3, SumsSplit
<1>5. Rest(End) = 0
  <2>1. End .. End - 1 = {} /\ {} \in SUBSET DOMAIN Terms
    BY <1>1
  <2>2. Sums(Terms)[{}] = SumStep(Sums(Terms), {}, Terms)
    BY <1>2, <2>1, SumsEquation
  <2>3. SumStep(Sums(Terms), {}, Terms) = 0
    BY Zenon DEF SumStep
  <2> QED BY <2>1, <2>2, <2>3, Zenon DEF Rest
<1>6. ASSUME NEW k \in Body .. End PROVE Rest(k) \in Nat
  <2>1. k .. End - 1 \in SUBSET D
    BY <1>1
  <2> QED BY <1>4, <2>1, Zenon DEF Rest, SplitsAnywhere
<1>7. ASSUME NEW k \in Body .. End - 1
      PROVE  Rest(k) = DigitOf(Char(k)) * Power[End - 1 - k] + Rest(k + 1)
  <2>1. /\ k .. End - 1 \in SUBSET D /\ k \in k .. End - 1
        /\ (k .. End - 1) \ {k} = k + 1 .. End - 1
    BY <1>1
  <2>2. Sums(Terms)[k .. End - 1] = Terms[k] + Sums(Terms)[(k .. End - 1) \ {k}]
    BY <1>4, <2>1, Zenon DEF SplitsAnywhere
  <2> QED BY <1>3, <2>1, <2>2, Zenon DEF Rest
<1> QED BY <1>5, <1>6, <1>7

(* The same as one formula, which holds before and after every step.       *)
NumeralLaws ==
  str \in Strings /\ base \in 2 .. 16 /\ Body \in 0 .. Len(str) =>
    /\ Len(str) \in Nat /\ End \in Body .. Len(str) /\ ~IsDigit(Char(End))
    /\ \A k \in 0 .. Len(str) : Power[k] \in Nat
    /\ Power[0] = 1
    /\ \A k \in 1 .. Len(str) : Power[k] = base * Power[k - 1]
    /\ Value = Rest(Body) /\ Rest(End) = 0
    /\ \A k \in Body .. End : Rest(k) \in Nat
    /\ \A k \in Body .. End - 1 :
         Rest(k) = DigitOf(Char(k)) * Power[End - 1 - k] + Rest(k + 1)

LEMMA NumeralLawsHold == NumeralLaws
<1>1. Value = Rest(Body)
  BY ValueIsRest, Zenon DEF Rest
<1> QED BY <1>1, StringLength, EndIs, PowerNat, PowerEquation, RestSteps
        DEF NumeralLaws

LEMMA NumeralLawsNext == NumeralLaws'
BY NumeralLawsHold, PTL

(* The numeral does not change once its base is known.                     *)
LEMMA SameNumeral ==
  ASSUME UNCHANGED <<str, base>>
  PROVE  /\ Body' = Body /\ End' = End /\ Power' = Power /\ Value' = Value
         /\ \A k : Rest(k)' = Rest(k)
         /\ \A k : Char(k)' = Char(k) /\ \A c : IsDigit(c)' <=> IsDigit(c)
<1>1. \A k : Char(k)' = Char(k) /\ \A c : IsDigit(c)' <=> IsDigit(c)
  BY DEF Char, IsDigit
<1>2. Body' = Body
  BY DEF Body, Prefixed, Signed, Char
<1>3. End' = End
  <2> DEFINE S == {i \in Body .. Len(str) : ~IsDigit(Char(i))}
  <2>1. S' = S
    BY <1>1, <1>2
  <2> HIDE DEF S
  <2>2. End = Min(S) /\ End' = Min(S')
    BY DEF End, S
  <2> QED BY <2>1, <2>2
<1>4. Power' = Power
  <2>1. Power = CHOOSE f : ArePowers(f, base, Len(str))
    BY Zenon DEF Power, ArePowers
  <2>2. Power' = CHOOSE f : ArePowers(f, base', Len(str'))
    BY Zenon DEF Power, ArePowers
  <2>3. base' = base /\ Len(str') = Len(str)
    OBVIOUS
  <2> QED BY <2>1, <2>2, <2>3, Zenon
<1>5. Terms' = Terms
  <2> HIDE DEF Body, End, Power
  <2> DEFINE t(i) == DigitOf(Char(i)) * Power[End - 1 - i]
             S == Body .. End - 1
  <2>1. Terms = [i \in S |-> t(i)] /\ Terms' = [i \in S' |-> t(i)']
    BY Zenon DEF Terms
  <2>2. \A i : t(i)' = t(i)
    BY <1>1, <1>3, <1>4 DEF DigitOf
  <2>3. S' = S
    BY <1>2, <1>3
  <2> HIDE DEF t, S
  <2> QED BY <2>1, <2>2, <2>3, Zenon
<1>6. Value' = Value
  BY <1>2, <1>3, <1>5, Zenon DEF Value
<1>7. ASSUME NEW k PROVE Rest(k)' = Rest(k)
  BY <1>3, <1>5, Zenon DEF Rest
<1> QED BY <1>1, <1>2, <1>3, <1>4, <1>6, <1>7, Zenon

(* Body, seen from where the loop over spaces stops.                       *)
LEMMA BodyIs ==
  ASSUME str \in Strings, nptr \in 0 .. Len(str),
         \A j \in 0 .. nptr - 1 : Char(j) \in Spaces, Char(nptr) \notin Spaces
  PROVE  /\ Prefixed = AfterSign
         /\ Body = IF base = 16 /\ Char(AfterSign) = ZERO
                      /\ Char(AfterSign + 1) \in XS
                   THEN AfterSign + 2 ELSE AfterSign
<1> DEFINE S == {i \in 0 .. Len(str) : Char(i) \notin Spaces}
<1>1. S \subseteq Int /\ nptr \in S
  BY StringLength
<1>2. ASSUME NEW y \in S PROVE nptr <= y
  BY StringLength
<1>3. Signed = Min(S)
  BY DEF Signed
<1> HIDE DEF S
<1>4. Signed = nptr
  BY <1>1, <1>2, <1>3, MinIs
<1>5. Prefixed = AfterSign
  BY <1>4 DEF Prefixed, AfterSign
<1> QED BY <1>5 DEF Body

-----------------------------------------------------------------------------
(* What has been read of the numeral, at each stage.                       *)
NumeralInv ==
  /\ at = "space" => \A j \in 0 .. nptr - 1 : Char(j) \in Spaces
  /\ at = "space" => exact = 0
  /\ at \in {"digits", "overflow"} =>
       /\ Body \in 0 .. Len(str) /\ nptr \in Body .. End
       /\ Value = exact * Power[End - nptr] + Rest(nptr)
  /\ at = "done" =>
       \/ base \in 2 .. 16 /\ nptr = End /\ Value = exact
       \/ base \notin 2 .. 16 /\ nptr = 0 /\ exact = 0

LEMMA NumeralInvInit == Init => NumeralInv
BY DEF Init, NumeralInv

LEMMA NumeralInvSkipSpace ==
  ASSUME ParserInv, NumeralInv, SkipSpace
  PROVE  NumeralInv'
<1>1. /\ at = "space" /\ at' = "space" /\ nptr' = nptr + 1 /\ exact' = exact
      /\ UNCHANGED <<str, base>> /\ Char(nptr) \in Spaces /\ nptr \in Nat
      /\ exact = 0 /\ \A j \in 0 .. nptr - 1 : Char(j) \in Spaces
  BY DEF SkipSpace, NumeralInv, ParserInv, TypeOK
<1>2. \A k : Char(k)' = Char(k)
  BY <1>1, SameNumeral
<1>3. ASSUME NEW j \in 0 .. nptr' - 1 PROVE Char(j)' \in Spaces
  <2>1. j \in 0 .. nptr - 1 \/ j = nptr
    BY <1>1
  <2> QED BY <1>1, <1>2, <2>1
<1> QED BY <1>1, <1>3 DEF NumeralInv

LEMMA NumeralInvDetermineBase ==
  ASSUME ParserInv, ParserInv', NumeralInv, DetermineBase
  PROVE  NumeralInv'
<1>1. /\ at = "space" /\ str \in Strings /\ nptr \in 0 .. Len(str)
      /\ Char(nptr) \notin Spaces /\ exact = 0 /\ exact' = 0 /\ str' = str
      /\ \A j \in 0 .. nptr - 1 : Char(j) \in Spaces
      /\ base' = IF HasPrefix(AfterSign) THEN 16 ELSE IF base = 0 THEN 10 ELSE base
      /\ nptr' \in 0 .. Len(str)
  BY DEF DetermineBase, NumeralInv, ParserInv, TypeOK
<1>2. CASE at' = "done"
  BY <1>1, <1>2 DEF DetermineBase, NumeralInv
<1>3. CASE at' = "digits"
  <2>1. /\ base' \in 2 .. 16
        /\ nptr' = IF HasPrefix(AfterSign) THEN AfterSign + 2 ELSE AfterSign
    BY <1>3 DEF DetermineBase
  <2> DEFINE P == Char(AfterSign) = ZERO /\ Char(AfterSign + 1) \in XS
  <2>2. (base' = 16 /\ P) <=> HasPrefix(AfterSign)
    BY <1>1 DEF HasPrefix
  <2>3. Prefixed = AfterSign /\ Prefixed' = Prefixed /\ \A k : Char(k)' = Char(k)
    <3>1. Prefixed = AfterSign
      BY <1>1, BodyIs
    <3> QED BY <1>1, <3>1 DEF Prefixed, Signed, Char
  <2>4. Body' = nptr'
    <3>1. Body' = IF base' = 16 /\ Char(Prefixed)' = ZERO
                      /\ Char(Prefixed + 1)' \in XS
                   THEN Prefixed' + 2 ELSE Prefixed'
      BY DEF Body
    <3>2. /\ Char(Prefixed)' = Char(AfterSign)
          /\ Char(Prefixed + 1)' = Char(AfterSign + 1)
      BY <1>1, <2>3 DEF Char
    <3> QED BY <2>1, <2>2, <2>3, <3>1, <3>2
  <2>5. (/\ str \in Strings /\ base \in 2 .. 16 /\ Body \in 0 .. Len(str))'
    BY <1>1, <2>1, <2>4
  <2>6. (/\ Len(str) \in Nat /\ End \in Body .. Len(str)
         /\ \A k \in 0 .. Len(str) : Power[k] \in Nat
         /\ Value = Rest(Body) /\ \A k \in Body .. End : Rest(k) \in Nat)'
    BY <2>5, NumeralLawsNext DEF NumeralLaws
  <2>7. (Power[End - nptr] \in Nat /\ Rest(nptr) \in Nat)'
    <3> DEFINE n == Len(str)'
               b == Body'
               e == End'
    <3>1. n \in Nat /\ b \in 0 .. n /\ e \in b .. n /\ nptr' = b
      BY <2>4, <2>5, <2>6
    <3> HIDE DEF n, b, e
    <3>2. e - nptr' \in 0 .. n /\ nptr' \in b .. e
      BY <3>1
    <3> QED BY <2>6, <3>2 DEF n, b, e
  <2>8. (Value = Rest(nptr))'
    BY <2>4, <2>6, Zenon
  <2>9. (nptr \in Body .. End)'
    BY <2>4, <2>5, <2>6
  <2>10. (Value = exact * Power[End - nptr] + Rest(nptr))'
    BY <1>1, <2>7, <2>8
  <2> QED BY <1>3, <2>5, <2>9, <2>10 DEF NumeralInv
<1> QED BY <1>2, <1>3 DEF DetermineBase

(* A digit, before or after the overflow, moves from Rest to exact.        *)
LEMMA NumeralInvMoreDigits ==
  ASSUME ParserInv, NumeralInv, at \in {"digits", "overflow"},
         IsDigit(Char(nptr)), nptr' = nptr + 1, UNCHANGED <<str, base>>,
         exact' = exact * base + DigitOf(Char(nptr)),
         at' \in {"digits", "overflow"}
  PROVE  NumeralInv'
<1>1. /\ str \in Strings /\ base \in 2 .. 16 /\ exact \in Nat /\ nptr \in Nat
      /\ Body \in 0 .. Len(str) /\ nptr \in Body .. End
      /\ Value = exact * Power[End - nptr] + Rest(nptr)
  BY DEF ParserInv, TypeOK, NumeralInv
<1>2. /\ Len(str) \in Nat /\ End \in Body .. Len(str) /\ ~IsDigit(Char(End))
      /\ \A k \in 0 .. Len(str) : Power[k] \in Nat
      /\ \A k \in 1 .. Len(str) : Power[k] = base * Power[k - 1]
      /\ \A k \in Body .. End : Rest(k) \in Nat
      /\ \A k \in Body .. End - 1 :
           Rest(k) = DigitOf(Char(k)) * Power[End - 1 - k] + Rest(k + 1)
  BY <1>1, NumeralLawsHold DEF NumeralLaws
<1>3. nptr # End
  BY <1>2
<1>4. /\ nptr \in Body .. End - 1 /\ nptr + 1 \in Body .. End
      /\ End - nptr \in 1 .. Len(str) /\ End - 1 - nptr \in 0 .. Len(str)
      /\ (End - nptr) - 1 = End - 1 - nptr /\ End - (nptr + 1) = End - 1 - nptr
  BY <1>1, <1>2, <1>3
<1> DEFINE d == DigitOf(Char(nptr))
           w == Power[End - 1 - nptr]
           rest == Rest(nptr + 1)
<1>5. d \in Nat
  BY <1>1, DigitRange
<1>6. w \in Nat /\ rest \in Nat
  BY <1>2, <1>4
<1>7. Power[End - nptr] = base * w
  BY <1>2, <1>4
<1>8. Rest(nptr) = d * w + rest
  BY <1>2, <1>4
<1>9. exact' = exact * base + d
  OBVIOUS
<1> HIDE DEF d, w, rest
<1>10. Value = (exact * base + d) * w + rest
  <2>1. Value = exact * (base * w) + (d * w + rest)
    BY <1>1, <1>7, <1>8
  <2>2. exact * (base * w) = (exact * base) * w /\ base \in Nat
    BY <1>1, <1>6
  <2>3. (exact * base + d) * w = (exact * base) * w + d * w
    BY <1>1, <1>5, <1>6, <2>2
  <2> QED BY <1>1, <1>5, <1>6, <2>1, <2>2, <2>3
<1>11. /\ Body' = Body /\ End' = End /\ Power' = Power /\ Value' = Value
       /\ \A k : Rest(k)' = Rest(k)
  BY SameNumeral
<1>12. Power[End - nptr]' = w /\ Rest(nptr)' = rest
  <2>1. Power[End - nptr]' = Power[End - (nptr + 1)]
    BY <1>11
  <2>2. Rest(nptr)' = Rest(nptr + 1)
    BY <1>11, Zenon DEF Rest
  <2> QED BY <1>4, <2>1, <2>2 DEF w, rest
<1>13. Value' = exact' * Power[End - nptr]' + Rest(nptr)'
  BY <1>9, <1>10, <1>11, <1>12, Zenon
<1>14. (Body \in 0 .. Len(str) /\ nptr \in Body .. End)'
  BY <1>1, <1>4, <1>11
<1> QED BY <1>13, <1>14 DEF NumeralInv

LEMMA NumeralInvEndOfDigits ==
  ASSUME ParserInv, NumeralInv, EndOfDigits
  PROVE  NumeralInv'
<1>1. /\ str \in Strings /\ base \in 2 .. 16 /\ exact \in Nat /\ nptr \in Nat
      /\ Body \in 0 .. Len(str) /\ nptr \in Body .. End
      /\ Value = exact * Power[End - nptr] + Rest(nptr)
      /\ ~IsDigit(Char(nptr)) /\ at' = "done"
      /\ UNCHANGED <<str, base, nptr, exact>>
  BY DEF ParserInv, TypeOK, NumeralInv, EndOfDigits
<1>2. nptr = End
  <2>1. /\ Len(str) \in Nat /\ End \in Body .. Len(str)
        /\ \A i \in Body .. Len(str) : ~IsDigit(Char(i)) => End <= i
    BY <1>1, EndIs, StringLength
  <2> QED BY <1>1, <2>1
<1>3. Power[0] = 1 /\ Rest(End) = 0 /\ End \in Int
  BY <1>1, NumeralLawsHold DEF NumeralLaws
<1>4. Value = exact
  BY <1>1, <1>2, <1>3
<1>5. End' = End /\ Value' = Value
  BY <1>1, SameNumeral
<1> QED BY <1>1, <1>2, <1>4, <1>5 DEF NumeralInv

LEMMA NumeralInvNext ==
  ASSUME ParserInv, ParserInv', NumeralInv, [Next]_vars
  PROVE  NumeralInv'
<1>1. CASE SkipSpace
  BY <1>1, NumeralInvSkipSpace
<1>2. CASE DetermineBase
  BY <1>2, NumeralInvDetermineBase
<1>3. CASE Digit
  <2>1. at' \in {"digits", "overflow"}
    BY <1>3 DEF Digit
  <2> QED BY <1>3, <2>1, NumeralInvMoreDigits DEF Digit
<1>4. CASE SkipDigit
  BY <1>4, NumeralInvMoreDigits DEF SkipDigit
<1>5. CASE EndOfDigits
  BY <1>5, NumeralInvEndOfDigits
<1>6. CASE UNCHANGED vars
  <2>1. UNCHANGED <<str, base, nptr, at, exact, result>>
    BY <1>6 DEF vars
  <2>2. /\ Body' = Body /\ End' = End /\ Power' = Power /\ Value' = Value
        /\ \A k : Char(k)' = Char(k)
    BY <2>1, SameNumeral
  <2>3. Rest(nptr)' = Rest(nptr)
    BY <2>1, SameNumeral DEF Rest
  <2> QED BY <2>1, <2>2, <2>3 DEF NumeralInv
<1> QED BY <1>1, <1>2, <1>3, <1>4, <1>5, <1>6 DEF Next

(* When the parser returns, *endptr is the end of the numeral and the      *)
(* result the value of its digits by their positions, at most UINT64_MAX:  *)
(* the loop that multiplies and adds, its early exit to the inner loop and *)
(* the prefix agree with the notation, for every string and every limit.   *)
THEOREM ParserParsesNumeral == Spec => []ParsesNumeral
<1>1. ParserInv /\ NumeralInv /\ [Next]_vars => (ParserInv /\ NumeralInv)'
  BY ParserInvNext, NumeralInvNext
<1>2. ParserInv /\ NumeralInv => ParsesNumeral
  <2> SUFFICES ASSUME ParserInv, NumeralInv, at = "done" PROVE ParsesNumeral
    BY DEF ParsesNumeral
  <2>1. Saturates /\ exact \in Nat /\ UINT64_MAX \in Nat
    BY ParserConstants DEF ParserInv, TypeOK
  <2>2. CASE base \notin 2 .. 16
    BY <2>1, <2>2 DEF NumeralInv, ParsesNumeral, Saturates
  <2>3. CASE base \in 2 .. 16
    <3>1. nptr = End /\ Value = exact
      BY <2>3 DEF NumeralInv
    <3> DEFINE S == {Value, UINT64_MAX}
    <3>2. S \subseteq Int /\ result \in S /\ \A y \in S : result <= y
      BY <2>1, <3>1 DEF Saturates
    <3> HIDE DEF S
    <3>3. Min(S) = result
      BY <3>2, MinIs
    <3> QED BY <2>3, <3>1, <3>3 DEF ParsesNumeral, S
  <2> QED BY <2>2, <2>3
<1> QED BY ParserInvInit, NumeralInvInit, <1>1, <1>2, PTL DEF Spec
=============================================================================
