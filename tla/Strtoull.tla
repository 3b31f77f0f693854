------------------------------ MODULE Strtoull ------------------------------
(***************************************************************************)
(* The number parser of the shell (src/lib/stdlib_stubs.c), one action per *)
(* turn of its loops.                                                      *)
(***************************************************************************)
EXTENDS Integers, Sequences, FiniteSetsExt

CONSTANTS
  UINT64_MAX,
  Strings,     \* what may be parsed: sequences of character codes
  Bases        \* what is passed as base; the shell passes 0

ASSUME ParserConstants ==
  /\ UINT64_MAX \in Nat
  /\ \A s \in Strings : s \in Seq(1 .. 255)
  /\ Bases \subseteq Int

VARIABLES
  str, base,
  nptr,      \* index of the next character; that of the first is 0
  result,
  at,        \* "space", "digits", "overflow" (the inner loop) or "done"
  exact      \* history: the number that the digits so far denote

vars == <<str, base, nptr, result, at, exact>>

Spaces == {32, 9, 10, 13, 12, 11}
PLUS   == 43
MINUS  == 45
ZERO   == 48
XS     == {120, 88}

(* *(str + i), with the terminating zero.                                  *)
Char(i) == IF i < Len(str) THEN str[i + 1] ELSE 0

NotADigit == 99

DigitOf(c) ==
  CASE c \in 48 .. 57  -> c - 48
    [] c \in 97 .. 122 -> c - 97 + 10
    [] c \in 65 .. 90  -> c - 65 + 10
    [] OTHER           -> NotADigit

IsDigit(c) == DigitOf(c) < base

(* Mutant: a space is not stepped over.                                    *)
SkipSpaceNot ==
  /\ at = "space" /\ Char(nptr) \in Spaces
  /\ UNCHANGED vars

SkipSpace ==
  /\ at = "space" /\ Char(nptr) \in Spaces
  /\ nptr' = nptr + 1
  /\ UNCHANGED <<str, base, result, at, exact>>

(* Where the digits may begin: after a sign, which is ignored.             *)
AfterSign == IF Char(nptr) \in {PLUS, MINUS} THEN nptr + 1 ELSE nptr

(* Mutant: any character after the zero is taken for the x.                *)
HasPrefixAny(i) == base \in {0, 16} /\ Char(i) = ZERO

HasPrefix(i) ==
  base \in {0, 16} /\ Char(i) = ZERO /\ Char(i + 1) \in XS

(* Sign, prefix and base.  A base that is not supported ends the call with *)
(* *endptr at the start of the string.                                     *)
DetermineBase ==
  /\ at = "space" /\ Char(nptr) \notin Spaces
  /\ base' = IF HasPrefix(AfterSign) THEN 16 ELSE IF base = 0 THEN 10 ELSE base
  /\ \/ /\ base' \in 2 .. 16
        /\ nptr' = IF HasPrefix(AfterSign) THEN AfterSign + 2 ELSE AfterSign
        /\ at' = "digits"
     \/ /\ base' \notin 2 .. 16
        /\ nptr' = 0
        /\ at' = "done"
  /\ UNCHANGED <<str, result, exact>>

Cutoff == UINT64_MAX \div base
Cutlim == UINT64_MAX % base

(* Mutant: the last digit is not looked at.                                *)
OverflowsEarly(digit) == result >= Cutoff

Overflows(digit) ==
  result > Cutoff \/ (result = Cutoff /\ digit > Cutlim)

Digit ==
  LET digit == DigitOf(Char(nptr)) IN
  /\ at = "digits" /\ IsDigit(Char(nptr))
  /\ \/ /\ Overflows(digit)
        /\ result' = UINT64_MAX
        /\ at' = "overflow"
     \/ /\ ~Overflows(digit)
        /\ result' = result * base + digit
        /\ UNCHANGED at
  /\ nptr' = nptr + 1
  /\ exact' = exact * base + digit
  /\ UNCHANGED <<str, base>>

(* Mutant: the digits after an overflow are left unread.                   *)
SkipDigitNot ==
  /\ at = "overflow" /\ IsDigit(Char(nptr))
  /\ at' = "done"
  /\ UNCHANGED <<str, base, nptr, result, exact>>

(* After an overflow the remaining digits are only consumed.               *)
SkipDigit ==
  /\ at = "overflow" /\ IsDigit(Char(nptr))
  /\ nptr' = nptr + 1
  /\ exact' = exact * base + DigitOf(Char(nptr))
  /\ UNCHANGED <<str, base, result, at>>

EndOfDigits ==
  /\ at \in {"digits", "overflow"} /\ ~IsDigit(Char(nptr))
  /\ at' = "done"
  /\ UNCHANGED <<str, base, nptr, result, exact>>

Init ==
  /\ str \in Strings /\ base \in Bases
  /\ nptr = 0 /\ result = 0 /\ at = "space" /\ exact = 0

Next ==
  SkipSpace \/ DetermineBase \/ Digit \/ SkipDigit \/ EndOfDigits

(* The call runs to its end.                                               *)
Spec == Init /\ [][Next]_vars /\ WF_vars(Next)

-----------------------------------------------------------------------------
(* nptr never passes the terminator, and the result has 64 bits.           *)
TypeOK ==
  /\ str \in Strings
  /\ base \in Int
  /\ nptr \in 0 .. Len(str)
  /\ result \in 0 .. UINT64_MAX
  /\ at \in {"space", "digits", "overflow", "done"}
  /\ exact \in Nat

(* The cutoff test is exact: the result is the number itself up to         *)
(* UINT64_MAX, and UINT64_MAX from there on; nothing wraps.                *)
Saturates ==
  result = IF exact > UINT64_MAX THEN UINT64_MAX ELSE exact

(* The same said without loops.  Spaces, a sign and a prefix are skipped;  *)
(* Body is where the digits begin, End the first character after them;     *)
(* each digit weighs as much as its position says.                         *)
Signed == Min({i \in 0 .. Len(str) : Char(i) \notin Spaces})
Prefixed == IF Char(Signed) \in {PLUS, MINUS} THEN Signed + 1 ELSE Signed
Body ==
  IF base = 16 /\ Char(Prefixed) = ZERO /\ Char(Prefixed + 1) \in XS
  THEN Prefixed + 2 ELSE Prefixed
End == Min({i \in Body .. Len(str) : ~IsDigit(Char(i))})
Power[k \in 0 .. Len(str)] == IF k = 0 THEN 1 ELSE base * Power[k - 1]
Terms == [i \in Body .. End - 1 |-> DigitOf(Char(i)) * Power[End - 1 - i]]
Value == SumFunction(Terms)

(* When the call returns, *endptr is the first character that does not     *)
(* belong to the numeral, also after an overflow (the shell takes anything *)
(* but the terminator there for a format error), and the result is the     *)
(* value of its digits, each weighed by its position, saturated.  A base   *)
(* that is not supported returns zero and the string itself.               *)
ParsesNumeral ==
  at = "done" =>
    \/ base \in 2 .. 16 /\ nptr = End
       /\ result = Min({Value, UINT64_MAX})
    \/ base \notin 2 .. 16 /\ nptr = 0 /\ result = 0

(* Every call returns.                                                     *)
Returns == <>(at = "done")
=============================================================================
