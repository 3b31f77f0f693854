------------------------------ MODULE Kprintf ------------------------------
(***************************************************************************)
(* kprintf (src/lib/stdio.c) and the transmitting half of the UART driver  *)
(* (src/lib/uart.c): the format is turned into text in a buffer on the     *)
(* stack, which then goes out character by character as the FIFO of the    *)
(* UART takes it.                                                          *)
(*                                                                         *)
(* Characters are strings, "NUL", "LF" and "CR" among them; buf_ptr is the *)
(* length of buffer.  An argument is picked when va_arg reads it: any of   *)
(* the given characters, strings or words, whatever the conversion.        *)
(***************************************************************************)
EXTENDS Integers, Sequences, SequencesExt

CONSTANTS
  PRINTF_BUFFER_SIZE,
  MAX_INT_DIGITS,
  POINTER_DIGITS,   \* hex digits of a pointer (16)
  WORD,             \* values of 64-bit types: long, long long, size_t, void*
  INT_WORD,         \* values of a 32-bit unsigned int
  Formats,          \* what callers pass, and as arguments:
  Chars, Strings,   \* for %c and for %s (<<"NULL">> is the null pointer)
  Values,           \* words on the argument list, for numbers and pointers
  TX_SIZE,          \* of the UART's transmit FIFO
  EarlierOutput     \* what it may hold when kprintf is called

VARIABLES
  format, p,   \* p: the position in format, 1 at its start
  buffer, out, \* out: output_ptr as a position in buffer
  tx,          \* the transmit FIFO
  at,          \* "format", "output", "cr" (in uart_putc, after a newline),
               \* "done", or "astray": reading past the end of the format
  full,        \* history: the text as it would be without a limit
  num,         \* history: the last number converted
  wire         \* history: what the UART has sent

vars == <<format, p, buffer, out, tx, at, full, num, wire>>

HexChars == <<"0", "1", "2", "3", "4", "5", "6", "7", "8", "9",
              "a", "b", "c", "d", "e", "f">>

Upper == [a |-> "A", b |-> "B", c |-> "C", d |-> "D", e |-> "E", f |-> "F"]

Decimal == {HexChars[d] : d \in 1 .. 10}
Flags   == {"-", "+", "0", " "}

PowerOfTen[k \in 0 .. MAX_INT_DIGITS] ==
  IF k = 0 THEN 1 ELSE 10 * PowerOfTen[k - 1]

(* num_buf is made for a sign, the digits of half a word, the magnitude of *)
(* the most negative number, and a terminator: 21 for 2^63 < 10^19.        *)
ASSUME KprintfConstants ==
  /\ PRINTF_BUFFER_SIZE \in Nat /\ PRINTF_BUFFER_SIZE > 3
  /\ MAX_INT_DIGITS \in Nat /\ POINTER_DIGITS \in 2 .. MAX_INT_DIGITS - 1
  /\ WORD \in Nat /\ INT_WORD \in 1 .. WORD
  /\ WORD < 2 * PowerOfTen[MAX_INT_DIGITS - 2]
  /\ Values \subseteq 0 .. WORD - 1
  /\ Chars \subseteq STRING /\ Formats \cup Strings \subseteq Seq(STRING)
  /\ TX_SIZE \in Nat \ {0}
  /\ \A text \in EarlierOutput : text \in Seq(STRING) /\ Len(text) <= TX_SIZE

-----------------------------------------------------------------------------
(* The conversion that starts with the '%' at p: flags and width are       *)
(* skipped, a length modifier selects between int and 64-bit arguments.    *)
Char(q) == IF q <= Len(format) THEN format[q] ELSE "NUL"

SkipAll(q, skipped) ==
  CHOOSE r \in q .. Len(format) + 1 :
    /\ Char(r) \notin skipped
    /\ \A k \in q .. r - 1 : Char(k) \in skipped

Modifier == SkipAll(SkipAll(p + 1, Flags), Decimal)

IsWide == Char(Modifier) \in {"l", "z"}

(* Mutant: after an l, a second one is not looked for but skipped.         *)
SpecifierLong ==
  CASE Char(Modifier) = "l" -> Modifier + 2
    [] Char(Modifier) = "z" -> Modifier + 1
    [] OTHER                -> Modifier

Specifier ==
  CASE Char(Modifier) = "l" /\ Char(Modifier + 1) = "l" -> Modifier + 2
    [] Char(Modifier) = "l" /\ Char(Modifier + 1) # "l" -> Modifier + 1
    [] Char(Modifier) = "z" -> Modifier + 1
    [] OTHER                -> Modifier

(* The arguments of the integer conversions.                               *)
UnsignedArg(v) == IF IsWide THEN v ELSE v % INT_WORD

SignedArg(v) ==
  LET n == IF IsWide THEN WORD ELSE INT_WORD
  IN  IF (v % n) * 2 >= n THEN (v % n) - n ELSE v % n

(* The digits of v, written backwards from the end of num_buf.             *)
DigitsOf(v, base) ==
  LET digits[n \in 0 .. WORD - 1] ==
        IF n < base THEN <<HexChars[n + 1]>>
        ELSE Append(digits[n \div base], HexChars[(n % base) + 1])
  IN  digits[v]

(* Mutant: the sign is forgotten.                                          *)
SignedTextBare(v) == DigitsOf(IF v < 0 THEN -v ELSE v, 10)

(* -value wraps to itself for the most negative value, as a uint64_t right.*)
SignedText(v) ==
  IF v < 0 THEN <<"-">> \o DigitsOf(-v, 10) ELSE DigitsOf(v, 10)

UpperChar(c) == IF c \in DOMAIN Upper THEN Upper[c] ELSE c

UpperText(text) == [k \in DOMAIN text |-> UpperChar(text[k])]

PointerText(v) ==
  LET digits == DigitsOf(v, 16)
      zeros  == POINTER_DIGITS - Len(digits)
  IN  [k \in 1 .. (IF zeros > 0 THEN zeros ELSE 0) |-> "0"] \o digits

(* Mutant: no room is kept for the terminator.                             *)
ClipWhole(text, used) ==
  SubSeq(text, 1, Min({Len(text), PRINTF_BUFFER_SIZE - used}))

(* Mutant: a text that does not fit is left out.                           *)
ClipNothing(text, used) ==
  IF Len(text) <= PRINTF_BUFFER_SIZE - used - 1 THEN text ELSE <<>>

(* What fits of a text behind used characters, and before the terminator.  *)
Clip(text, used) ==
  SubSeq(text, 1, Min({Len(text), PRINTF_BUFFER_SIZE - used - 1}))

-----------------------------------------------------------------------------
(* The loop over the format.                                               *)
MoreFormat ==
  /\ at = "format"
  /\ Char(p) # "NUL" /\ Len(buffer) < PRINTF_BUFFER_SIZE - 1

(* Appends text and goes on behind position q of the format.               *)
Emit(text, whole, q) ==
  /\ buffer' = buffer \o text
  /\ full' = full \o whole
  /\ p' = q + 1
  /\ at' = IF p' > Len(format) + 1 THEN "astray" ELSE "format"
  /\ UNCHANGED <<format, out, tx, wire>>

CopyChar ==
  /\ MoreFormat /\ Char(p) # "%"
  /\ Emit(<<Char(p)>>, <<Char(p)>>, p)
  /\ UNCHANGED num

Conversion(letters) ==
  MoreFormat /\ Char(p) = "%" /\ Char(Specifier) \in letters

ConvertChar ==
  /\ Conversion({"c"})
  /\ \E c \in Chars : Emit(<<c>>, <<c>>, Specifier)
  /\ UNCHANGED num

ConvertString ==
  /\ Conversion({"s"})
  /\ \E s \in Strings :
       LET str == IF s = <<"NULL">> THEN <<"(", "n", "u", "l", "l", ")">> ELSE s
       IN  Emit(Clip(str, Len(buffer)), str, Specifier)
  /\ UNCHANGED num

(* prefix is what was written of whole_prefix.                             *)
EmitNumber(prefix, whole_prefix, text, value, base) ==
  /\ Emit(prefix \o Clip(text, Len(buffer) + Len(prefix)),
          whole_prefix \o text, Specifier)
  /\ num' = [value |-> value, base |-> base, text |-> text]

ConvertSigned ==
  /\ Conversion({"d", "i"})
  /\ \E v \in Values :
       EmitNumber(<<>>, <<>>, SignedText(SignedArg(v)), SignedArg(v), 10)

ConvertUnsigned ==
  /\ Conversion({"u"})
  /\ \E v \in Values :
       EmitNumber(<<>>, <<>>, DigitsOf(UnsignedArg(v), 10), UnsignedArg(v), 10)

ConvertHex ==
  /\ Conversion({"x", "X"})
  /\ \E v \in Values :
       LET low  == DigitsOf(UnsignedArg(v), 16)
           text == IF Char(Specifier) = "x" THEN low ELSE UpperText(low)
       IN  EmitNumber(<<>>, <<>>, text, UnsignedArg(v), 16)

(* The prefix is left out if there is no room for it and one digit.        *)
ConvertPointer ==
  /\ Conversion({"p"})
  /\ LET hex_0x     == <<"0", "x">>
         prefix == IF Len(buffer) + 2 < PRINTF_BUFFER_SIZE - 1 THEN hex_0x ELSE <<>>
     IN  \E v \in Values : EmitNumber(prefix, hex_0x, PointerText(v), v, 16)

ConvertPercent ==
  /\ Conversion({"%"})
  /\ Emit(<<"%">>, <<"%">>, Specifier)
  /\ UNCHANGED num

Supported == {"c", "s", "d", "i", "u", "x", "X", "p", "%"}

(* Anything else is copied, two characters at once; at the end of the      *)
(* format the second is its terminator, and format moves past it.          *)
ConvertUnknown ==
  /\ MoreFormat /\ Char(p) = "%" /\ Char(Specifier) \notin Supported
  /\ LET text == <<"%", Char(Specifier)>> IN Emit(text, text, Specifier)
  /\ UNCHANGED num

(* The terminator, then the output loop starts.                            *)
EndOfFormat ==
  /\ at = "format" /\ ~MoreFormat
  /\ at' = "output"
  /\ UNCHANGED <<format, p, buffer, out, tx, full, num, wire>>

-----------------------------------------------------------------------------
(* uart_putc: wait until the FIFO is not full, write the character, and    *)
(* the same for a carriage return after a newline.                         *)

(* Mutant: no waiting.                                                     *)
TxReadyAlways == TRUE

(* Mutant: waits on the receive flag, set as long as nobody types.         *)
TxReadyReceive == FALSE

TxReady == Len(tx) < TX_SIZE

(* External: a character written to a full FIFO is lost.                   *)
WriteDR(c) == tx' = IF Len(tx) < TX_SIZE THEN Append(tx, c) ELSE tx

(* The text ends at the first NUL: the terminator, or one that was printed.*)
MoreOutput == out <= Len(buffer) /\ buffer[out] # "NUL"

(* Mutant: the test is the wrong way round.                                *)
NeedsReturnNot(c) == c # "LF"

NeedsReturn(c) == c = "LF"

PutChar ==
  /\ at = "output" /\ MoreOutput
  /\ TxReady /\ WriteDR(buffer[out])
  /\ at' = IF NeedsReturn(buffer[out]) THEN "cr" ELSE "output"
  /\ out' = out + 1
  /\ UNCHANGED <<format, p, buffer, full, num, wire>>

PutReturn ==
  /\ at = "cr"
  /\ TxReady /\ WriteDR("CR")
  /\ at' = "output"
  /\ UNCHANGED <<format, p, buffer, out, full, num, wire>>

Return ==
  /\ at = "output" /\ ~MoreOutput
  /\ at' = "done"
  /\ UNCHANGED <<format, p, buffer, out, tx, full, num, wire>>

(* External: the UART sends the oldest character of its FIFO.              *)
Transmit ==
  /\ tx # <<>>
  /\ wire' = Append(wire, Head(tx)) /\ tx' = Tail(tx)
  /\ UNCHANGED <<format, p, buffer, out, at, full, num>>

-----------------------------------------------------------------------------
Init ==
  /\ format \in Formats /\ p = 1
  /\ buffer = <<>> /\ out = 1 /\ full = <<>>
  /\ tx \in EarlierOutput /\ wire = <<>>
  /\ at = "format"
  /\ num = [value |-> 0, base |-> 10, text |-> <<"0">>]

Kprintf ==
  \/ CopyChar \/ ConvertChar \/ ConvertString \/ ConvertSigned
  \/ ConvertUnsigned \/ ConvertHex \/ ConvertPointer \/ ConvertPercent
  \/ ConvertUnknown \/ EndOfFormat \/ PutChar \/ PutReturn \/ Return

Next == Kprintf \/ Transmit

(* The processor executes kprintf, and the UART sends what it holds.       *)
Spec == Init /\ [][Next]_vars /\ WF_vars(Kprintf) /\ WF_vars(Transmit)

-----------------------------------------------------------------------------
TypeOK ==
  /\ format \in Formats /\ p \in 1 .. Len(format) + 2
  /\ out \in 1 .. Len(buffer) + 1
  /\ Len(tx) <= TX_SIZE
  /\ at \in {"format", "output", "cr", "done", "astray"}
  /\ at = "cr" => buffer[out - 1] = "LF"

(* The terminator, behind the last character, is inside the buffer; only   *)
(* an unsupported conversion for which one place is left, which no format  *)
(* of the kernel has, puts it one byte past the end, and never further.    *)
TerminatorInside ==
  \/ Len(buffer) < PRINTF_BUFFER_SIZE
  \/ /\ Len(buffer) = PRINTF_BUFFER_SIZE
     /\ buffer[PRINTF_BUFFER_SIZE - 1] = "%"
     /\ buffer[PRINTF_BUFFER_SIZE] \notin Supported

(* Text that is too long is cut, nothing else: what is in the buffer is    *)
(* the whole text, or, once full, its start; only the last two characters  *)
(* may be others, the first digits of a pointer whose 0x had no room.      *)
TextCutAtEnd ==
  IF Len(buffer) < PRINTF_BUFFER_SIZE - 1 THEN buffer = full
  ELSE IsPrefix(SubSeq(buffer, 1, PRINTF_BUFFER_SIZE - 3), full)

(* The value of a text, most significant digit first.                      *)
DigitValue(c) ==
  (CHOOSE d \in 1 .. 16 : HexChars[d] = c
     \/ (HexChars[d] \in DOMAIN Upper /\ Upper[HexChars[d]] = c)) - 1

Denotes(text, base) ==
  FoldLeft(LAMBDA n, c : n * base + DigitValue(c), 0, text)

(* Numbers are printed exactly, the most negative of each width included,  *)
(* and the longest of them and a terminator fit into num_buf.              *)
NumbersExact ==
  LET sign   == num.text[1] = "-"
      digits == IF sign THEN Tail(num.text) ELSE num.text
  IN  /\ Len(num.text) <= MAX_INT_DIGITS - 1
      /\ sign = (num.value < 0)
      /\ Denotes(digits, num.base) = (IF sign THEN -num.value ELSE num.value)

(* From b to e: a '%', flags, a width, a length, and a character that is   *)
(* none of these.                                                          *)
IsConversion(f, b, e) ==
  /\ e \in DOMAIN f
  /\ f[b] = "%" /\ f[e] \notin Flags \cup Decimal \cup {"l", "z"}
  /\ \E w \in b + 1 .. e : \E m \in w .. e :
       /\ \A k \in b + 1 .. w - 1 : f[k] \in Flags
       /\ \A k \in w .. m - 1 : f[k] \in Decimal
       /\ SubSeq(f, m, e - 1) \in {<<>>, <<"l">>, <<"l", "l">>, <<"z">>}

(* At each of the marks but the end, a single character or a conversion    *)
(* starts that goes on to another mark.                                    *)
Splits(f, marks) ==
  /\ 1 \in marks
  /\ \A b \in marks \ {Len(f) + 1} : \E n \in marks :
       (n = b + 1 /\ f[b] # "%") \/ (n > b /\ IsConversion(f, b, n - 1))

Whole(f) == \E marks \in SUBSET (1 .. Len(f) + 1) : Splits(f, marks)

(* kprintf reads past the end of its format only if that is not made of    *)
(* characters and whole conversions, known or unknown; that is, if it ends *)
(* in the middle of one, or has a length that no C type has.               *)
StaysInFormat == at = "astray" => ~Whole(format)

(* The line gets what is in the buffer, up to a NUL, in order and without  *)
(* loss however slow the UART is, with a carriage return after each        *)
(* newline, and behind what earlier calls left in the FIFO.                *)
Lines(text) ==
  FlattenSeq([k \in DOMAIN text |->
                IF text[k] = "LF" THEN <<"LF", "CR">> ELSE <<text[k]>>])

SentInOrder ==
  LET sent == Lines(SubSeq(buffer, 1, out - 1))
      now  == IF at = "cr" THEN Front(sent) ELSE sent
  IN  \E earlier \in EarlierOutput : wire \o tx = earlier \o now

(* kprintf returns, whatever the format, as long as the UART sends.        *)
Returns == at = "format" ~> at \in {"done", "astray"}
=============================================================================
