------------------------------- MODULE Format -------------------------------
(***************************************************************************)
(* c_printf: __c_do_printf goes through a format string, one character or  *)
(* directive at a time, converting numbers of WORD_BITS bits in a buffer   *)
(* of fixed size and padding them.  The characters go to c_putchar, which  *)
(* is not looked at here (see Console).  %c and %s convert nothing and are *)
(* left out.                                                               *)
(***************************************************************************)
EXTENDS Integers, Sequences

CONSTANTS
  WORD_BITS,      \* width of an int (32); as 32 it leaves 2 when divided by 3
  PRINTF_BUF,     \* size of buf, 12: the longest number and its end
  PRINTED_TEXTS   \* what callers print: sequences of characters, of numbers with the
                  \* field they are to fill, and of fields without a type (`cut')

\* base to the power of each number.
Power(base) == LET power[n \in Nat] == IF n = 0 THEN 1 ELSE base * power[n - 1] IN power

MAXINT == Power(2)[WORD_BITS - 1] - 1
Ints == (-MAXINT - 1)..MAXINT

\* buf holds a sign, the digits of any int in any base, and the final zero.
ASSUME FormatAssumption ==
  /\ WORD_BITS \in Nat /\ WORD_BITS > 4 /\ WORD_BITS % 3 = 2 /\ WORD_BITS % 4 = 0
  /\ PRINTF_BUF \in Nat
  /\ PRINTF_BUF >= 2 /\ MAXINT + 1 < Power(10)[PRINTF_BUF - 2]
  /\ PRINTF_BUF >= WORD_BITS \div 3 + 2

\* Callers print ordinary characters, and numbers in fields whose width is an int; a field
\* without a type is the last.
ASSUME TextsAssumption ==
  \A text \in PRINTED_TEXTS :
    /\ text \in Seq({text[i] : i \in DOMAIN text})
    /\ \A i \in DOMAIN text :
         \/ text[i].type = "char" /\ text[i].char # "%"
         \/ /\ text[i].type \in {"d", "x", "o", "cut"}
            /\ text[i].left \in BOOLEAN /\ text[i].zero \in BOOLEAN /\ text[i].width \in 0..MAXINT
            /\ IF text[i].type = "cut" THEN i = Len(text) ELSE text[i].value \in Ints

hexdigits == <<"0", "1", "2", "3", "4", "5", "6", "7", "8", "9", "A", "B", "C", "D", "E", "F">>
Digit(n) == hexdigits[n + 1]
IsDecimal(c) == \E n \in 0..9 : c = Digit(n)
ValueOf(c) == CHOOSE n \in 0..15 : c = Digit(n)

\* The number these digits write.
NumberOf(str, base) ==
  LET number[i \in 0..Len(str)] == IF i = 0 THEN 0 ELSE base * number[i - 1] + ValueOf(str[i])
  IN  number[Len(str)]

\* One behind the other.
Joined(seqs) ==
  LET joined[i \in 0..Len(seqs)] == IF i = 0 THEN <<>> ELSE joined[i - 1] \o seqs[i]
  IN  joined[Len(seqs)]

VARIABLES
  asked,    \* the text the caller wrote
  fmt, ap,  \* what is left of the format string and of the arguments
  shown,    \* the characters printed so far
  overlong, \* a conversion stored more than buf holds
  ranOff    \* the loop has gone past the end of the format string

formatVars == <<asked, fmt, ap, shown, overlong, ranOff>>

-----------------------------------------------------------------------------
(* The conversions: the characters stored in buf, without the final zero. *)

\* cvtdec0, of a value that is not negative.
Decimal[value \in Nat] ==
  IF value \div 10 = 0 THEN <<Digit(value % 10)>>
  ELSE Append(Decimal[value \div 10], Digit(value % 10))

\* Mutant: what has no positive counterpart is converted as the greatest int.
Cvtdec0Greatest(value) == Decimal[IF value >= 0 THEN value ELSE MAXINT]

\* cvtdec0: the negative value that has no positive counterpart is recognized by its
\* quotient, and replaced by 214748364 and 8.
Cvtdec0(value) ==
  IF value >= 0 THEN Decimal[value]
  ELSE Append(Decimal[(MAXINT + 1) \div 10], Digit((MAXINT + 1) % 10))

\* Negation in WORD_BITS bits.
Negated(value) == IF value = -MAXINT - 1 THEN value ELSE -value

Cvtdec(value) == IF value < 0 THEN <<"-">> \o Cvtdec0(Negated(value)) ELSE Cvtdec0(value)

\* The digits from the first that is not 0, but always the last (chars_stored).
FromFirst(digits) ==
  LET stored == {i \in DOMAIN digits : digits[i] # 0 \/ i = Len(digits)}
  IN  SubSeq(digits, CHOOSE i \in stored : \A j \in stored : i <= j, Len(digits))

Chars(digits) == [i \in DOMAIN digits |-> Digit(digits[i])]
Unsigned(value) == value % Power(2)[WORD_BITS]

Cvthex(value) ==
  LET n == WORD_BITS \div 4
  IN  Chars(FromFirst([i \in 1..n |-> (Unsigned(value) \div Power(16)[n - i]) % 16]))

\* The first digit is made of two bits; shifting them down from the top of an int
\* copies the sign, and `& 0x7' keeps one copy.
Cvtoct(value) ==
  LET n == WORD_BITS \div 3 + 1
      digit(i) == (Unsigned(value) \div Power(8)[n - i]) % 8
  IN  Chars(FromFirst([i \in 1..n |-> IF i = 1 /\ value < 0 THEN digit(1) + 4 ELSE digit(i)]))

-----------------------------------------------------------------------------
\* What follows a `%': alignment, then fill, then width, then the type; `type' is
\* empty where the string ends first.
Directive(str) ==
  LET skip(s, c) == IF s # <<>> /\ s[1] = c THEN Tail(s) ELSE s
      s1 == skip(str, "-")
      s2 == skip(s1, "0")
      ends == {i \in 0..Len(s2) : \A j \in 1..i : IsDecimal(s2[j])}
      n == CHOOSE i \in ends : \A j \in ends : j <= i
  IN  [left |-> s1 # str,
       padchar |-> IF s2 # s1 THEN "0" ELSE " ",
       width |-> NumberOf(SubSeq(s2, 1, n), 10),
       type |-> IF n < Len(s2) THEN <<s2[n + 1]>> ELSE <<>>,
       rest |-> SubSeq(s2, n + 2, Len(s2))]

\* padstr
Padstr(str, width, left, padchar) ==
  LET extra == [i \in 1..(width - Len(str)) |-> padchar]
  IN  IF left THEN str \o extra ELSE extra \o str

Converted(type, value) ==
  CASE type = "d" -> Cvtdec(value) [] type = "x" -> Cvthex(value) [] type = "o" -> Cvtoct(value)

\* How a caller writes a piece of its text in the format string.
FormatOf(piece) ==
  IF piece.type = "char" THEN <<piece.char>>
  ELSE <<"%">> \o (IF piece.left THEN <<"-">> ELSE <<>>) \o (IF piece.zero THEN <<"0">> ELSE <<>>)
       \o (IF piece.width = 0 THEN <<>> ELSE Decimal[piece.width])
       \o (IF piece.type = "cut" THEN <<>> ELSE <<piece.type>>)

\* The pieces that take an argument.
FieldsOf(text) ==
  Joined([i \in DOMAIN text |-> IF text[i].type \in {"d", "x", "o"} THEN <<text[i]>> ELSE <<>>])

FormatInit ==
  /\ asked \in PRINTED_TEXTS
  /\ fmt = Joined([i \in DOMAIN asked |-> FormatOf(asked[i])])
  /\ ap = [i \in DOMAIN FieldsOf(asked) |-> FieldsOf(asked)[i].value]
  /\ shown = <<>> /\ overlong = FALSE /\ ranOff = FALSE

\* An ordinary character.
PrintChar ==
  /\ ~ ranOff /\ fmt # <<>> /\ fmt[1] # "%"
  /\ shown' = Append(shown, fmt[1])
  /\ fmt' = Tail(fmt)
  /\ UNCHANGED <<asked, ap, overlong, ranOff>>

\* A directive with a number.
PrintField ==
  LET d == Directive(Tail(fmt))
      str == Converted(d.type[1], ap[1])
  IN  /\ ~ ranOff /\ fmt # <<>> /\ fmt[1] = "%"
      /\ d.type # <<>>
      /\ overlong' = (overlong \/ Len(str) + 1 > PRINTF_BUF)
      /\ shown' = shown \o Padstr(str, d.width, d.left, d.padchar)
      /\ fmt' = d.rest
      /\ ap' = Tail(ap)
      /\ UNCHANGED <<asked, ranOff>>

\* The string ends within a directive: its end is taken for an unknown type, and
\* the loop goes on with what follows the string in memory.
PrintRunsOff ==
  /\ ~ ranOff /\ fmt # <<>> /\ fmt[1] = "%"
  /\ Directive(Tail(fmt)).type = <<>>
  /\ ranOff' = TRUE
  /\ UNCHANGED <<asked, fmt, ap, shown, overlong>>

PrintDone == (ranOff \/ fmt = <<>>) /\ UNCHANGED formatVars

FormatNext == PrintChar \/ PrintField \/ PrintRunsOff \/ PrintDone

-----------------------------------------------------------------------------
FormatTypeOK ==
  /\ Len(ap) <= Len(asked)
  /\ overlong \in BOOLEAN /\ ranOff \in BOOLEAN

\* Whether these digits, with no zero in front, write number n.
WritesNat(str, base, n) ==
  /\ \A i \in DOMAIN str : \E d \in 0..(base - 1) : str[i] = Digit(d)
  /\ str # <<>> /\ (str[1] = "0" => Len(str) = 1)
  /\ NumberOf(str, base) = n

\* In octal a number with its top bit set has a first digit that is too large by 4.
WritesNumber(type, str, value) ==
  CASE type = "d" -> IF value < 0 THEN str[1] = "-" /\ WritesNat(Tail(str), 10, -value)
                     ELSE WritesNat(str, 10, value)
    [] type = "x" -> WritesNat(str, 16, Unsigned(value))
    [] type = "o" -> WritesNat(str, 8, Unsigned(value) + IF value < 0 THEN Power(2)[WORD_BITS] ELSE 0)

\* What str shows as the field: the number as Len(str) - pads characters, and where it
\* is short of the width, padding on the side asked for.
ShowsField(str, field) ==
  \E pads \in 0..(Len(str) - 1) :
    LET first == IF field.left THEN 1 ELSE pads + 1
        last == Len(str) - (IF field.left THEN pads ELSE 0)
    IN  /\ last - first + 1 < PRINTF_BUF
        /\ WritesNumber(field.type, SubSeq(str, first, last), field.value)
        /\ \A k \in DOMAIN str \ (first..last) : str[k] = IF field.zero THEN "0" ELSE " "
        /\ pads > 0 => Len(str) = field.width
        /\ Len(str) >= field.width

\* Every number is shown in its field as the caller wrote it, the least one of an int
\* also, from a buffer that is long enough; each takes its own argument; and the loop
\* leaves the format string only where it ends within a directive.
FieldsRight ==
  [][LET fields == FieldsOf(asked)
         str == SubSeq(shown', Len(shown) + 1, Len(shown'))
     IN  /\ SubSeq(shown', 1, Len(shown)) = shown /\ ~ overlong'
         /\ ap' # ap => ShowsField(str, fields[Len(fields) - Len(ap) + 1])
         /\ ap' = ap => Len(str) <= 1
         /\ fmt' = <<>> => ap' = <<>>
         /\ ranOff' => asked[Len(asked)].type = "cut"]_formatVars
=============================================================================
