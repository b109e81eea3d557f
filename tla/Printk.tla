------------------------------- MODULE Printk -------------------------------
(***************************************************************************)
(* simple_vsprintf, behind printk (lib/printk.c): the walk over the format, *)
(* one character a step, and the conversion of integers with their padding. *)
(* The format and its arguments are chosen as they are read.  Integers are  *)
(* CHAR, SHORT, INT and LONG bits wide (8, 16, 32 and 64 in the code); a    *)
(* long long is as wide as a long.                                          *)
(***************************************************************************)
EXTENDS Integers, SequencesExt, FiniteSetsExt

CONSTANTS CHAR, SHORT, INT, LONG,
          PRINT_BUF_LEN,  \* characters in print_buf, 64 in the code
          Strings,        \* the arguments of %s, sequences of characters
          Stars,          \* the arguments of *
          NULL

\* Bounds of the exploration: the characters between a % and its conversion, the
\* digits of a width above 0, the widths, the count at which a % may still come.
CONSTANTS MaxAsked, WidthDigits, MaxWidth, MaxCount

ASSUME Widths == /\ {CHAR, SHORT, INT, LONG} \subseteq Nat \ {0}
                 /\ CHAR < SHORT /\ SHORT < INT /\ INT < LONG

\* print_buf has a place for every bit of a long.
ASSUME Buffer == PRINT_BUF_LEN = LONG

ASSUME Inputs == /\ Strings \subseteq Seq(STRING) /\ Stars \subseteq Int
                 /\ WidthDigits \subseteq 1 .. 9

\* Two facts of arithmetic, for the widths in use: a proof knows nothing of 2^k
\* for a variable k, so they are stated, and TLC evaluates them.
ASSUME Powers ==
  /\ \A k \in 0 .. LONG : 2^k \in Nat \ {0}
  /\ \A j, k \in 0 .. LONG : j + k <= LONG => 2^(j + k) = 2^j * 2^k

VARIABLES
  at,       \* where the walk stands: what the next character is read as
  width, flags,
  pc,       \* characters counted
  sent,     \* characters sent, and the carriage returns among them
  returns,
  asked,    \* the characters of the directive read so far
  star,     \* the argument its * took
  last      \* what the last directive was and sent

vars == <<at, width, flags, pc, sent, returns, asked, star, last>>
count == <<pc, sent, returns>>

LowerDigits == <<"0", "1", "2", "3", "4", "5", "6", "7",
                 "8", "9", "a", "b", "c", "d", "e", "f">>
UpperDigits == <<"0", "1", "2", "3", "4", "5", "6", "7",
                 "8", "9", "A", "B", "C", "D", "E", "F">>

Blank == " "

SignedRange(bits) == -(2 ^ (bits - 1)) .. 2 ^ (bits - 1) - 1
UnsignedRange(bits) == 0 .. 2 ^ bits - 1

\* The two's complement value of the low bits of v.
Signed(v, bits) == CHOOSE i \in SignedRange(bits) : (i - v) % 2 ^ bits = 0

-----------------------------------------------------------------------------
(* The two functions that send characters.                                  *)

prints(string, w, f) ==
  LET pad == [k \in 1 .. w - Len(string) |->
                IF "PAD_ZERO" \in f THEN "0" ELSE Blank]
  IN  IF "PAD_RIGHT" \in f THEN string \o pad ELSE pad \o string

Numeral(u, base, digits) ==
  LET before[v \in 0 .. 2 ^ LONG - 1] ==
        IF v = 0 THEN <<>>
        ELSE Append(before[v \div base], digits[(v % base) + 1])
  IN  before[u]

\* What was sent, the count returned and the characters of print_buf used, with
\* the NUL.
Printed(minus, padded, room) ==
  [text |-> minus \o padded, pc |-> Len(minus) + Len(padded), room |-> room]

simple_outputi(i, base, sign, w, f, digits) ==
  LET neg == sign /\ base = 10 /\ i < 0
      u == (IF neg THEN -i ELSE i) % 2 ^ LONG
      minusFirst == neg /\ w # 0 /\ "PAD_ZERO" \in f
      s == (IF neg /\ ~minusFirst THEN <<"-">> ELSE <<>>)
             \o (IF i = 0 THEN <<"0">> ELSE Numeral(u, base, digits))
      padded == prints(s, IF minusFirst THEN w - 1 ELSE w, f)
  IN  Printed(IF minusFirst THEN <<"-">> ELSE <<>>, padded, Len(s) + 1)

-----------------------------------------------------------------------------
(* The conversions: a modifier, or "none", and a letter.                    *)

Modifiers == {"l", "ll", "h", "hh"}
Modifier == IF at \in Modifiers THEN at ELSE "none"

IntegerLetters(m) ==
  {"d", "u", "x", "X"} \cup (IF m = "none" THEN {"b", "p"} ELSE {})

Bits(m, c) == CASE m = "hh" -> CHAR
                [] m = "h" -> SHORT
                [] m \in {"l", "ll"} \/ c = "p" -> LONG
                [] OTHER -> INT

Base(c) == CASE c = "b" -> 2 [] c \in {"d", "u"} -> 10 [] OTHER -> 16

IsSigned(c) == c \in {"d", "b"}

\* What va_arg takes: a char or a short arrives as an int.
Arguments(m, c) ==
  LET bits == Max({INT, Bits(m, c)})
  IN  IF IsSigned(c) THEN SignedRange(bits) ELSE UnsignedRange(bits)

\* The values simple_outputi may be given for an argument.  An unsigned char or
\* short is stored in its own member of the union and passed as u.lli: the other
\* bytes are whatever was there.
Passed(m, c, arg) ==
  LET bits == Bits(m, c)
  IN  IF IsSigned(c) THEN {Signed(arg, bits)}
      ELSE IF m \in {"h", "hh"}
           THEN {i \in SignedRange(LONG) : (i - arg) % 2 ^ bits = 0}
           ELSE {Signed(arg, LONG)}

-----------------------------------------------------------------------------
Init == /\ at = "text" /\ width = 0 /\ flags = {}
        /\ pc = 0 /\ sent = 0 /\ returns = 0
        /\ asked = <<>> /\ star = 0 /\ last = NULL

\* The points between the % and the letter of a conversion.
InDirective == {"%", "flags", "width", "star"}

\* A character outside the directives, or the second % of two.
PlainText ==
  \E c \in {"a", "\n", "%"} :
    /\ at = IF c = "%" THEN "%" ELSE "text"
    /\ pc < MaxCount
    /\ pc' = pc + 1
    /\ sent' = sent + (IF c = "\n" THEN 2 ELSE 1)
    /\ returns' = returns + (IF c = "\n" THEN 1 ELSE 0)
    /\ at' = "text"
    /\ last' = NULL
    /\ UNCHANGED <<width, flags, asked, star>>

\* The reset of width and flags.  A plausible mistake is to leave out the flags.
Percent_KeepsFlags ==
  /\ at = "text" /\ pc <= MaxCount
  /\ at' = "%" /\ width' = 0
  /\ asked' = <<>> /\ star' = 0 /\ last' = NULL
  /\ UNCHANGED <<flags, count>>

Percent ==
  /\ at = "text" /\ pc <= MaxCount
  /\ at' = "%" /\ width' = 0 /\ flags' = {}
  /\ asked' = <<>> /\ star' = 0 /\ last' = NULL
  /\ UNCHANGED count

Minus ==
  /\ at = "%"
  /\ at' = "flags" /\ flags' = {"PAD_RIGHT"}
  /\ asked' = <<"-">>
  /\ UNCHANGED <<width, star, last, count>>

Zero ==
  /\ at \in {"%", "flags"} /\ Len(asked) < MaxAsked
  /\ at' = "flags" /\ flags' = flags \cup {"PAD_ZERO"}
  /\ asked' = Append(asked, "0")
  /\ UNCHANGED <<width, star, last, count>>

Star ==
  /\ at \in {"%", "flags"} /\ Len(asked) < MaxAsked
  /\ star' \in Stars
  /\ at' = "star" /\ width' = star'
  /\ asked' = Append(asked, "*")
  /\ UNCHANGED <<flags, last, count>>

\* Widths are integers of any size here and an int in the code: the model is right for
\* widths that fit an int.
Digit ==
  \E d \in WidthDigits \cup (IF at = "width" THEN {0} ELSE {}) :
    /\ at \in {"%", "flags", "width"} /\ Len(asked) < MaxAsked
    /\ width * 10 + d <= MaxWidth
    /\ at' = "width" /\ width' = width * 10 + d
    /\ asked' = Append(asked, LowerDigits[d + 1])
    /\ UNCHANGED <<flags, star, last, count>>

ReadModifier ==
  \E m \in Modifiers :
    /\ \/ at \in InDirective /\ m \in {"l", "h"}
       \/ at \in {"l", "h"} /\ m = (IF at = "l" THEN "ll" ELSE "hh")
    /\ at' = m
    /\ asked' = Append(asked, m)
    /\ UNCHANGED <<width, flags, star, last, count>>

\* Sends what a conversion printed, field being the directive it belongs to.
Send(printed, field) ==
  /\ pc' = pc + printed.pc
  /\ sent' = sent + Len(printed.text)
  /\ last' = [modifier |-> field.modifier, letter |-> field.letter,
              arg |-> field.arg, text |-> printed.text,
              asked |-> asked, star |-> star]
  /\ UNCHANGED <<width, flags, returns, asked, star>>

\* A numeral that does not fit print_buf is written below it: nothing is known
\* of what follows.
ConvertInteger ==
  /\ at \in InDirective \cup Modifiers
  /\ \E c \in IntegerLetters(Modifier) : \E arg \in Arguments(Modifier, c) :
     \E i \in Passed(Modifier, c, arg) :
       LET digits == IF c = "X" THEN UpperDigits ELSE LowerDigits
           printed ==
             simple_outputi(i, Base(c), IsSigned(c), width, flags, digits)
           field == [modifier |-> Modifier, letter |-> c, arg |-> arg]
       IN  /\ at' = IF printed.room > PRINT_BUF_LEN THEN "overrun" ELSE "text"
           /\ Send(printed, field)

\* %c of a NUL prints no character, %s of NULL a text of its own.
ConvertString ==
  /\ at \in InDirective
  /\ at' = "text"
  /\ \E s \in Strings \cup {<<>>, <<"c">>, <<"(", "n", "u", "l", "l", ")">>} :
       Send(Printed(<<>>, prints(s, width, flags), 0),
            [modifier |-> "none", letter |-> "s", arg |-> s])

\* No case of the switch: the character is skipped.
Unknown ==
  /\ at \in InDirective \cup Modifiers
  /\ at' = "text"
  /\ UNCHANGED <<width, flags, asked, star, last, count>>

\* The NUL.  A directive that lacks its letter leaves the switch by its default
\* and the loop then goes on behind the NUL.
\* A plausible mistake is not to look for it after a %.
EndOfFormat_NoCheck ==
  /\ at \in {"text", "%"}
  /\ at' = IF at = "%" THEN "past" ELSE "done"
  /\ UNCHANGED <<width, flags, asked, star, last, count>>

EndOfFormat ==
  /\ at \in {"text", "%"}
  /\ at' = "done"
  /\ UNCHANGED <<width, flags, asked, star, last, count>>

EndInDirective ==
  /\ at \in (InDirective \ {"%"}) \cup Modifiers
  /\ at' = "past"
  /\ UNCHANGED <<width, flags, asked, star, last, count>>

Stopped == at \in {"done", "past", "overrun"} /\ UNCHANGED vars

Next == \/ PlainText \/ Percent
        \/ Minus \/ Zero \/ Star \/ Digit \/ ReadModifier
        \/ ConvertInteger \/ ConvertString \/ Unknown
        \/ EndOfFormat \/ EndInDirective \/ Stopped

Spec == Init /\ [][Next]_vars

-----------------------------------------------------------------------------
(* Properties.                                                              *)

\* The number that the digits of a sequence stand for.
DigitCharacters == Range(LowerDigits) \cup Range(UpperDigits)

Worth(c) == CHOOSE d \in 0 .. 15 : c \in {LowerDigits[d + 1], UpperDigits[d + 1]}

Value(s, base) ==
  LET value[k \in 0 .. Len(s)] ==
        IF k = 0 THEN 0
        ELSE IF s[k] \in DigitCharacters THEN value[k - 1] * base + Worth(s[k])
        ELSE value[k - 1]
  IN  value[Len(s)]

\* The width in the characters of a directive.
AskedWidth(f) ==
  IF Contains(f.asked, "*") THEN f.star ELSE Value(f.asked, 10)

\* The first character that is neither the minus nor a digit of a width above 0.
AsksZeros(f) == LET flag == IF Contains(f.asked, "-") THEN 2 ELSE 1
                IN  Len(f.asked) >= flag /\ f.asked[flag] = "0"

\* What the argument of a directive means, by the C standard's printf; but only
\* its low bits for the unsigned char and short.
Meant(f) ==
  LET bits == Bits(f.modifier, f.letter)
      range == IF IsSigned(f.letter) THEN SignedRange(bits)
               ELSE IF f.modifier \in {"h", "hh"} THEN UnsignedRange(LONG)
               ELSE UnsignedRange(bits)
  IN  {v \in range : (v - f.arg) % 2 ^ bits = 0}

\* body, with a sign before it, filled up as a directive asks.
Filled(f, sign, body) ==
  LET pad == [k \in 1 .. AskedWidth(f) - Len(sign) - Len(body) |->
                IF AsksZeros(f) THEN "0" ELSE Blank]
  IN  IF Contains(f.asked, "-") THEN sign \o body \o pad
      ELSE IF AsksZeros(f) THEN sign \o pad \o body
      ELSE pad \o sign \o body

\* digits is a numeral without leading zeros for v.
Writes(digits, v, base) ==
  /\ Range(digits) \subseteq DigitCharacters
  /\ Len(digits) > 1 => digits[1] # "0"
  /\ Value(digits, base) = IF v < 0 THEN -v ELSE v

\* The field that a directive sent is the string, or a numeral of what its
\* argument means, filled up as the directive asks.
FieldSent(f) ==
  IF f.letter = "s" THEN f.text = Filled(f, <<>>, f.arg)
  ELSE \E first, end \in DOMAIN f.text : \E v \in Meant(f) :
         LET digits == SubSeq(f.text, first, end)
             sign == IF v < 0 THEN <<"-">> ELSE <<>>
         IN  /\ digits # <<>> /\ Writes(digits, v, Base(f.letter))
             /\ f.text = Filled(f, sign, digits)

\* Every directive sends a field of the width it asks for, filled up on the
\* side and with the character it asks for, that holds the string, or a numeral
\* that reads back as the argument (simple_outputi, prints), whatever directives
\* came before (the reset of width and flags); and the count that
\* simple_vsprintf returns is of all characters sent but the carriage returns
\* before the newlines of the format.
\* With both - and 0 the code puts zeros behind the number: the field is then
\* only required to be one that the argument can have been written as.
FieldRight ==
  /\ pc = sent - returns
  /\ (at = "text" /\ last # NULL) => FieldSent(last)

\* The walk passes the NUL of a format only when the format stops within a
\* directive, and print_buf is too small only for the %b of a negative number,
\* which has all 64 digits and leaves no room for the NUL.
StaysInBounds ==
  /\ at = "past" => asked # <<>>
  /\ at = "overrun" => last.letter = "b" /\ last.arg < 0

=============================================================================
