------------------------------- MODULE Printf -------------------------------
(***************************************************************************)
(* The printf engine (libc/str/printf): the parser that splits a format    *)
(* into literals and specifiers, the resolution of `*` and of the flags    *)
(* against each other, and the formatter that takes the arguments and      *)
(* writes each field to a writer that may fail.                            *)
(*                                                                         *)
(* One step is one item of the format.  A byte is a string of one          *)
(* character.  The arguments lie in one area of words of LongBits bits, as *)
(* they do where the registers are used up; an argument is a word, a long  *)
(* double two of them.  The integer types keep their widths as CharBits <  *)
(* ShortBits < IntBits < LongBits, and usize has the width of long.        *)
(***************************************************************************)
EXTENDS Integers, Sequences, FiniteSets
LOCAL INSTANCE SequencesExt

CONSTANTS
  CharBits, ShortBits, IntBits, LongBits,
  Chunk,        \* bytes write_repeated hands over at once (64 in the code)
  Pointee,      \* the string every pointer but null points to
  Calls         \* the calls made: [parts, args, room, flushes]

PrintfAssumption ==
  /\ {CharBits, ShortBits, IntBits, LongBits, Chunk} \subseteq Nat \ {0}
  /\ CharBits < ShortBits /\ ShortBits < IntBits /\ IntBits < LongBits

VARIABLES
  call,          \* the call under way
  position,      \* PrintfParser::position, from 1
  next,          \* the next argument of the VaList
  writer,        \* [out, bytes_written, error]: Formatter and what it wrote
  stored,        \* what `%n` stored, in order
  fields,        \* history: what each specifier was parsed as, took and wrote
  result         \* what the call returned, or Running

vars == <<call, position, next, writer, stored, fields, result>>

Running == -2
IntMax == 2 ^ (IntBits - 1) - 1
LongMax == 2 ^ LongBits - 1

(***************************************************************************)
(* The format as its author wrote it, part by part.  A part is a literal,  *)
(* or a specifier with the texts of its flags, width, precision, length    *)
(* and conversion; the text of the percent escape is a percent.            *)
(***************************************************************************)
Written(part) ==
  IF part.conversion = "" THEN IF part.text = <<"%">> THEN <<"%", "%">> ELSE part.text
  ELSE <<"%">> \o part.flags \o part.width \o part.precision
               \o part.length \o <<part.conversion>>

format == FlattenSeq([k \in DOMAIN call.parts |-> Written(call.parts[k])])

(***************************************************************************)
(* The parser.                                                             *)
(***************************************************************************)
DigitBytes == <<"0", "1", "2", "3", "4", "5", "6", "7", "8", "9">>
DigitSet == {DigitBytes[d] : d \in 1 .. 10}
FlagBytes == {"-", "+", " ", "#", "0"}
ConversionBytes == {"d", "i", "u", "o", "x", "X", "f", "F", "e", "E", "g", "G",
                    "a", "A", "s", "c", "p", "n"}
Floats == {"f", "F", "e", "E", "g", "G", "a", "A"}
IsInteger(c) == c \in {"d", "i", "u", "o", "x", "X"}
IsNumeric(c) == IsInteger(c) \/ c \in Floats
IsSigned(c) == c \in {"d", "i"} \union Floats

PeekIs(f, i, bytes) == i <= Len(f) /\ f[i] \in bytes

\* Where the run of bytes of a set that starts at i ends.
SpanEnd(f, i, bytes) ==
  CHOOSE j \in i .. Len(f) + 1 :
    (\A k \in i .. j - 1 : f[k] \in bytes) /\ ~PeekIs(f, j, bytes)

SaturatingDecimal(f, i, j) ==
  FoldLeft(LAMBDA v, b : LET w == 10 * v + (CHOOSE d \in 1 .. 10 : DigitBytes[d] = b) - 1
                         IN  IF w > LongMax THEN LongMax ELSE w,
           0, SubSeq(f, i, j - 1))

Unspecified(i)  == [kind |-> "Unspecified", value |-> 0, after |-> i]
FromNextArg(i)  == [kind |-> "FromNextArg", value |-> 0, after |-> i + 1]
Fixed(f, i)     == LET j == SpanEnd(f, i, DigitSet)
                   IN  [kind |-> "Fixed", value |-> SaturatingDecimal(f, i, j), after |-> j]

ParseDimension(f, i) ==
  IF PeekIs(f, i, {"*"}) THEN FromNextArg(i)
  ELSE IF PeekIs(f, i, DigitSet \ {"0"}) THEN Fixed(f, i)
  ELSE Unspecified(i)


ParsePrecision(f, i) ==
  IF ~PeekIs(f, i, {"."}) THEN Unspecified(i)
  ELSE IF PeekIs(f, i + 1, {"*"}) THEN FromNextArg(i + 1)
  ELSE Fixed(f, i + 1)

Doubled == [h |-> "hh", l |-> "ll"]
ParseLength(f, i) ==
  IF PeekIs(f, i, {"h", "l"})
  THEN IF PeekIs(f, i + 1, {f[i]}) THEN [length |-> Doubled[f[i]], after |-> i + 2]
                                   ELSE [length |-> f[i], after |-> i + 1]
  ELSE IF PeekIs(f, i, {"z", "t", "j", "L"}) THEN [length |-> f[i], after |-> i + 1]
  ELSE [length |-> "", after |-> i]

\* Everything between `%`, which is at i - 1, and the conversion byte.  An
\* unknown conversion is consumed with the rest.
ParseSpecifier(f, i) ==
  LET j == SpanEnd(f, i, FlagBytes)
      width == ParseDimension(f, j)
      precision == ParsePrecision(f, width.after)
      length == ParseLength(f, precision.after)
      at == length.after
  IN  [flags |-> {f[k] : k \in i .. j - 1}, width |-> width, precision |-> precision,
       length |-> length.length,
       conversion |-> IF at <= Len(f) THEN f[at] ELSE "",
       after |-> IF at <= Len(f) THEN at + 1 ELSE at]

(***************************************************************************)
(* Resolution: `*` takes an int from the arguments, and the flags settle   *)
(* which of them holds.  None is an absent width or precision.             *)
(***************************************************************************)
None == -1
Signed(word, bits) ==
  LET u == word % 2 ^ bits IN IF u >= 2 ^ (bits - 1) THEN u - 2 ^ bits ELSE u
Argument(n) == call.args[n]

PrecisionGiven(raw) == IF raw >= 0 THEN raw ELSE None

\* A faulty variant: the arguments are read without moving past the width's.
AfterWidthStays(spec) == next
AfterWidth(spec) == IF spec.width.kind = "FromNextArg" THEN next + 1 ELSE next

AfterPrecision(spec) ==
  IF spec.precision.kind = "FromNextArg" THEN AfterWidth(spec) + 1 ELSE AfterWidth(spec)

ZeroPads(spec, left, precision) ==
  /\ "0" \in spec.flags /\ IsNumeric(spec.conversion) /\ ~left
  /\ ~(precision # None /\ IsInteger(spec.conversion))

Resolve(spec) ==
  LET raw == Signed(Argument(next), IntBits)
      starred == spec.width.kind = "FromNextArg"
      left == "-" \in spec.flags \/ (starred /\ raw < 0)
      width == IF starred THEN (IF raw < 0 THEN -raw ELSE raw)
               ELSE IF spec.width.kind = "Fixed" THEN spec.width.value ELSE None
      precision == IF spec.precision.kind = "FromNextArg"
                   THEN PrecisionGiven(Signed(Argument(AfterWidth(spec)), IntBits))
                   ELSE IF spec.precision.kind = "Fixed" THEN spec.precision.value ELSE None
  IN  [sign |-> IF ~IsSigned(spec.conversion) THEN "none"
                ELSE IF "+" \in spec.flags THEN "force"
                ELSE IF " " \in spec.flags THEN "space" ELSE "none",
       pad |-> IF left THEN "left" ELSE IF ZeroPads(spec, left, precision) THEN "zero"
               ELSE "right",
       alternate |-> "#" \in spec.flags,
       width |-> IF width = None THEN 0 ELSE width,
       precision |-> precision,
       length |-> IF spec.length = "L" /\ spec.conversion \notin Floats THEN "" ELSE spec.length,
       conversion |-> spec.conversion]

(***************************************************************************)
(* The argument of a conversion, narrowed as its length modifier says.     *)
(***************************************************************************)
BitsOf(length) == IF length = "hh" THEN CharBits ELSE IF length = "h" THEN ShortBits
                  ELSE IF length \in {"", "L"} THEN IntBits ELSE LongBits
ExtractSigned(length, word)   == Signed(word, BitsOf(length))
ExtractUnsigned(length, word) == word % 2 ^ BitsOf(length)

(***************************************************************************)
(* Fields.  A field is the sequence of pieces that reach the writer, each  *)
(* a call of write_all.                                                    *)
(***************************************************************************)
Monus(a, b) == IF a > b THEN a - b ELSE 0
Larger(a, b) == IF a > b THEN a ELSE b
Smaller(a, b) == IF a < b THEN a ELSE b

Repeated(byte, count) ==
  [k \in 1 .. (count + Chunk - 1) \div Chunk |->
     [j \in 1 .. Smaller(Chunk, count - (k - 1) * Chunk) |-> byte]]

Base(conversion) == IF conversion = "o" THEN 8 ELSE IF conversion \in {"x", "X"} THEN 16 ELSE 10
Lower == DigitBytes \o <<"a", "b", "c", "d", "e", "f">>
Upper == DigitBytes \o <<"A", "B", "C", "D", "E", "F">>

\* DigitBuffer: the digits of a value, the least significant first.
DigitCount(value, base) == CHOOSE n \in 1 .. LongBits : value < base ^ n /\ (n > 1 => value >= base ^ (n - 1))
DigitBuffer(value, conversion) ==
  [k \in 1 .. DigitCount(value, Base(conversion)) |->
     (IF conversion = "X" THEN Upper ELSE Lower)
       [1 + ((value \div (Base(conversion) ^ (k - 1))) % Base(conversion))]]

OutputDigitCount(actual, spec, radix, zero) ==
  LET effective == IF spec.precision = None THEN 1 ELSE spec.precision
      count == Larger(effective, actual)
  IN  IF zero /\ effective = 0 THEN (IF spec.alternate /\ radix = "o" THEN 1 ELSE 0)
      ELSE IF spec.alternate /\ radix = "o" /\ ~zero /\ count = actual THEN count + 1
      ELSE count

IntegerPieces(spec, radix, value, negative) ==
  LET digits == DigitBuffer(value, radix)
      sign == IF negative THEN <<"-">>
              ELSE IF spec.sign = "force" THEN <<"+">>
              ELSE IF spec.sign = "space" THEN <<" ">> ELSE <<>>
      prefix == IF spec.alternate /\ value # 0 /\ radix \in {"x", "X"}
                THEN <<"0", radix>> ELSE <<>>
      positions == OutputDigitCount(Len(digits), spec, radix, value = 0)
      padding == Monus(spec.width, Len(sign) + Len(prefix) + positions)
      zeros == Monus(positions, Len(digits)) + (IF spec.pad = "zero" THEN padding ELSE 0)
      shown == Reverse(SubSeq(digits, 1, Smaller(positions, Len(digits))))
  IN  Repeated(" ", IF spec.pad = "right" THEN padding ELSE 0)
      \o (IF sign = <<>> THEN <<>> ELSE <<sign>>)
      \o (IF prefix = <<>> THEN <<>> ELSE <<prefix>>)
      \o Repeated("0", zeros)
      \o [k \in DOMAIN shown |-> <<shown[k]>>]
      \o Repeated(" ", IF spec.pad = "left" THEN padding ELSE 0)

PaddedPieces(spec, content) ==
  LET spaces == Repeated(" ", Monus(spec.width, Len(content)))
      body == IF content = <<>> THEN <<>> ELSE <<content>>
  IN  IF spec.pad = "left" THEN body \o spaces ELSE spaces \o body

StringShown(spec, word) ==
  LET bytes == IF word = 0 THEN <<"(", "n", "u", "l", "l", ")">> ELSE Pointee
  IN  IF spec.precision = None THEN bytes
      ELSE SubSeq(bytes, 1, Smaller(spec.precision, Len(bytes)))

\* Character codes stay words: the byte shown is the argument's low bits.
CharShown(word) == <<Upper[1 + (word % 2 ^ CharBits)]>>

Pieces(spec, word) ==
  LET c == spec.conversion
      value == ExtractSigned(spec.length, word)
  IN  CASE c \in {"d", "i"} -> IntegerPieces(spec, "d", IF value < 0 THEN -value ELSE value, value < 0)
        [] c = "u" -> IntegerPieces(spec, "d", ExtractUnsigned(spec.length, word), FALSE)
        [] c \in {"o", "x", "X"} -> IntegerPieces(spec, c, ExtractUnsigned(spec.length, word), FALSE)
        [] c = "s" -> PaddedPieces(spec, StringShown(spec, word))
        [] c = "c" -> PaddedPieces(spec, CharShown(word))
        [] c = "p" -> IF word = 0 THEN PaddedPieces(spec, <<"(", "n", "i", "l", ")">>)
                      ELSE IntegerPieces([spec EXCEPT !.alternate = TRUE], "x", word, FALSE)
        [] OTHER -> <<>>       \* %n writes nothing; floats are consumed, not shown

(***************************************************************************)
(* The writer takes call.room bytes and then fails (write_all has handed   *)
(* over what fitted); an error is latched and later pieces are dropped.    *)
(***************************************************************************)
Latched(w, failed) == w.error \/ failed

WritePiece(w, piece) ==
  LET fitting == Smaller(Len(piece), call.room - Len(w.out))
      failed == fitting < Len(piece)
  IN  IF w.error \/ piece = <<>> THEN w
      ELSE [out |-> w.out \o SubSeq(piece, 1, fitting),
            bytes_written |-> IF failed THEN w.bytes_written ELSE w.bytes_written + Len(piece),
            error |-> Latched(w, failed)]
Write(pieces) == writer' = FoldLeft(WritePiece, writer, pieces)

(***************************************************************************)
(* format_into: one step per item.                                         *)
(***************************************************************************)
Begins ==
  /\ position = 1 /\ next = 1
  /\ writer = [out |-> <<>>, bytes_written |-> 0, error |-> FALSE]
  /\ stored = <<>> /\ fields = <<>> /\ result = Running

Init == call \in Calls /\ Begins

AtPercent == PeekIs(format, position, {"%"})

Literal ==
  /\ result = Running /\ position <= Len(format) /\ ~AtPercent
  /\ LET after == CHOOSE j \in position .. Len(format) + 1 :
                    (\A k \in position .. j - 1 : format[k] # "%") /\ (j > Len(format) \/ format[j] = "%")
     IN  position' = after /\ Write(<<SubSeq(format, position, after - 1)>>)
  /\ UNCHANGED <<call, next, stored, fields, result>>

Escape ==
  /\ result = Running /\ AtPercent /\ PeekIs(format, position + 1, {"%"})
  /\ position' = position + 2 /\ Write(<<<<"%">>>>)
  /\ UNCHANGED <<call, next, stored, fields, result>>

(* Whatever the conversion, one word is taken: a float's is read as an f64 *)
(* even where the length modifier says that the caller passed two.         *)
Specifier ==
  /\ result = Running /\ AtPercent /\ ~PeekIs(format, position + 1, {"%"})
  /\ LET parsed == ParseSpecifier(format, position + 1)
         spec == Resolve(parsed)
         taken == AfterPrecision(parsed)
         word == Argument(taken)
     IN  /\ parsed.conversion \in ConversionBytes
         /\ position' = parsed.after
         /\ next' = taken + 1
         /\ Write(Pieces(spec, word))
         /\ stored' = IF spec.conversion = "n" /\ word # 0
                      THEN Append(stored, Signed(writer.bytes_written, BitsOf(spec.length)))
                      ELSE stored
         /\ fields' = Append(fields, [spec |-> spec, taken |-> taken,
                                      text |-> FlattenSeq(Pieces(spec, word))])
  /\ UNCHANGED <<call, result>>

SkipUnknown ==
  /\ result = Running /\ AtPercent /\ ~PeekIs(format, position + 1, {"%"})
  /\ LET parsed == ParseSpecifier(format, position + 1)
     IN  parsed.conversion \notin ConversionBytes /\ position' = parsed.after
  /\ UNCHANGED <<call, next, writer, stored, fields, result>>

Returned(w) == IF w.bytes_written > IntMax THEN -1 ELSE w.bytes_written

Finish ==
  /\ result = Running /\ position > Len(format)
  /\ result' = IF writer.error \/ ~call.flushes THEN -1 ELSE Returned(writer)
  /\ UNCHANGED <<call, position, next, writer, stored, fields>>

Next == Literal \/ Escape \/ Specifier \/ SkipUnknown \/ Finish

Spec == Init /\ [][Next]_vars

(***************************************************************************)
(* What a call promises, said of the parts its author wrote.               *)
(***************************************************************************)
KnownPart(part) == part.conversion \in ConversionBytes
Specs == SelectSeq(call.parts, KnownPart)
Stars(part) == Len(SelectSeq(part.width \o part.precision, LAMBDA b : b = "*"))
LongDouble(part) == part.length = <<"L">> /\ part.conversion \in Floats
WordsPassed(part) == Stars(part) + (IF LongDouble(part) THEN 2 ELSE 1)
\* Where the caller put what a specifier formats: after the words it passed for
\* each earlier one, and for this one's stars.
OwnArgument(k) == FoldLeftDomain(LAMBDA n, j : n + WordsPassed(Specs[j]), 0, SubSeq(Specs, 1, k - 1))
                  + Stars(Specs[k]) + 1
AfterLongDouble(k) == \E j \in 1 .. k - 1 : LongDouble(Specs[j])

\* Every specifier formats the argument its author meant for it, whatever
\* stars, unknown conversions and unprinted floats come before it
\* (from_parsed and extract_* advance one VaList): nothing in the types ties
\* the order in which the arguments are taken to the format.  A long double is
\* the exception the code notes (format.rs:85-87): a specifier after one takes
\* its argument too early.
ArgumentsStayAligned ==
  /\ \A k \in DOMAIN fields : IF AfterLongDouble(k) THEN fields[k].taken < OwnArgument(k)
                                                     ELSE fields[k].taken = OwnArgument(k)
  /\ result # Running => Len(fields) = Len(Specs)

\* The number a text of the format or a starred argument stands for.
Number(text) == FoldLeft(LAMBDA v, b : 10 * v + (CHOOSE d \in 0 .. 9 : DigitBytes[d + 1] = b), 0, text)
GivenBy(text, at) == IF text = <<"*">> THEN Signed(Argument(at), IntBits) ELSE Number(text)
TypeOf(part) == CASE part.length = <<>> -> "" [] part.length = <<"h", "h">> -> "hh"
                  [] part.length = <<"l", "l">> -> "ll" [] OTHER -> part.length[1]
ValueOf(part, word) == IF IsSigned(part.conversion) THEN Signed(word, BitsOf(TypeOf(part)))
                       ELSE word % 2 ^ BitsOf(TypeOf(part))

Read(digits, base) ==
  FoldLeft(LAMBDA v, b : base * v + (CHOOSE d \in 0 .. 15 : b \in {Lower[d + 1], Upper[d + 1]}), 0, digits)
Spaces(n) == [k \in 1 .. n |-> " "]

\* One number in its field, read back from the field's text.
NumberReadsBack(part, text, at) ==
  LET has(flag)  == \E k \in DOMAIN part.flags : part.flags[k] = flag
      base       == Base(part.conversion)
      value      == ValueOf(part, Argument(at))
      wide       == IF part.width = <<>> THEN 0 ELSE GivenBy(part.width, at - Stars(part))
      width      == IF wide < 0 THEN -wide ELSE wide
      leftmost   == has("-") \/ wide < 0
      given      == IF part.precision = <<>> THEN None ELSE GivenBy(Tail(part.precision), at - 1)
      fewest     == IF given < 0 THEN 1 ELSE given
      sign       == IF ~IsSigned(part.conversion) THEN <<>> ELSE IF value < 0 THEN <<"-">>
                    ELSE IF has("+") THEN <<"+">> ELSE IF has(" ") THEN <<" ">> ELSE <<>>
      prefix     == IF has("#") /\ value # 0 /\ base = 16 THEN <<"0", part.conversion>> ELSE <<>>
      head       == sign \o prefix
  IN  \E a, b \in 0 .. Len(text) :
        LET digits == SubSeq(text, a + Len(head) + 1, Len(text) - b)
            shown  == Len(digits)
        IN  /\ text = Spaces(a) \o head \o digits \o Spaces(b)
            /\ " " \notin {digits[k] : k \in DOMAIN digits}
            /\ Read(digits, base) = (IF value < 0 THEN -value ELSE value)
            /\ shown >= fewest
            /\ has("#") /\ base = 8 /\ (value # 0 \/ fewest = 0) => digits[1] = "0"
            \* No digit more than asked for, unless zeros fill the field.
            /\ LET octal == has("#") /\ base = 8
                   spare == shown > fewest /\ shown > 1 /\ digits[1] = "0"
                            /\ ~(octal /\ digits[2] # "0")
               IN  spare => has("0") /\ ~leftmost /\ given < 0 /\ Len(text) = width
            /\ a > 0 => ~leftmost /\ b = 0 /\ Len(text) = width
            /\ b > 0 => leftmost /\ a = 0 /\ Len(text) = width
            /\ Len(text) >= width
            /\ a > 0 => ~(has("0") /\ given < 0)

\* Every number that no long double comes before reads back from its field as
\* the value the argument has in the type the length modifier names, with the
\* sign, prefix, precision and width asked for and no character more
\* (write_integer, output_digit_count and ResolvedSpecifier, which settle five
\* flags, two stars and the radix against each other).
FieldsReadBack ==
  \A k \in DOMAIN fields : IsInteger(Specs[k].conversion) /\ ~AfterLongDouble(k) =>
    NumberReadsBack(Specs[k], fields[k].text, OwnArgument(k))

\* What a writer with room for everything would have been given.
FieldAt(k) == Len(SelectSeq(SubSeq(call.parts, 1, k), KnownPart))
TextOf(k) == IF KnownPart(call.parts[k]) THEN fields[FieldAt(k)].text ELSE call.parts[k].text
TextUpTo(k) == FlattenSeq([j \in 1 .. k |-> TextOf(j)])
WholeText == TextUpTo(Len(call.parts))
Counting == SelectSeq([k \in DOMAIN call.parts |-> k],
              LAMBDA k : /\ KnownPart(call.parts[k]) /\ call.parts[k].conversion = "n"
                         /\ Argument(fields[FieldAt(k)].taken) # 0)

\* What reaches the writer is the whole text up to where the writer failed,
\* nothing is written after that, and the count returned is the count of the
\* bytes the writer took, or -1 if any failed, the flush included; a `%n` on
\* the way is given the bytes before it, in the type it names (the latched
\* error of Formatter, finish and store_character_count).
CountedOrFailed ==
  result # Running =>
    /\ writer.out = SubSeq(WholeText, 1, Smaller(call.room, Len(WholeText)))
    /\ result # -1 => result = Len(WholeText) /\ call.flushes
    /\ ~writer.error => stored = [k \in DOMAIN Counting |->
         Signed(Len(TextUpTo(Counting[k] - 1)), BitsOf(TypeOf(call.parts[Counting[k]])))]
    /\ result = -1 => call.room < Len(WholeText) \/ ~call.flushes \/ Len(WholeText) > IntMax
=============================================================================
