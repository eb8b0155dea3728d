------------------------------- MODULE NdKlibc -------------------------------
(***************************************************************************)
(* nd_memcpy and nd_vsnprintf of nd_klibc.c, each against what a C library *)
(* promises of it.  (The string functions the shell uses are in NdShell.)  *)
(* A byte of the source is its address, so a copy is exact when each byte  *)
(* of the destination holds the address it came from.  A format is the     *)
(* sequence of its literal characters and directives, with their           *)
(* arguments; int and long are equally wide on all the targets.            *)
(***************************************************************************)
EXTENDS Integers, Sequences, FiniteSets

CONSTANTS
  CopySizes, Aligned,    \* sizes, and the offsets of source and destination from a word
  FormatItems, MaxItems,       \* the literals and directives of formats, and how many of them
  BufSizes,              \* the sizes given for the buffer
  IntRange               \* 2^32: the range of an unsigned long

ASSUME KlibcAssumption ==
  /\ CopySizes \subseteq Nat /\ Aligned \subseteq 0..3
  /\ MaxItems \in Nat /\ BufSizes \subseteq Nat /\ IntRange \in Nat \ {0}

VARIABLE called          \* the call that has just returned, and its result, or NoCall

NoCall == [name |-> "none"]
LibInit == called = NoCall

-----------------------------------------------------------------------------
(* nd_memcpy.  c.s, c.d and c.n are the pointers and what is left; c.m the *)
(* bytes written so far; c.x the last word of the source; c.ok that words  *)
(* were read and written at word addresses, and read inside the source.    *)

Bit(n, b) == (n \div b) % 2 = 1
Put(m, d, bytes) ==
  [a \in DOMAIN m \cup d..d + Len(bytes) - 1 |->
     IF a \in d..d + Len(bytes) - 1 THEN bytes[a - d + 1] ELSE m[a]]
From(s, k) == [i \in 1..k |-> s + i - 1]

\* k bytes, one by one.
ByBytes(c, k) == [c EXCEPT !.m = Put(@, c.d, From(c.s, k)), !.d = @ + k, !.s = @ + k, !.n = @ - k]

\* k bytes as words.
ByWords(c, k) ==
  [ByBytes(c, k) EXCEPT !.ok = @ /\ (k = 0 \/ (c.s % 4 = 0 /\ c.d % 4 = 0))]

\* The last bytes, by the bits of n from b downwards.
RECURSIVE Rest(_, _, _)
Rest(c, b, word) ==
  LET k == IF Bit(c.n, b) THEN b ELSE 0
      c1 == IF word /\ b >= 4 THEN ByWords(c, k) ELSE ByBytes(c, k)
  IN IF b = 1 THEN c1 ELSE Rest(c1, b \div 2, word)

\* The destination is not on a word when the source is: r is its offset.  Each word
\* written has r bytes of the word read before and 4 - r of the next one.
WordAt(c, s) == [c EXCEPT !.x = From(s, 4), !.ok = @ /\ s % 4 = 0 /\ s + 4 <= c.end]

ShiftWord(c, r, i) ==
  LET y == From(c.s + r + i, 4)
      w == SubSeq(c.x, 5 - r, 4) \o SubSeq(y, 1, 4 - r)
  IN [WordAt(c, c.s + r + i) EXCEPT !.m = Put(@, c.d + i, w), !.ok = @ /\ (c.d + i) % 4 = 0]

\* Mutation of RoomToShift: the bytes of the next word are not counted.
RoomEarly(c, r) == c.n >= 16

RoomToShift(c, r) == c.n >= 16 + r

RECURSIVE ShiftLoop(_, _)
ShiftLoop(c, r) ==
  IF ~RoomToShift(c, r) THEN c
  ELSE LET c4 == ShiftWord(ShiftWord(ShiftWord(ShiftWord(c, r, 0), r, 4), r, 8), r, 12)
       IN ShiftLoop([c4 EXCEPT !.s = @ + 16, !.d = @ + 16, !.n = @ - 16], r)

Least(a, b) == IF a < b THEN a ELSE b

nd_memcpy(dest, src, n) ==
  LET c0 == [d |-> dest, s |-> src, n |-> n, m |-> <<>>, x |-> <<>>, ok |-> TRUE, end |-> src + n]
      c1 == ByBytes(c0, Least((4 - (src % 4)) % 4, n))
      r  == c1.d % 4
      c2 == ByWords(c1, 16 * (c1.n \div 16))
      c3 == ShiftLoop(ByBytes(WordAt(c1, c1.s), 4 - r), r)
  IN IF r = 0 THEN Rest(c2, 8, TRUE)
     ELSE IF c1.n >= 32 THEN Rest(c3, 16, FALSE)
     ELSE Rest(c1, 16, FALSE)

Memcpy(dest, src, n) ==
  /\ called = NoCall
  /\ called' = [name |-> "memcpy", dest |-> dest, src |-> src, n |-> n,
                out |-> nd_memcpy(dest, src, n)]

-----------------------------------------------------------------------------
(* nd_vsnprintf *)

Digit(d) == <<"0", "1", "2", "3", "4", "5", "6", "7", "8", "9",
              "a", "b", "c", "d", "e", "f">>[d + 1]

\* The digits come out with the lowest first and are swapped in place.
RECURSIVE DigitsUp(_, _)
DigitsUp(v, base) == IF v = 0 THEN <<>> ELSE <<Digit(v % base)>> \o DigitsUp(v \div base, base)

RECURSIVE SwapEnds(_, _, _)
SwapEnds(t, i, j) ==
  IF i >= j THEN t ELSE SwapEnds([t EXCEPT ![i] = t[j], ![j] = t[i]], i + 1, j - 1)

\* tmp_buf after a number.
Number(sign, value, base) ==
  LET t == sign \o (IF value = 0 THEN <<"0">> ELSE DigitsUp(value, base))
  IN IF value = 0 THEN t ELSE SwapEnds(t, Len(sign) + 1, Len(t))

\* -num as an unsigned long, also for the least number, whose negation wraps.
Negated(num) == (-num) % IntRange

NullStr == <<"NULL">>    \* a null pointer

\* What a directive puts in tmp_buf, or the string it points to.
Converted(i) ==
  CASE i.conv = "d" /\ i.num < 0 -> Number(<<"-">>, Negated(i.num), 10)
    [] i.conv \in {"d", "u"} /\ i.num >= 0 -> Number(<<>>, i.num, 10)
    [] i.conv = "x" -> Number(<<>>, i.num, 16)
    [] i.conv = "s" -> IF i.str = NullStr THEN <<"(", "n", "u", "l", "l", ")">> ELSE i.str
    [] i.conv = "c" -> i.str
    [] i.conv = "%" -> <<"%">>
    [] OTHER -> <<"%", i.conv>>

Pad(n) == [i \in 1..n |-> " "]

\* Mutation of buf_putn: the place of the end is used as well.
PutnFull(out, size, str) == out \o SubSeq(str, 1, Least(Len(str), size - Len(out)))

\* buf_putc for each character: those that do not fit are dropped.
buf_putn(out, size, str) == out \o SubSeq(str, 1, Least(Len(str), size - 1 - Len(out)))

Directive(out, size, i) ==
  LET text == Converted(i)
      pad  == IF i.width > Len(text) THEN Pad(i.width - Len(text)) ELSE <<>>
  IN IF i.left THEN buf_putn(buf_putn(out, size, text), size, pad)
     ELSE buf_putn(buf_putn(out, size, pad), size, text)

\* The loop over the format: a literal is stored without a test of its own.
RECURSIVE FormatLoop(_, _, _)
FormatLoop(out, size, fmt) ==
  IF fmt = <<>> \/ Len(out) >= size - 1 THEN out
  ELSE FormatLoop(IF fmt[1].conv = "literal" THEN out \o fmt[1].str
                  ELSE Directive(out, size, fmt[1]), size, Tail(fmt))

nd_vsnprintf(size, fmt) ==
  IF size = 0 THEN [written |-> FALSE, text |-> <<>>, ret |-> 0]
  ELSE LET out == FormatLoop(<<>>, size, fmt)
       IN [written |-> TRUE, text |-> out, ret |-> Len(out)]

Format(size, fmt) ==
  /\ called = NoCall
  /\ called' = [name |-> "format", size |-> size, fmt |-> fmt, out |-> nd_vsnprintf(size, fmt)]

Return == called # NoCall /\ called' = NoCall

LibNext ==
  \/ \E s, d \in Aligned, n \in CopySizes : Memcpy(d, s, n)
  \/ \E size \in BufSizes, k \in 0..MaxItems : \E fmt \in [1..k -> FormatItems] : Format(size, fmt)
  \/ Return

LibSpec == LibInit /\ [][LibNext]_called

-----------------------------------------------------------------------------
(* Properties *)

\* For every alignment of the two areas and on each of the paths, nd_memcpy writes the n
\* bytes of the destination and nothing else, each from its place in the source, reads no
\* word that reaches beyond the source and uses word accesses at word addresses only.
CopiesExactly ==
  called.name = "memcpy" =>
    /\ DOMAIN called.out.m = called.dest..called.dest + called.n - 1
    /\ \A a \in DOMAIN called.out.m : called.out.m[a] = called.src + (a - called.dest)
    /\ called.out.ok

\* The numeral of v, from its value.
RECURSIVE Power(_, _)
Power(b, n) == IF n = 0 THEN 1 ELSE b * Power(b, n - 1)
Numeral(v, base) ==
  LET n == CHOOSE k \in 1..33 : Power(base, k) > v /\ (k = 1 \/ Power(base, k - 1) <= v)
  IN [i \in 1..n |-> Digit((v \div Power(base, n - i)) % base)]

Meant(i) ==
  CASE i.conv \in {"d", "u"} ->
         IF i.num < 0 THEN <<"-">> \o Numeral(-i.num, 10) ELSE Numeral(i.num, 10)
    [] i.conv = "x" -> Numeral(i.num, 16)
    [] OTHER -> Converted(i)

Filled(i) ==
  LET t == Meant(i)
      p == [n \in 1..(i.width - Len(t)) |-> " "]
  IN IF i.conv = "literal" THEN i.str ELSE IF i.left THEN t \o p ELSE p \o t

RECURSIVE Whole(_)
Whole(fmt) == IF fmt = <<>> THEN <<>> ELSE Filled(fmt[1]) \o Whole(Tail(fmt))

\* The text is what the format and its arguments mean as far as it fits with its end into
\* size bytes, the least number and a sign in front of swapped digits included; the
\* result counts what was stored; nothing is stored when there is no room at all.
FormatsWithin ==
  called.name = "format" =>
    /\ called.out.text = SubSeq(Whole(called.fmt), 1,
                                Least(Len(Whole(called.fmt)), called.size - 1))
    /\ called.out.ret = Len(called.out.text)
    /\ called.out.written => Len(called.out.text) + 1 <= called.size

=============================================================================
