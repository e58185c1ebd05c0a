----------------------------- MODULE StringUtils -----------------------------
(***************************************************************************)
(* string_split, string_urldecode and string_urlencode                     *)
(* (src/utils/str/string_utils.c) as operators.  A string is the sequence  *)
(* of its characters without the NUL; a character is its code, and a       *)
(* number above 255 stands for text no function here looks into.           *)
(***************************************************************************)
EXTENDS Integers, Sequences

Seqs == INSTANCE SequencesExt

NUL == 0
Blank == 32
Percent == 37
Ampersand == 38
Plus == 43
Colon == 58
Equals == 61

isdigit(c) == c \in 48..57
isalnum(c) == isdigit(c) \/ c \in 65..90 \/ c \in 97..122
isxdigit(c) == isdigit(c) \/ c \in 65..70 \/ c \in 97..102
tolower(c) == IF c \in 65..90 THEN c + 32 ELSE c

from_hex(c) == IF isdigit(c) THEN c - 48 ELSE tolower(c) - 97 + 10

to_hex(n) == IF n < 10 THEN 48 + n ELSE 97 + n - 10

-----------------------------------------------------------------------------
(* The list and the buffer behind one more character; the delimiter is always
   a colon.                                                                  *)
SplitChar(split, c) ==
  IF c = Colon
  THEN [list |-> Append(split.list, split.buffer), buffer |-> <<>>]
  ELSE [split EXCEPT !.buffer = Append(@, c)]

string_split(input) ==
  LET split[p \in 0..Len(input)] ==
        IF p = 0 THEN [list |-> <<>>, buffer |-> <<>>]
        ELSE SplitChar(split[p - 1], input[p])
  IN Append(split[Len(input)].list, split[Len(input)].buffer)

-----------------------------------------------------------------------------
Kept(c) == isalnum(c) \/ c \in {45, 95, 46, 126}    \* - _ . ~

Encoded(c) ==
  IF Kept(c) THEN <<c>>
  ELSE IF c = Blank THEN <<Plus>>
  ELSE <<Percent, to_hex(c \div 16), to_hex(c % 16)>>

string_urlencode(input) == Seqs!FlattenSeq([n \in DOMAIN input |-> Encoded(input[n])])

(* The bit worth w in either of two bytes. *)
Bit(a, b, w) == IF (a \div w) % 2 = 1 \/ (b \div w) % 2 = 1 THEN w ELSE 0

(* | of two bytes *)
BitOr(a, b) ==
  Bit(a, b, 1) + Bit(a, b, 2) + Bit(a, b, 4) + Bit(a, b, 8)
    + Bit(a, b, 16) + Bit(a, b, 32) + Bit(a, b, 64) + Bit(a, b, 128)

(* from_hex(c) << 4 | from_hex(d) in a char; both may be no digits at all. *)
Escaped(c, d) == BitOr((from_hex(c) * 16) % 256, from_hex(d) % 256)

(* What is written from position p of the input on; a percent sign with less
   than two characters behind it is left out.                               *)
string_urldecode(input) ==
  LET Ch(p) == IF p <= Len(input) THEN input[p] ELSE NUL
      decoded[p \in 1..(Len(input) + 3)] ==
        IF Ch(p) = NUL THEN <<>>
        ELSE IF Ch(p) # Percent
        THEN <<IF Ch(p) = Plus THEN Blank ELSE Ch(p)>> \o decoded[p + 1]
        ELSE IF Ch(p + 1) # NUL /\ Ch(p + 2) # NUL
        THEN <<Escaped(Ch(p + 1), Ch(p + 2))>> \o decoded[p + 3]
        ELSE decoded[p + 1]
  IN decoded[1]
=============================================================================
