------------------------- MODULE ExtendedHandshake --------------------------
(***************************************************************************)
(* Peer_Extended_Handshake_Response_init                                   *)
(* (src/peer/packets/peer_extended_handshake_packet.c) as operators: how   *)
(* the client finds two numbers in the text of an extended handshake.      *)
(*                                                                         *)
(* A message r is what the peer sent (text), how much of it was received,  *)
(* the first six bytes included (res_size), and what the stack holds       *)
(* behind it, up to a NUL (behind).  A character is its code; each of the  *)
(* two keys, with the "i" behind it, counts as one.                        *)
(***************************************************************************)
EXTENDS Integers, Sequences

CONSTANT Overreads  \* what atoi may make of a buffer without a terminator

ASSUME ExtendedAssumption == Overreads \subseteq Int

NUL == 0
Letter_e == 101
metadata_sizei == 1001
ut_metadatai == 1002
Digits == 48..57

Skipped == 6       \* length prefix and the two message ids

Received(r) == SubSeq(r.text, 1, r.res_size - Skipped)

(* raw_response from its seventh byte on *)
bencoded_response(r) == Received(r) \o r.behind

(* strstr: the places of the key before the first NUL. *)
Places(r, key) ==
  LET out == bencoded_response(r)
  IN {p \in DOMAIN out : out[p] = key /\ \A q \in 1..p : out[q] # NUL}

(* Variant: the position is not compared with anything. *)
Anywhere(r, position) == TRUE

(* The position counts from the seventh byte, the size from the first: a key
   that begins up to six bytes behind the message is still taken.            *)
WithinSize(r, position) == position < r.res_size

(* The first place of the key, if it is near enough. *)
Found(r, key) ==
  {p \in Places(r, key) : WithinSize(r, p - 1) /\ \A q \in Places(r, key) : p <= q}

(* The first ten characters behind the key, or those before an "e"; behind the
   NUL that ends out there is no number's end.                               *)
Copied(out, from) ==
  LET ends == {n \in 0..9 : \/ from + n = Len(out)
                            \/ from + n < Len(out) /\ out[from + n + 1] = Letter_e}
      n == IF ends = {} THEN 10 ELSE CHOOSE n \in ends : \A m \in ends : n <= m
  IN SubSeq(out, from + 1, from + n)

(* atoi: the digits the text begins with; nobody sends a sign. *)
Value(digits) ==
  LET leading == {n \in 0..Len(digits) : \A j \in 1..n : digits[j] \in Digits}
      n == CHOOSE n \in leading : \A m \in leading : m <= n
      sum[k \in 0..n] == IF k = 0 THEN 0 ELSE sum[k - 1] * 10 + (digits[k] - 48)
  IN sum[n]

(* Ten characters and no "e": the buffer has no terminator.  If all of it are
   digits atoi reads on, or the number is larger than an int.                *)
Numbers(digits) ==
  IF Len(digits) = 10 /\ \A j \in DOMAIN digits : digits[j] \in Digits THEN Overreads
  ELSE {Value(digits)}

(* What may be read under a key; nothing of it is found: 0. *)
NumbersUnder(r, key) ==
  IF Found(r, key) = {} THEN {0}
  ELSE UNION {Numbers(Copied(bencoded_response(r), p)) : p \in Found(r, key)}

(* There is no such key: its position is computed from NULL, and passes for a
   large one or leads out of memory.                                          *)
MayCrash(r) == Places(r, metadata_sizei) = {} \/ Places(r, ut_metadatai) = {}

(* A division rounds towards zero. *)
Pieces(n) == IF n < 0 THEN -((-n) \div (16 * 1024)) ELSE n \div (16 * 1024)

-----------------------------------------------------------------------------
(* What the peer says under a key, in up to nine digits and an "e" that were
   received.                                                                *)
SaidUnder(r, key) ==
  LET out == Received(r)
  IN {Value(SubSeq(out, pn[1] + 1, pn[1] + pn[2])) : pn \in
        {pn \in (DOMAIN out) \X (1..9) :
           LET p == pn[1] n == pn[2]
           IN /\ out[p] = key
              /\ p + n < Len(out) /\ out[p + n + 1] = Letter_e
              /\ \A j \in (p + 1)..(p + n) : out[j] \in Digits}}
=============================================================================
