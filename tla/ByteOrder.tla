----------------------------- MODULE ByteOrder -----------------------------
(***************************************************************************)
(* The conversions of src/utils/net/net_utils.c, on a host of either byte  *)
(* order.  A word is the sequence of its bytes, the most significant one   *)
(* first, wherever they lie in memory.                                     *)
(***************************************************************************)
EXTENDS Naturals, Sequences

LOCAL INSTANCE SequencesExt

VARIABLE host   \* the byte order of the client: little or big

Byte == 0..255
Word(n) == [1..n -> Byte]

Zeros(n) == [j \in 1..n |-> 0]
Int32(n) == <<0, 0, 0, n>>

(* memcpy between a variable of the client and bytes. *)
InMemory(w) == IF host = "little" THEN Reverse(w) ELSE w

(* 0x01234567, whose first byte in memory is looked at. *)
little_endianess == InMemory(<<1, 35, 69, 103>>)[1] = 103

(* htonl, ntohl, htons and ntohs of the C library. *)
ntohl(w) == IF host = "little" THEN Reverse(w) ELSE w

(* Variant: the halves are swapped one by one. *)
SwapsInHalves(w) == ntohl(SubSeq(w, 1, 4)) \o ntohl(SubSeq(w, 5, 8))

byteswap64(w) == ntohl(SubSeq(w, 5, 8)) \o ntohl(SubSeq(w, 1, 4))

(* htonl_util and htons_util, ntohl_util and ntohs_util *)
htonl_util(w) == IF little_endianess THEN ntohl(w) ELSE w
htonll_util(w) == IF little_endianess THEN byteswap64(w) ELSE w

ntohll_util(w) == IF little_endianess THEN byteswap64(w) ELSE w
=============================================================================
