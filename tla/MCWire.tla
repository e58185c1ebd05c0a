------------------------------- MODULE MCWire -------------------------------
(***************************************************************************)
(* A buffer with room for two peers, as 2048 bytes have for 338, and lists *)
(* of up to three; refusals shorter than a header, as long, and longer.    *)
(* Hashes of digits small and capital, cut, with a character that is none, *)
(* with parts in front, behind and missing.                                *)
(***************************************************************************)
EXTENDS Wire

LOCAL INSTANCE SequencesExt

MCTids == {<<0, 0, 0, 0>>, <<0, 0, 0, 1>>, <<1, 2, 3, 4>>, <<255, 0, 128, 7>>}

MCConnectionIds == {<<0, 0, 0, 0, 0, 0, 0, 0>>, <<1, 2, 3, 4, 5, 6, 7, 8>>,
                    <<255, 254, 253, 252, 251, 250, 249, 248>>}

MCHash == [j \in 1..20 |-> (j * 77) % 256]

Small(n) == to_hex(n)
Capital(n) == IF n < 10 THEN 48 + n ELSE 65 + n - 10

Hex(bytes, Digit(_)) ==
  FlattenSeq([j \in DOMAIN bytes |-> <<Digit(bytes[j] \div 16), Digit(bytes[j] % 16)>>])

Urn == <<117, 114, 110, Colon, 98, 116, Colon>>

H(c, m) == [chars |-> c, means |-> m]
Cut(n) == SubSeq(MCHash, 1, n)

MCHashes ==
  {H(Urn \o Hex(MCHash, Small), MCHash),
   H(Urn \o Hex(MCHash, Capital) \o <<Colon, 97>>, MCHash),
   H(<<Colon, Colon>> \o Hex(MCHash, Small) \o <<49, 50>>, MCHash),
   H(Urn \o Hex(Cut(12), Small) \o <<55>>, Cut(12)),
   H(Urn \o Hex(Cut(3), Small) \o <<122, 49>> \o Hex(Cut(16), Small), Cut(3)),
   H(Urn, <<>>), H(Hex(MCHash, Small), <<>>), H(<<97, Colon, 98>>, <<>>)}

MCBehind == {NUL, 51, 122}

MCPeers == {[ip |-> <<10, 0, 0, 1>>, port |-> <<26, 225>>],
            [ip |-> <<1, 2, 3, 4>>, port |-> <<0, 80>>],
            [ip |-> <<0, 0, 0, 0>>, port |-> <<0, 80>>]}

MCPeerLists == UNION {[1..n -> MCPeers] : n \in 0..3}

MCMessages == {[j \in 1..n |-> 32] : n \in {0, 7, 8, 12, 13, 18, 23, 40}}

MCStale == {0, 1}
=============================================================================
