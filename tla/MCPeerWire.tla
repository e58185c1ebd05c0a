----------------------------- MODULE MCPeerWire -----------------------------
(***************************************************************************)
(* Texts of up to two of the three entries in any order, with sizes of no  *)
(* digit to ten; behind them nothing, the end of a number, or a key, near  *)
(* and far.  Ten pieces are the most whose requests fit; with twelve the   *)
(* stream goes on behind a request that does not.  The number of an        *)
(* extension is cut to a byte.                                             *)
(***************************************************************************)
EXTENDS PeerWire

MCInfoHash == [j \in 1..20 |-> j]

N(digits) == [j \in DOMAIN digits |-> 48 + digits[j]]

MCSizes ==
  {N(<<>>), N(<<0>>), N(<<3>>), N(<<1, 6, 3, 8, 4>>), N(<<3, 2, 7, 6, 9>>),
   N(<<1, 6, 3, 8, 4, 0>>), N(<<9, 9, 9, 9, 9, 9, 9, 9, 9>>),
   N(<<1, 0, 0, 0, 0, 0, 0, 0, 0, 0>>)}

Entry(key, number) == <<120, key>> \o number \o <<Letter_e>>

SizeEntries == {Entry(metadata_sizei, n) : n \in MCSizes}
UtEntries == {Entry(ut_metadatai, n) : n \in {N(<<3>>), N(<<2, 5, 8>>)}}
Others == {<<>>, Entry(120, N(<<5>>))}

MCTexts ==
  {<<100>> \o s \o u \o o \o <<Letter_e>> :
     s \in SizeEntries, u \in UtEntries, o \in Others}
    \cup {<<100>> \o o \o u \o s \o <<Letter_e>> :
            s \in SizeEntries, u \in UtEntries, o \in Others}
    \cup {<<100>> \o o \o e \o <<Letter_e>> :
            e \in SizeEntries \cup UtEntries \cup {<<>>}, o \in Others}

MCOverreads == {-1, 1000000007}

Xs(n) == [j \in 1..n |-> 120]

MCStacks ==
  {<<NUL>>, <<Letter_e, NUL>>, <<49, 50, Letter_e, NUL>>,
   <<metadata_sizei, 55, Letter_e, NUL>>, <<ut_metadatai, 55, Letter_e, NUL>>,
   Xs(5) \o <<metadata_sizei, 55, Letter_e, NUL>>,
   Xs(6) \o <<metadata_sizei, 55, Letter_e, NUL>>}
=============================================================================
