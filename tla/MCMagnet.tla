------------------------------ MODULE MCMagnet ------------------------------
(***************************************************************************)
(* Buffers of eight symbols; a map of three slots, in which any name that  *)
(* is not dn or xt shares the slot of "x" or that of the name.             *)
(***************************************************************************)
EXTENDS Magnet

CONSTANT MCMaxParams

P(n, v) == [name |-> n, value |-> v]

x == 310
y == 311
udp == 320
h1 == 321
h2 == 322
p1 == 323
p2 == 324
MCJunk == 400
a == 97
b == 98

(* The parameters links are made of: proper ones (an address with a colon
   as such and one that is written %3A), ...                               *)
Plain ==
  { P(<<tr>>, <<udp, Percent, 51, 65, h1, Colon, p1>>),
    P(<<dn>>, <<a>>), P(<<xt>>, <<a>>), P(<<dn>>, <<b>>),
    P(<<x>>, <<a>>), P(<<y>>, <<a, b>>) }

(* ... and others: no port, a path behind the port (just too long, and one
   more), no value, no name, no "=", neither, and text past the buffer.      *)
Odd ==
  { P(<<tr>>, <<udp, Colon, h2>>),
    P(<<tr>>, <<udp, Colon, h2, Colon, p2, Colon, a, b>>),
    P(<<tr>>, <<udp, Colon, h2, Colon, p2, Colon, a, b, a>>),
    P(<<dn>>, <<>>), P(<<>>, <<a>>), P(<<x>>, BareName), P(<<>>, BareName),
    P(<<x, x, x, x, x, x, x, x>>, <<b>>) }

Capital(n) == IF n < 10 THEN 48 + n ELSE 65 + n - 10

W(c, m) == [chars |-> c, means |-> m]

As(c) == W(<<c>>, <<c>>)

(* Every character as the client encodes it, and with capital digits. *)
MCEscapes ==
  {W(string_urlencode(<<c>>), <<c>>) : c \in 1..255}
    \cup {W(<<Percent, Capital(c \div 16), Capital(c % 16)>>, <<c>>) : c \in 1..255}

MCPieces == {As(a), As(b), As(200), W(<<Plus>>, <<Blank>>), W(<<Percent, 67, 97>>, <<202>>)}

(* Names, some of them cut within an escape. *)
MCNames ==
  {<<v>> : v \in MCEscapes \cup MCPieces \cup {Cut}}
    \cup {<<v, w>> : v \in MCPieces \cup {Cut}, w \in MCPieces \cup {Cut}}
    \cup {<<v, Cut, As(65)>> : v \in MCPieces}

MCColon == W(<<Percent, 51, 65>>, <<Colon>>)

MCAddressTexts ==
  { <<As(udp), MCColon, As(h1), As(Colon), As(p1)>>,
    <<As(udp), As(Colon), As(h2), As(Colon), As(p2), As(Colon), As(a), As(b)>> }

MCWritings == {w \in MCNames : Spells(w[1]) \/ Len(w[Len(w)].chars) = 1} \cup MCAddressTexts

MCAddresses == { <<<<udp>>, <<h1>>, <<p1>>>>, <<<<udp>>, <<h2>>, <<p2>>, <<a, b>>>> }

MCLinks ==
  UNION {[1..n -> Plain] : n \in 0..(MCMaxParams + 1)}
    \cup UNION {[1..n -> Plain \cup Odd] : n \in 0..MCMaxParams}
    \cup {<<P(<<dn>>, d.chars), P(<<xt>>, <<a>>)>> : d \in Dictionary}

Symbols == (1..255) \cup {dn, xt, tr, x, y, udp, h1, h2, p1, p2, MCJunk}

MCKeys == Seq(Symbols)

MCHash ==
  [k \in MCKeys |-> CASE k \in {<<dn>>, <<y>>} -> 0
                      [] k = <<xt>> -> 4
                      [] OTHER -> 2]
=============================================================================
