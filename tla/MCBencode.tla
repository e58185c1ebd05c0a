----------------------------- MODULE MCBencode -----------------------------
(***************************************************************************)
(* Dictionaries of two entries: the first of any of the forms the decoder  *)
(* tells apart, two levels deep, and the metadata of torrents, in maps of  *)
(* three slots.                                                            *)
(***************************************************************************)
EXTENDS Bencode

MCCharacters ==
  {"#", ":", "i", "d", "l", "e", "a", "b", "c", "j", "k", "n", "x", NulChar,
   "files", "length", "path", "name", "pieces"}

MCLeaves == {BInt(1), BStr(<<>>), BStr(<<"a", "b">>), BList(<<>>), BDict(<<>>)}

MCNested ==
  MCLeaves
  \cup {BList(s) : s \in UNION {[1..n -> MCLeaves] : n \in 1..2}}
  \cup {BDict(<<KeyVal(<<"j">>, v)>>) : v \in MCLeaves}
  \cup {BDict(<<KeyVal(<<"j">>, v), KeyVal(<<"k">>, w)>>) : v, w \in MCLeaves}
  \cup {BList(<<BDict(<<KeyVal(<<"k">>, v)>>)>>) : v \in MCLeaves}
  \cup {BDict(<<KeyVal(<<"k">>, BList(<<v>>))>>) : v \in MCLeaves}

MCFile(n, path) == BDict(<<KeyVal(<<"length">>, BInt(n)), KeyVal(<<"path">>, BList(path))>>)

MCOther(chars) == KeyVal(chars, BStr(<<"x">>))

(* "name" shares the slot of "length", "n" that of "path". *)
MCSlotOf(k) ==
  CASE k \in {<<"length">>, <<"name">>, <<"j">>} -> 0
    [] k \in {<<"path">>, <<"n">>, <<"k">>} -> 1
    [] OTHER -> 2

MCFileList ==
  BList(<<MCFile(1, <<BStr(<<"a">>)>>), MCFile(0, <<BStr(<<"a">>), BInt(1), BStr(<<"b", "c">>)>>)>>)

(* What a client is meant to be sent; sizes that need the last bit of an int or
   more; names and keys that hold a NUL; keys that share a slot, the one asked
   for in front of the other or behind it; and a map that is full.            *)
MCMetadata ==
  { BDict(<<KeyVal(<<"files">>, MCFileList), MCOther(<<"name">>)>>),
    BDict(<<MCOther(<<"name">>), KeyVal(<<"files">>, MCFileList), MCOther(<<"n">>)>>),
    BDict(<<KeyVal(<<"files">>, BList(<<MCFile(2, <<BStr(<<"a">>)>>)>>))>>),
    BDict(<<KeyVal(<<"files">>, BList(<<MCFile(5, <<BStr(<<"a">>)>>)>>))>>),
    BDict(<<KeyVal(<<"files">>, BList(<<MCFile(1, <<BStr(<<"a", NulChar, "b">>)>>)>>))>>),
    BDict(<<KeyVal(<<"files", NulChar>>, MCFileList)>>),
    BDict(<<KeyVal(<<"files">>, MCFileList), MCOther(<<"pieces">>)>>),
    BDict(<<MCOther(<<"pieces">>), KeyVal(<<"files">>, MCFileList)>>),
    BDict(<<MCOther(<<"name">>), MCOther(<<"path">>), MCOther(<<"pieces">>),
            KeyVal(<<"files">>, MCFileList)>>),
    BDict(<<KeyVal(<<"files">>,
                   BList(<<BDict(<<KeyVal(<<"length">>, BInt(1)), MCOther(<<"name">>),
                                   KeyVal(<<"path">>, BList(<<BStr(<<"a">>)>>))>>)>>))>>),
    BDict(<<KeyVal(<<"files">>,
                   BList(<<BDict(<<KeyVal(<<"length">>, BInt(1)), MCOther(<<"n">>),
                                   KeyVal(<<"path">>, BList(<<BStr(<<"a">>)>>))>>)>>))>>),
    BDict(<<KeyVal(<<"length">>, BInt(1)), MCOther(<<"name">>), MCOther(<<"pieces">>)>>) }

MCDicts ==
  MCMetadata \cup {BDict(<<KeyVal(<<"j">>, v), KeyVal(<<"k">>, w)>>) :
                     v \in MCNested, w \in {BInt(1), BStr(<<"a", "b">>), BDict(<<>>)}}

MCTails ==
  { <<Letter(NulChar)>>, <<Letter("a")>>, <<Letter("e")>>,
    <<Letter("e"), Letter("a"), Letter(NulChar)>>,
    <<Number(1), Letter(":"), Letter("a")>> }

RECURSIVE MCContents(_), MCDepthOf(_)

MCContents(v) ==
  {v} \cup (IF v.type \in {"i", "s"} THEN {}
            ELSE UNION {MCContents(Item(v, n)) : n \in DOMAIN v.items})

MCAllContents == UNION {MCContents(v) : v \in MCDicts}

MCDepthOf(v) ==
  IF v.type \in {"i", "s"} \/ v.items = <<>> THEN 0
  ELSE 1 + (CHOOSE d \in 0..9 : /\ \A n \in DOMAIN v.items : MCDepthOf(Item(v, n)) <= d
                                /\ \E n \in DOMAIN v.items : MCDepthOf(Item(v, n)) = d)

MCDepth == [v \in MCAllContents |-> MCDepthOf(v)]
=============================================================================
