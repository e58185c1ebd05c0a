------------------------------ MODULE Bencode ------------------------------
(***************************************************************************)
(* bencode_to_hashmap (src/utils/bencode/bencode.c) over the cursors of    *)
(* the decoder it rests on, and the loop of Peer_get_metadata              *)
(* (src/peer/peer.c) that prints the files of what it decodes.             *)
(*                                                                         *)
(* The text is the encoding of a value up to a cut, and then whatever lies *)
(* in the buffer: the pieces of the metadata are joined with bytes between *)
(* them, and the last piece is missing (see Peer).  A token of the text is *)
(* a character, or a number with all its digits, which reads as "#".       *)
(***************************************************************************)
EXTENDS Integers, Sequences, FiniteSets

Lists == INSTANCE SequencesExt
Sets == INSTANCE FiniteSetsExt

CONSTANTS
  Characters,  \* characters, and names that are not taken apart
  Contents,    \* values, those inside of others among them
  Depth,       \* how deep each of them nests
  Dicts,       \* the dictionaries among them that peers send
  Tails,       \* what may follow the cut
  SlotOf(_),   \* the slot of a key in a hashmap: its hash, modulo MapSlots
  MapSlots,    \* _MAX_HASHTABLE_KEYS
  TwoTo32,     \* scaled: the numbers an int tells apart
  Host         \* the byte order of the client's machine

BDict(items) == [type |-> "d", items |-> items]
BList(items) == [type |-> "l", items |-> items]
BInt(n) == [type |-> "i", n |-> n]
BStr(chars) == [type |-> "s", chars |-> chars]
KeyVal(k, v) == [key |-> k, val |-> v]

Item(v, n) == IF v.type = "d" THEN v.items[n].val ELSE v.items[n]

Letters == Characters \ {"#"}
Tokens == Characters \X Nat

(* Values are finite, their numbers are those a long holds, and there is
   something behind the cut.                                                *)
ASSUME ContentsAssumption ==
  /\ {"#", ":", "i", "d", "l", "e"} \subseteq Characters
  /\ \A v \in Contents :
       \/ v \in [type : {"i"}, n : Nat]
       \/ v \in [type : {"s"}, chars : Seq(Letters)]
       \/ v \in [type : {"l"}, items : Seq(Contents)]
       \/ v \in [type : {"d"}, items : Seq([key : Seq(Letters), val : Contents])]
  /\ Depth \in [Contents -> Nat]
  /\ \A v \in Contents : v.type \in {"d", "l"} =>
       \A n \in DOMAIN v.items : Depth[Item(v, n)] < Depth[v]
  /\ Dicts \subseteq {v \in Contents : v.type = "d"}
  /\ Tails \subseteq Seq(Tokens) \ {<<>>}

ASSUME MachineAssumption ==
  /\ MapSlots \in Nat \ {0}
  /\ TwoTo32 \in Nat \ {0} /\ TwoTo32 % 2 = 0
  /\ Host \in {"little", "big"}

Letter(c) == <<c, 0>>
Number(n) == <<"#", n>>

Spell(chars) ==
  <<Number(Len(chars)), Letter(":")>> \o [n \in DOMAIN chars |-> Letter(chars[n])]

(* What stands in front of an entry. *)
Lead(v, n) == IF v.type = "d" THEN Spell(v.items[n].key) ELSE <<>>

Encode[v \in Contents] ==
  IF v.type = "i" THEN <<Letter("i"), Number(v.n), Letter("e")>>
  ELSE IF v.type = "s" THEN Spell(v.chars)
  ELSE <<Letter(v.type)>>
         \o Lists!FlattenSeq([n \in DOMAIN v.items |->
                               Lead(v, n) \o Encode[Item(v, n)]])
         \o <<Letter("e")>>

VARIABLES
  dict,     \* the value a peer has sent
  cut,      \* how much of its encoding is in the text
  text,     \* the text in memory; behind it is a NUL
  phase,    \* where Peer_get_metadata is, or how it ended: aborted is an
            \* assert or a NULL that is followed by the decoder; crashed is a
            \* NULL that is followed, a stack that is used up, a second free,
            \* or going on with memory that is not what it is taken for
  stack,    \* the calls of the decoder, and the loops over lists
  result,   \* the map that was decoded
  printed,  \* history: the files that were printed
  reach     \* history: the furthest end of a string that was read

decoder == <<dict, cut, text, phase, stack, result, printed, reach>>
sent == <<dict, cut, text>>

NulChar == "\\0"

(* What C takes a string to be. *)
CString(chars) ==
  LET ends == {n \in DOMAIN chars : chars[n] = NulChar}
  IN IF ends = {} THEN chars ELSE SubSeq(chars, 1, Sets!Min(ends) - 1)

Symbol(p) == IF p \in DOMAIN text THEN text[p][1] ELSE NulChar
Chars(p, n) == [j \in 1..n |-> Symbol(p + j - 1)]
IsNumber(p) == Symbol(p) = "#"
NumberAt(p) == text[p][2]

NullPtr == 0     \* NULL
Abort == -1      \* an assert that fails, or a NULL that is followed

-----------------------------------------------------------------------------
(* A bencode_t *)
Cursor(sp, n) == [start |-> sp, str |-> sp, len |-> n]

carry_length(be, pos) == be.len - (pos - be.str)

is_string(p) == IsNumber(p) /\ Symbol(p + 1) = ":"

(* bencode_string_value, behind its length: the string must fit the buffer. *)
StringFits(be) == be.str + 2 + NumberAt(be.str) <= be.start + be.len

AtEmptyDict(be) == Symbol(be.str) = "d" /\ Symbol(be.str + 1) = "e"

dict_has_next(be) ==
  /\ Symbol(be.str) \notin {"e", NulChar}
  /\ ~AtEmptyDict(be)
  /\ be.str < be.start + be.len - 1

(* bencode_dict_get_next up to the value: a key that does not begin with its
   length is followed as NULL, one whose length ends without ":" is asserted. *)
KeyAt(be) == IF Symbol(be.str) = "d" THEN be.str + 1 ELSE be.str

ValueAt(be) ==
  IF is_string(KeyAt(be)) THEN KeyAt(be) + 2 + NumberAt(KeyAt(be)) ELSE Abort

(* bencode_list_has_next: an empty list is left behind its "l". *)
AtEmptyList(be) == /\ Symbol(be.str) = "l" /\ be.str = be.start
                   /\ Symbol(be.str + 1) = "e"

list_has_next(be) == ~AtEmptyList(be) /\ Symbol(be.str) # "e"

ItemAt(be) == IF Symbol(be.str) = "l" /\ be.start = be.str THEN be.str + 1 ELSE be.str

-----------------------------------------------------------------------------
(* A frame of the stack: a dictionary or a list, which is read or only gone
   through to find its end, how far, what it was given so far, and the key its
   next entry goes to.                                                       *)
Frame(mode, type, be) ==
  [mode |-> mode, type |-> type, be |-> be, items |-> <<>>, key |-> <<>>]

Top == stack[Len(stack)]

HasNext(f) ==
  /\ f.be.str # NullPtr /\ Symbol(f.be.start) = f.type
  /\ IF f.type = "d" THEN dict_has_next(f.be) ELSE list_has_next(f.be)

DecoderInit ==
  /\ dict \in Dicts
  /\ cut \in 0..Len(Encode[dict])
  /\ \E tail \in Tails : text = SubSeq(Encode[dict], 1, cut) \o tail
  /\ \A p \in DOMAIN text : ~(IsNumber(p) /\ IsNumber(p + 1))
  /\ phase = "decode"
  /\ stack = <<Frame("read", "d", Cursor(1, Len(text) - 1))>>
  /\ result = BDict(<<>>)
  /\ printed = <<>>
  /\ reach = 0

(* The loop at the top goes on, with the value at Position. *)
Going == phase = "decode" /\ HasNext(Top)
Position == IF Top.type = "d" THEN ValueAt(Top.be) ELSE ItemAt(Top.be)
Readable == Top.be.len > 0 /\ Position # Abort
Found == Cursor(Position, carry_length(Top.be, Position))

Nests(p) == Symbol(p) \in {"d", "l"}

Keyed ==
  [Top EXCEPT !.key = IF Top.type = "d"
                      THEN Chars(KeyAt(Top.be) + 2, NumberAt(KeyAt(Top.be)))
                      ELSE <<>>]

(* Which values the loop of a frame puts into its map or its list. *)
Retains(f, p) == f.mode = "read" /\ (f.type = "d" \/ Symbol(p) = "d" \/ is_string(p))

(* A call of hashmap->set, or of list->append. *)
With(f, v) ==
  [f EXCEPT !.items = Append(@, IF f.type = "d" THEN KeyVal(CString(f.key), v) ELSE v)]

(* What a map has after calls of set with these pairs: up to the one that takes
   the last slot.  Behind it every call fails, whatever its key, and nobody
   looks at its result (hashmap.c:98, bencode.c:47-96).                      *)
Occupied(pairs, n) == {SlotOf(pairs[m].key) : m \in 1..n}

Stored(pairs) ==
  LET full == {n \in DOMAIN pairs : Cardinality(Occupied(pairs, n)) = MapSlots}
  IN IF full = {} THEN pairs ELSE SubSeq(pairs, 1, Sets!Min(full))

Holding(type, items) ==
  [type |-> type, items |-> IF type = "d" THEN Stored(items) ELSE items]

(* Variant: a list is gone on in with what it retains. *)
MovedIfRetained(f, p, end) ==
  IF f.type = "d" \/ Retains(f, p) THEN [f EXCEPT !.be.str = end] ELSE f

(* The cursor moves behind the value at p. *)
Moved(f, p, end) == [f EXCEPT !.be.str = end]

(* The value of a string or an int. *)
Leaf(p) ==
  IF Symbol(p) = "i" THEN BInt(NumberAt(p + 1)) ELSE BStr(Chars(p + 2, NumberAt(p)))

(* __iterate_to_next_string_pos behind a value that does not nest. *)
LeafEnd(be) ==
  CASE is_string(be.start) ->
         IF be.len <= 0 THEN Abort
         ELSE IF StringFits(be) THEN be.start + 2 + NumberAt(be.start) ELSE NullPtr
    [] Symbol(be.start) = "i" /\ IsNumber(be.start + 1) ->
         IF Symbol(be.start + 2) = "e" THEN be.start + 3 ELSE Abort
    [] OTHER -> NullPtr

PassLeaf ==
  /\ Going /\ Readable /\ ~Nests(Position)
  /\ LET end == LeafEnd(Found)
         f == Moved(Keyed, Position, end)
         taken == end # NullPtr /\ Retains(Top, Position)
     IN /\ end # Abort
        /\ stack' = [stack EXCEPT ![Len(stack)] =
                       IF taken THEN With(f, Leaf(Position)) ELSE f]
        /\ reach' = IF taken /\ is_string(Position) /\ end - 1 > reach
                    THEN end - 1 ELSE reach
  /\ UNCHANGED <<sent, phase, result, printed>>

(* __iterate_to_next_string_pos calls itself for a value that nests, ... *)
Enter ==
  /\ Going /\ Readable /\ Nests(Position)
  /\ stack' = Append([stack EXCEPT ![Len(stack)] = Keyed],
                     Frame("skip", Symbol(Position), Found))
  /\ UNCHANGED <<sent, phase, result, printed, reach>>

(* Variant: no special case for an empty dictionary. *)
BehindStr(be) ==
  IF be.str = NullPtr THEN NullPtr ELSE be.str + (IF AtEmptyList(be) THEN 2 ELSE 1)

EndOf(be) ==
  IF be.str = NullPtr THEN NullPtr
  ELSE be.str + (IF AtEmptyDict(be) \/ AtEmptyList(be) THEN 2 ELSE 1)

(* ... and returns its end, or NULL.  The loop that reads goes on with the
   value: it is read in turn, if it is retained.                             *)
Skipped ==
  /\ phase = "decode" /\ Top.mode = "skip" /\ ~HasNext(Top)
  /\ LET n == Len(stack) - 1
         f == Moved(stack[n], Top.be.start, EndOf(Top.be))
     IN stack' = IF EndOf(Top.be) # NullPtr /\ Retains(stack[n], Top.be.start)
                 THEN [stack EXCEPT ![n] = f,
                                    ![n + 1] = Frame("read", Top.type,
                                                     Cursor(Top.be.start, Top.be.len))]
                 ELSE Append(SubSeq(stack, 1, n - 1), f)
  /\ UNCHANGED <<sent, phase, result, printed, reach>>

(* A list that is cut leaves its cursor NULL, which is followed at the next
   turn; a dictionary leaves its loop (bencode.c:75, 37).                    *)
Lost == Top.type = "l" /\ Top.be.str = NullPtr

(* The value goes to the frame below. *)
Return ==
  /\ phase = "decode" /\ Top.mode = "read" /\ ~HasNext(Top) /\ ~Lost
  /\ LET n == Len(stack) - 1
         v == Holding(Top.type, Top.items)
     IN IF n > 0
        THEN /\ stack' = Append(SubSeq(stack, 1, n - 1), With(stack[n], v))
             /\ UNCHANGED <<phase, result>>
        ELSE /\ result' = v
             /\ stack' = <<>>
             /\ phase' = "decoded"
  /\ UNCHANGED <<sent, printed, reach>>

(* An assert of the decoder fails, or a NULL is followed. *)
Aborts ==
  /\ phase = "decode"
  /\ \/ HasNext(Top) /\ ~Readable
     \/ HasNext(Top) /\ Readable /\ ~Nests(Position) /\ LeafEnd(Found) = Abort
     \/ Top.mode = "read" /\ Lost
  /\ phase' = "aborted"
  /\ UNCHANGED <<sent, stack, result, printed, reach>>

-----------------------------------------------------------------------------
(* Peer_get_metadata.  A get looks at the first bucket of the slot of its key;
   if that has another key, it returns NULL, or, if there are more, asks itself
   again until the stack is used up (bucket.c:137-144).  The callers follow
   whatever they are given.                                                  *)
InSlot(map, k) == {n \in DOMAIN map.items : SlotOf(map.items[n].key) = SlotOf(k)}
HeadOf(map, k) == map.items[Sets!Min(InSlot(map, k))]

HasKey(map, k) == InSlot(map, k) # {} /\ HeadOf(map, k).key = k
ValueOf(map, k) == HeadOf(map, k).val
HasOf(map, k, type) == HasKey(map, k) /\ ValueOf(map, k).type = type

(* Two keys share a slot: the destruction frees a bucket twice (bucket.c:65). *)
Shares(map) ==
  \E n, m \in DOMAIN map.items :
    n # m /\ SlotOf(map.items[n].key) = SlotOf(map.items[m].key)

FilesKey == <<"files">>
LengthKey == <<"length">>
PathKey == <<"path">>

LastOf(v) == v.items[Len(v.items)]

(* What the loop takes a file to be. *)
IsFile(f) ==
  /\ f.type = "d"
  /\ HasOf(f, LengthKey, "i")
  /\ HasOf(f, PathKey, "l") /\ ValueOf(f, PathKey).items # <<>>
  /\ LastOf(ValueOf(f, PathKey)).type = "s"

(* Variant: the half that comes last in memory. *)
LastHalf(n) == n \div TwoTo32

(* A long that is read through a pointer to int: the half of it that comes
   first in memory, where the upper half of its bits stands for what is below
   zero (bencode.c:51-53, peer.c:245, 255).                                  *)
AsInt(n) ==
  LET first == (IF Host = "little" THEN n ELSE n \div TwoTo32) % TwoTo32
  IN IF 2 * first < TwoTo32 THEN first ELSE first - TwoTo32

(* "%s (%i bytes)" *)
Printed(f) ==
  [path |-> CString(LastOf(ValueOf(f, PathKey)).chars),
   length |-> AsInt(ValueOf(f, LengthKey).n)]

GetFiles ==
  /\ phase = "decoded"
  /\ phase' = IF HasOf(result, FilesKey, "l") THEN "files" ELSE "crashed"
  /\ UNCHANGED <<sent, stack, result, printed, reach>>

Files(map) == ValueOf(map, FilesKey).items
MoreFiles == Len(printed) < Len(Files(result))

PrintFile ==
  /\ phase = "files" /\ MoreFiles
  /\ LET f == Files(result)[Len(printed) + 1]
     IN \/ /\ IsFile(f)
           /\ printed' = Append(printed, Printed(f))
           /\ UNCHANGED phase \/ (Shares(f) /\ phase' = "crashed")
        \/ /\ ~IsFile(f)
           /\ phase' = "crashed"
           /\ UNCHANGED printed
  /\ UNCHANGED <<sent, stack, result, reach>>

FilesEnd ==
  /\ phase = "files" /\ ~MoreFiles
  /\ phase' = "done" \/ (Shares(result) /\ phase' = "crashed")
  /\ UNCHANGED <<sent, stack, result, printed, reach>>

-----------------------------------------------------------------------------
DecoderNext ==
  \/ PassLeaf \/ Enter \/ Skipped \/ Return \/ Aborts
  \/ GetFiles \/ PrintFile \/ FilesEnd

(* One thread, which runs. *)
DecoderSpec == DecoderInit /\ [][DecoderNext]_decoder /\ WF_decoder(DecoderNext)
-----------------------------------------------------------------------------
(* Properties *)

(* Every variable has its type.  The decoder reads a dictionary; a list is
   read in a dictionary; in what is gone through nothing is read; a cursor is
   behind its start.                                                         *)
DecoderTypeOK ==
  /\ phase \in {"decode", "aborted", "decoded", "files", "done", "crashed"}
  /\ cut \in 0..Len(Encode[dict])
  /\ phase = "decode" => stack # <<>> /\ stack[1].mode = "read" /\ stack[1].type = "d"
  /\ \A n \in DOMAIN stack :
       /\ stack[n].be.str # NullPtr => stack[n].be.str >= stack[n].be.start
       /\ stack[n].mode = "read" /\ stack[n].type = "l" => stack[n - 1].type = "d"
       /\ stack[n].mode = "skip" /\ n < Len(stack) => stack[n + 1].mode = "skip"

(* What the map or the list has of the n-th entry, which decodes to w: of a
   list, the dictionaries and the strings are kept.                          *)
MappedEntry(v, n, w) ==
  CASE v.type = "d" -> <<KeyVal(CString(v.items[n].key), w)>>
    [] v.type = "l" /\ v.items[n].type \in {"d", "s"} -> <<w>>
    [] OTHER -> <<>>

(* What bencode_to_hashmap keeps of a value. *)
Mapped[v \in Contents] ==
  IF v.type \in {"i", "s"} THEN v
  ELSE Holding(v.type,
               Lists!FlattenSeq([n \in DOMAIN v.items |->
                                  MappedEntry(v, n, Mapped[Item(v, n)])]))

(* The encoding of a dictionary or a list up to its n-th entry. *)
Upto(v, n) ==
  <<Letter(v.type)>>
    \o Lists!FlattenSeq([m \in 1..n |-> Lead(v, m) \o Encode[Item(v, m)]])

Complete == cut = Len(Encode[dict])

Decoded == phase \in {"decoded", "files", "done", "crashed"}

(* Decoded to what was sent, but for what maps and lists do not keep. *)
CompleteIsDecoded ==
  Complete => phase # "aborted" /\ (Decoded => result = Mapped[dict])

(* Of a text that is cut, or has other bytes from some place on, everything
   before that place is decoded as it was sent: if the decoding comes to its
   end, the entries that are whole, and that a map has room for, are all there,
   in order.                                                                 *)
EarlierEntriesKept ==
  Decoded =>
    \A n \in DOMAIN Mapped[dict].items : Len(Upto(dict, n)) <= cut =>
      n \in DOMAIN result.items /\ result.items[n] = Mapped[dict].items[n]

(* A dictionary a hashmap is right for: no key holds a NUL, no two keys share a
   slot, and none is refused.                                                *)
Suits(v) ==
  /\ \A n \in DOMAIN v.items : \A j \in DOMAIN v.items[n].key :
       v.items[n].key[j] # NulChar
  /\ ~Shares(v)
  /\ Stored(v.items) = v.items

(* The value a key was sent with. *)
SentWith(v, k, type) ==
  \E n \in DOMAIN v.items : v.items[n].key = k /\ v.items[n].val.type = type
SentValue(v, k) == v.items[CHOOSE n \in DOMAIN v.items : v.items[n].key = k].val

(* A file whose name is a string to C, and whose size is below 2^31. *)
ProperFile(f) ==
  /\ f.type = "d" /\ Suits(f)
  /\ SentWith(f, LengthKey, "i") /\ 2 * SentValue(f, LengthKey).n < TwoTo32
  /\ SentWith(f, PathKey, "l") /\ SentValue(f, PathKey).items # <<>>
  /\ LastOf(SentValue(f, PathKey)).type = "s"
  /\ \A j \in DOMAIN LastOf(SentValue(f, PathKey)).chars :
       LastOf(SentValue(f, PathKey)).chars[j] # NulChar

AsSent(f) ==
  [path |-> LastOf(SentValue(f, PathKey)).chars, length |-> SentValue(f, LengthKey).n]

SentFiles == SentValue(dict, FilesKey).items

ProperMetadata ==
  /\ Complete /\ Host = "little"
  /\ Suits(dict) /\ SentWith(dict, FilesKey, "l")
  /\ \A n \in DOMAIN SentFiles : ProperFile(SentFiles[n])

FilesArePrinted ==
  ProperMetadata =>
    /\ phase \notin {"aborted", "crashed"}
    /\ phase = "done" =>
         printed = [n \in DOMAIN SentFiles |-> AsSent(SentFiles[n])]

(* A text that is complete is decoded to what was sent, but for what maps and
   lists do not keep, whatever lies behind it (bencode.c:24-103).  Of the
   metadata of several files each is printed with its name and its size, and
   the process goes on (peer.c:236-271), on a little-endian machine, if the
   keys of each of its maps have a slot each and no size needs 32 bits.       *)
MetadataIsRead == CompleteIsDecoded /\ FilesArePrinted

(* Every decoding ends, whatever the text is: the cursor never stands still
   (bencode.c:71-94, 377-382, 496-502).                                       *)
DecodingEnds == <>(phase \in {"done", "crashed", "aborted"})

(* bencode.c:105-107: the length of the buffer is carried over to every object
   "so that we don't exhaust the buffer", and bencode.c:420: "make sure we
   still fit within the buffer".  Read: no string is read past its end.       *)
StringsInBuffer == reach <= Len(text) - 1
=============================================================================
