------------------------------- MODULE Magnet -------------------------------
(***************************************************************************)
(* Torrent_parse (src/torrent/torrent.c) and the part of Tracker_init      *)
(* (src/tracker/tracker.c) that takes an address apart.  The text behind   *)
(* "magnet:?" is read one character at a time into two buffers, pairs go   *)
(* to a hashmap or, under "tr", to the list of trackers.                   *)
(*                                                                         *)
(* A character is its code, as in StringUtils; the names of parameters,    *)
(* hosts ("//" included) and ports are one symbol each, a number above 255.*)
(***************************************************************************)
EXTENDS StringUtils, FiniteSets

CONSTANTS
  Links,      \* magnet links: sequences of parameters [name, value]
  Writings,   \* texts as links give them: sequences of pieces [chars, means]
  Addresses,  \* addresses of trackers: sequences of the parts between colons
  BareName,   \* the value of a parameter without "="
  BufLen,     \* 256: size of key_buffer and value_buffer
  Junk,       \* what lies behind a buffer that has no terminator
  Keys, Values, NULL, NumSlots, get_hash, MaxChain  \* of Hashmap

ASSUME MagnetAssumption ==
  /\ BufLen \in Nat \ {0}
  /\ Junk \in Nat /\ Junk > 255
  /\ NumSlots \in Nat \ {0}

dn == 300
xt == 301
tr == 302

(* Behind "?" there are parameters, "&" between them; each is a name without
   "=" and, if there is one, behind it a value.                              *)
ASSUME LinksAssumption ==
  /\ \A l \in Links :
       /\ l \in Seq([name : Seq(Nat), value : Seq(Nat) \cup {BareName}])
       /\ \A n \in DOMAIN l :
            /\ \A j \in DOMAIN l[n].name : l[n].name[j] # Equals
            /\ l[n].value # BareName =>
                 \A j \in DOMAIN l[n].value : l[n].value[j] # Ampersand
            /\ get_hash[l[n].name] \in Nat
  /\ get_hash[<<dn>>] \in Nat /\ get_hash[<<xt>>] \in Nat
  /\ NULL \notin Seq(Nat) /\ NULL \notin Seq([host : Seq(Nat), port : Seq(Nat)])

VARIABLES
  link,          \* the link, in parameters
  pc,            \* where Torrent_parse is
  i,             \* its loop counter, from 0
  key,           \* 1 while a key is extracted, 0 while a value is
  key_buffer, value_buffer,
  trackers,      \* this->trackers: host and port of each; NULL before it exists
  name, hash     \* this->name and this->hash

parser == <<link, pc, i, key, key_buffer, value_buffer, trackers, name, hash>>

VARIABLES buckets, bucket_count, alive, turn, frees, proc, answer, last

Map == INSTANCE Hashmap

mapvars == <<buckets, bucket_count, alive, turn, frees, proc, answer, last>>

vars == <<parser, mapvars>>

ParamText(p) == IF p.value = BareName THEN p.name ELSE p.name \o <<Equals>> \o p.value

Text(l) ==
  Seqs!FlattenSeq([n \in DOMAIN l |->
                IF n = 1 THEN ParamText(l[n]) ELSE <<Ampersand>> \o ParamText(l[n])])

(* The file behind its first eight characters. *)
sub_string == Text(link)

Char == sub_string[i + 1]
AtLastChar == i = Len(sub_string) - 1     \* i == input_len

Init ==
  /\ link \in Links
  /\ pc = "open"
  /\ i = 0
  /\ key = 1
  /\ key_buffer = <<>> /\ value_buffer = <<>>
  /\ trackers = NULL
  /\ name = NULL /\ hash = NULL
  /\ Map!Init

-----------------------------------------------------------------------------
(* fopen or fread fails: there is no map and no list of trackers. *)
OpenFails ==
  /\ pc = "open"
  /\ pc' = "failed"
  /\ UNCHANGED <<link, i, key, key_buffer, value_buffer, trackers, name, hash, mapvars>>

Open ==
  /\ pc = "open"
  /\ pc' = "scan"
  /\ trackers' = <<>>
  /\ UNCHANGED <<link, i, key, key_buffer, value_buffer, name, hash, mapvars>>

Scanning == pc = "scan" /\ proc = "running" /\ i < Len(sub_string)

(* The character belongs to the buffer: it is not the delimiter, there is
   room, and it is not the last of the link.                               *)
Fits(buffer, delimiter) == Char # delimiter /\ Len(buffer) < BufLen /\ ~AtLastChar

(* Variant: the last character is left to the other branch, which drops it. *)
DropsLast(buffer) == buffer

(* The last character of the link ends the buffer, a delimiter too.  Behind a
   full buffer it is written over whatever lies there.                       *)
WithLast(buffer) ==
  IF AtLastChar /\ Len(buffer) < BufLen THEN Append(buffer, Char) ELSE buffer

Overwrites(buffer) == AtLastChar /\ Len(buffer) = BufLen

(* What strcmp and strlen take a buffer for: a full one has no terminator. *)
ReadsAs(buffer) ==
  IF Len(buffer) < BufLen THEN {buffer} ELSE {buffer, Append(buffer, Junk)}

ScanKey ==
  /\ Scanning /\ key = 1 /\ Fits(key_buffer, Equals)
  /\ key_buffer' = Append(key_buffer, Char)
  /\ i' = i + 1
  /\ UNCHANGED <<link, pc, key, value_buffer, trackers, name, hash, mapvars>>

(* With the delimiter, a character too many, or the last of the link. *)
KeyEnds ==
  /\ Scanning /\ key = 1 /\ ~Fits(key_buffer, Equals)
  /\ key_buffer' = WithLast(key_buffer)
  /\ key' = 0
  /\ i' = i + 1
  /\ UNCHANGED <<link, pc, value_buffer, trackers, name, hash, mapvars>>

ScanValue ==
  /\ Scanning /\ key = 0 /\ Fits(value_buffer, Ampersand)
  /\ value_buffer' = Append(value_buffer, Char)
  /\ i' = i + 1
  /\ UNCHANGED <<link, pc, key, key_buffer, trackers, name, hash, mapvars>>

ValueEnds == Scanning /\ key = 0 /\ ~Fits(value_buffer, Ampersand)

(* Variant: the key is kept until the next one is written over it. *)
ClearsValue == key_buffer' = key_buffer /\ value_buffer' = <<>>

ClearBuffers == key_buffer' = <<>> /\ value_buffer' = <<>>

NextPair ==
  /\ ClearBuffers
  /\ key' = 1
  /\ i' = i + 1
  /\ UNCHANGED <<link, name, hash>>

(* hashmap->set *)
StorePair ==
  /\ ValueEnds
  /\ \E k \in ReadsAs(key_buffer), v \in ReadsAs(WithLast(value_buffer)) :
       k # <<tr>> /\ Map!Set(k, v)
  /\ NextPair
  /\ UNCHANGED <<pc, trackers>>

(* "out of space": the error path destroys the map and returns failure. *)
StoreFails ==
  /\ ValueEnds
  /\ \E k \in ReadsAs(key_buffer) : k # <<tr>>
  /\ Map!Full
  /\ Map!BeginDestroy
  /\ pc' = "fail"
  /\ UNCHANGED <<link, i, key, key_buffer, value_buffer, trackers, name, hash>>

(* The address, decoded and split; its parts are counted from 0. *)
Part(address, n) == string_split(string_urldecode(address))[n + 1]

(* Part 2 of an address of fewer than three is asked for all the same: the
   list lets its own length pass as a position and walks off its end.       *)
HasPort(address) == Len(string_split(string_urldecode(address))) >= 3

(* Tracker_init and append. *)
AppendTracker ==
  /\ ValueEnds
  /\ <<tr>> \in ReadsAs(key_buffer)
  /\ \E addr \in ReadsAs(WithLast(value_buffer)) :
       \/ /\ HasPort(addr)
          /\ trackers' = Append(trackers, [host |-> Part(addr, 1), port |-> Part(addr, 2)])
          /\ NextPair
          /\ UNCHANGED <<pc, mapvars>>
       \/ /\ ~HasPort(addr)
          /\ proc' = "crashed"
          /\ UNCHANGED <<parser, buckets, bucket_count, alive, turn, frees, answer, last>>

(* The character behind a full buffer falls on what the stack holds there: if
   that is its guard, the process ends.                                      *)
OverwriteCrashes ==
  /\ Scanning
  /\ \/ key = 1 /\ Overwrites(key_buffer)
     \/ key = 0 /\ Overwrites(value_buffer)
  /\ proc' = "crashed"
  /\ UNCHANGED <<parser, buckets, bucket_count, alive, turn, frees, answer, last>>

ScanEnds ==
  /\ pc = "scan" /\ i >= Len(sub_string)
  /\ pc' = "dn"
  /\ UNCHANGED <<link, i, key, key_buffer, value_buffer, trackers, name, hash, mapvars>>

-----------------------------------------------------------------------------
(* hashmap->get of "dn" and then of "xt". *)
LookUp ==
  /\ pc \in {"dn", "xt"}
  /\ Map!Get(IF pc = "dn" THEN <<dn>> ELSE <<xt>>)
  /\ pc' = IF pc = "dn" THEN "name" ELSE "hash"
  /\ UNCHANGED <<link, i, key, key_buffer, value_buffer, trackers, name, hash>>

CopyName ==
  /\ pc = "name" /\ proc = "running" /\ answer # NULL
  /\ name' = string_urldecode(answer)
  /\ pc' = "xt"
  /\ UNCHANGED <<link, i, key, key_buffer, value_buffer, trackers, hash, mapvars>>

CopyHash ==
  /\ pc = "hash" /\ proc = "running" /\ answer # NULL
  /\ hash' = answer
  /\ pc' = "cleanup"
  /\ Map!BeginDestroy
  /\ UNCHANGED <<link, i, key, key_buffer, value_buffer, trackers, name>>

(* strlen(NULL), in urldecode or in parse itself. *)
NothingToCopy ==
  /\ pc \in {"name", "hash"} /\ proc = "running" /\ answer = NULL
  /\ proc' = "crashed"
  /\ UNCHANGED <<parser, buckets, bucket_count, alive, turn, frees, answer, last>>

(* hashmap->destroy *)
Cleanup ==
  /\ pc \in {"cleanup", "fail"}
  /\ Map!DestroySlot
  /\ UNCHANGED parser

Returns ==
  /\ pc \in {"cleanup", "fail"} /\ proc = "running" /\ turn = NumSlots
  /\ pc' = IF pc = "cleanup" THEN "parsed" ELSE "failed"
  /\ UNCHANGED <<link, i, key, key_buffer, value_buffer, trackers, name, hash, mapvars>>

-----------------------------------------------------------------------------
Next ==
  \/ OpenFails \/ Open
  \/ ScanKey \/ KeyEnds \/ ScanValue
  \/ StorePair \/ StoreFails \/ AppendTracker
  \/ OverwriteCrashes \/ ScanEnds
  \/ LookUp \/ CopyName \/ CopyHash \/ NothingToCopy
  \/ Cleanup \/ Returns

Spec == Init /\ [][Next]_vars

-----------------------------------------------------------------------------
(* Properties *)

(* The values that stand under "tr" in the first n parameters, for each n. *)
TrackersTo(l) ==
  LET to[n \in 0..Len(l)] ==
        IF n = 0 THEN <<>>
        ELSE IF l[n].name = <<tr>> THEN Append(to[n - 1], l[n].value)
        ELSE to[n - 1]
  IN to

Trackers(l) == TrackersTo(l)[Len(l)]

(* Every parameter is a key, "=" and a value that fit their buffers with a
   terminator, and the link does not end with "=".                         *)
Written(l) ==
  /\ \A n \in DOMAIN l : /\ l[n].value # BareName
                         /\ Len(l[n].name) < BufLen /\ Len(l[n].value) < BufLen
  /\ l # <<>> => l[Len(l)].value # <<>>

Has(l, k) == \E n \in DOMAIN l : l[n].name = k

FirstAt(l, k) ==
  CHOOSE n \in DOMAIN l : l[n].name = k /\ \A m \in 1..(n - 1) : l[m].name # k

First(l, k) == l[FirstAt(l, k)].value

SlotsApart(l) ==
  \A m, n \in DOMAIN l :
    l[m].name # <<tr>> /\ l[n].name # <<tr>> /\ Map!Slot(l[m].name) = Map!Slot(l[n].name)
      => m = n

(* How a link writes characters: as such, a blank also as "+", and any of them
   by its two digits, small or capital.  A "%" may have been cut off its digits,
   at most one character from the end.                                        *)
HexDigit(n) == IF n < 10 THEN {48 + n} ELSE {55 + n, 87 + n}

Spells(piece) ==
  \/ \E c \in {piece.chars[n] : n \in DOMAIN piece.chars} :
       /\ piece.chars = <<c>> /\ c \notin {NUL, Percent}
       /\ piece.means = <<IF c = Plus THEN Blank ELSE c>>
  \/ \E m, n \in 0..15 : \E c \in HexDigit(m), d \in HexDigit(n) :
       /\ m + n > 0
       /\ piece.chars = <<Percent, c, d>> /\ piece.means = <<16 * m + n>>

Cut == [chars |-> <<Percent>>, means |-> <<>>]

ASSUME WritingsAssumption ==
  \A w \in Writings :
    /\ w \in Seq([chars : Seq(Nat), means : Seq(Nat)])
    /\ \A n \in DOMAIN w :
         \/ Spells(w[n])
         \/ w[n] = Cut /\ n + 1 >= Len(w) /\ Len(w[Len(w)].chars) = 1

Dictionary ==
  {[chars |-> Seqs!FlattenSeq([n \in DOMAIN w |-> w[n].chars]),
    means |-> Seqs!FlattenSeq([n \in DOMAIN w |-> w[n].means])] : w \in Writings}

(* Protocol, host and port, and perhaps more; none has a colon in it. *)
ASSUME AddressAssumption ==
  \A a \in Addresses :
    /\ a \in Seq(Seq(Nat)) /\ Len(a) >= 3
    /\ \A n \in DOMAIN a : \A j \in DOMAIN a[n] : a[n][j] # Colon

Joined(a) ==
  Seqs!FlattenSeq([n \in DOMAIN a |-> IF n = 1 THEN a[n] ELSE <<Colon>> \o a[n]])

(* Every variable has its type; neither buffer is written past its end by a
   character that is not the link's last (torrent.c:172, 182), and the list of
   trackers exists once the file has been read.                              *)
TypeOK ==
  /\ pc \in {"open", "scan", "dn", "name", "xt", "hash", "cleanup", "fail", "parsed", "failed"}
  /\ i \in 0..Len(sub_string)
  /\ key \in {0, 1}
  /\ Len(key_buffer) <= BufLen /\ Len(value_buffer) <= BufLen
  /\ pc \notin {"open", "failed"} => trackers # NULL

(* A link that was parsed gave what it says, whatever other parameters there
   are and wherever these stand among them: the first name and the first hash,
   and a tracker for each "tr", in order.  The name is what its writing means,
   whoever has written it and wherever it was cut (string_utils.c:63-81); host
   and port are those of the address that is written (tracker.c:72-77).       *)
ParsedAsWritten ==
  pc = "parsed" /\ proc = "running" /\ Written(link) =>
    /\ \A d \in Dictionary : First(link, <<dn>>) = d.chars => name = d.means
    /\ hash = First(link, <<xt>>)
    /\ Len(trackers) = Len(Trackers(link))
    /\ \A n \in DOMAIN trackers : \A d \in Dictionary, a \in Addresses :
         Trackers(link)[n] = d.chars /\ Joined(a) = d.means =>
           trackers[n] = [host |-> a[2], port |-> a[3]]

(* What the parse needs of a link: a name, a hash, complete addresses, and a
   slot of the map for each other parameter.  Such a link never ends the
   process, and fails only if it cannot be read.                             *)
GoodLinkParses ==
  /\ Written(link) /\ SlotsApart(link)
  /\ Has(link, <<dn>>) /\ Has(link, <<xt>>)
  /\ \A n \in DOMAIN link : link[n].name = <<tr>> => HasPort(link[n].value)
  => proc = "running" /\ (pc = "failed" => trackers = NULL)

(* torrent.c:117-118: "parse a torrent objects magnet url from a file /
   RETURN : success bool".  Read: whatever the link, the call returns.      *)
ParseReturns == proc = "running"
=============================================================================
