-------------------------------- MODULE Peer --------------------------------
(***************************************************************************)
(* One session with a peer, as Tracker_announce runs it for every peer of  *)
(* an answer (tracker.c:255-266): src/peer/peer.c, src/peer/packets and    *)
(* the TCP half of utils/sock/socket.c.                                    *)
(*                                                                         *)
(* TCP keeps the order of the bytes but not the borders of the messages: a *)
(* recv returns any part of what is under way, or nothing within the 30    *)
(* seconds of SO_RCVTIMEO (-1), or 0 for ever once the peer has closed.    *)
(* The handshake and the extended handshake are read by a single recv, all *)
(* later messages by a length prefix and a loop.                           *)
(*                                                                         *)
(* Bytes are abstracted to units: a length prefix is two units, of which   *)
(* the first is zero; a metadata piece of 16 kB is PieceUnits of payload.  *)
(* The peer keeps to the protocol, but may be slow, talk unasked and for   *)
(* ever, advertise no metadata and close at any time.                      *)
(***************************************************************************)
EXTENDS Integers, Sequences, FiniteSets

CONSTANTS
  Sizes,      \* bound: the metadata_size a peer advertises, in units; 0: none
  MaxOther,   \* bound: messages sent unasked and not yet received
  MaxLength,  \* bound: what bytes that are no length prefix may read as
  PieceUnits, \* 16 kB: a piece of the metadata, in units
  DictUnits,  \* the longest dictionary in front of a piece
  TwoTo32     \* the values of a uint32_t

Prefix == 2

ASSUME PeerAssumption ==
  /\ Sizes \subseteq Nat
  /\ MaxOther \in Nat /\ MaxLength \in Nat /\ TwoTo32 \in Nat
  /\ PieceUnits \in Nat /\ DictUnits \in 1..(PieceUnits - 1)
  /\ MaxLength + 1 < TwoTo32 /\ PieceUnits + DictUnits + 1 < TwoTo32

VARIABLES
  proc,        \* the client process: running or crashed
  pc,          \* where it is in the session
  sock_desc,   \* this->socket->sock_desc is not NULL
  num_pieces,  \* this->num_pieces
  piece,       \* the loop of Peer_get_metadata
  goal,        \* whose receive runs: metadata or piece
  length,      \* length, pos, bytes_received and out of that receive
  pos,
  bytes_received,
  out,
  metadata,    \* what Peer_get_metadata copied of each response
  metadata_pos, \* and where it copies the next one to
  size,        \* peer: the metadata_size it advertises
  asked,       \* peer: the requests it has to answer
  sent,        \* history: the messages the peer has sent
  closed,      \* peer: it closed the connection
  stream,      \* the units sent and not yet received
  cut          \* history: a recv left the client inside a message

session  == <<proc, pc, sock_desc, num_pieces, piece, goal, metadata, metadata_pos>>
receiver == <<length, pos, bytes_received, out>>
remote   == <<size, asked, sent, closed>>
vars     == <<session, receiver, remote, stream, cut>>

(* A message has a body; in an answer it is a dictionary and a piece. *)
Kinds == {"handshake", "extended", "metadata", "other"}
Messages == [kind : Kinds, piece : Nat, dict : Nat, body : Nat]
Plain(kind, len) == [kind |-> kind, piece |-> 0, dict |-> 0, body |-> len]

(* The requests a peer answers: the handshake, and pieces of the metadata. *)
Hello == -1

(* A unit is named by its message and its place in it; Heap by none. *)
Units == [msg : Messages, at : Nat]
Heap == [msg |-> Plain("other", 0), at |-> -1]

(* The handshake has no prefix, and is two units long. *)
Framed(m) == m.kind # "handshake"
LastUnit(m) == IF Framed(m) THEN Prefix + m.body - 1 ELSE 1

AtBorder(u) == u.at = 0
EndsMessage(chunk) == chunk[Len(chunk)].at = LastUnit(chunk[Len(chunk)].msg)

-----------------------------------------------------------------------------
Init ==
  /\ proc = "running"
  /\ pc = "connect"
  /\ sock_desc = FALSE
  /\ num_pieces = 0 /\ piece = 0
  /\ goal = "metadata"
  /\ length = 0 /\ pos = 0 /\ bytes_received = 0 /\ out = <<>>
  /\ metadata = <<>> /\ metadata_pos = 0
  /\ size \in Sizes
  /\ asked = {}
  /\ sent = {}
  /\ closed = FALSE
  /\ stream = <<>>
  /\ cut = FALSE

At(p) == proc = "running" /\ pc = p
Goto(p) == pc' = p /\ UNCHANGED <<proc, sock_desc, num_pieces, piece, goal, metadata, metadata_pos>>

(* A NULL access, SIGPIPE, or memory read where no message is. *)
Crash ==
  /\ proc' = "crashed"
  /\ UNCHANGED <<pc, sock_desc, num_pieces, piece, goal, metadata, metadata_pos>>

(* What socket->receive can return of n units: some of them in order ... *)
Got(k) ==
  /\ k <= Len(stream)
  /\ stream' = SubSeq(stream, k + 1, Len(stream))
First(k) == SubSeq(stream, 1, k)

(* ... -1 after the timeout, or 0. *)
Eof == closed /\ stream = <<>> /\ UNCHANGED stream
TimedOut == ~(closed /\ stream = <<>>) /\ UNCHANGED stream

(* What socket->send can do: the request reaches the peer, unless it closed.
   Then the send may still be accepted, fail, or raise SIGPIPE.             *)
Sends(request) == asked' = (IF closed THEN asked ELSE asked \cup request)
SendFails == closed /\ UNCHANGED asked

-----------------------------------------------------------------------------
(* Peer_handshake *)
Connect ==
  /\ At("connect")
  /\ \/ /\ pc' = "send_handshake"
        /\ sock_desc' = TRUE
     \/ /\ pc' = "get_piece"         \* refused: Socket_connect frees sock_desc
        /\ sock_desc' = FALSE
  /\ UNCHANGED <<proc, num_pieces, piece, goal, metadata, metadata_pos, receiver, remote, stream, cut>>

SendHandshake ==
  /\ At("send_handshake")
  /\ \/ Sends({Hello}) /\ Goto("handshake")
     \/ SendFails /\ (Goto("get_piece") \/ Crash)
  /\ UNCHANGED <<receiver, size, sent, closed, stream, cut>>

(* One recv, of anything.  Whether it failed makes no difference: the
   function returns EXIT_SUCCESS.                                         *)
ReceiveHandshake ==
  /\ At("handshake")
  /\ \/ \E k \in 1..Len(stream) : Got(k) /\ cut' = ~EndsMessage(First(k))
     \/ (Eof \/ TimedOut) /\ cut' = TRUE
  /\ Goto("send_extended")
  /\ UNCHANGED <<receiver, remote>>

-----------------------------------------------------------------------------
(* Peer_extended_handshake *)
SendExtended ==
  /\ At("send_extended")
  /\ \/ Sends({}) /\ Goto("extended")
     \/ SendFails /\ (Goto("get_piece") \/ Crash)
  /\ UNCHANGED <<receiver, size, sent, closed, stream, cut>>

(* strstr finds "metadata_size" in the message the chunk begins with; it never
   gets past the next length prefix, which holds a zero.                      *)
KeyFound(chunk) ==
  /\ size > 0
  /\ chunk[1].msg.kind = "extended"
  /\ \E i \in DOMAIN chunk : chunk[i].msg = chunk[1].msg /\ chunk[i].at >= Prefix

(* When the key is missing the position is computed from NULL: it is beyond
   the chunk, or somewhere outside of memory.                               *)
ReceiveExtended ==
  /\ At("extended")
  /\ \E k \in 1..Len(stream) :
       /\ Got(k)
       /\ cut' = (cut \/ ~EndsMessage(First(k)))
       /\ \/ /\ KeyFound(First(k))
             /\ num_pieces' = size \div PieceUnits
             /\ piece' = 0 /\ metadata_pos' = 0
             /\ pc' = "get_metadata"
             /\ UNCHANGED <<proc, sock_desc, goal, metadata>>
          \/ ~KeyFound(First(k)) /\ (Goto("get_piece") \/ Crash)
  /\ UNCHANGED <<receiver, remote>>

(* Variant: the result is looked at as little as that of the handshake. *)
UnansweredGoesOn == "get_metadata"

Unanswered == "get_piece"

ExtendedFails ==
  /\ At("extended")
  /\ Eof \/ TimedOut
  /\ Goto(Unanswered)
  /\ UNCHANGED <<receiver, remote, cut>>

-----------------------------------------------------------------------------
(* Peer_get_metadata *)
RequestMetadata ==
  /\ At("get_metadata")
  /\ piece < num_pieces
  /\ \/ /\ Sends({piece})
        /\ pc' = "header" /\ goal' = "metadata"
        /\ UNCHANGED <<proc, sock_desc, num_pieces, piece, metadata, metadata_pos>>
     \/ /\ SendFails                 \* the piece is passed over
        /\ piece' = piece + 1
        /\ UNCHANGED <<proc, pc, sock_desc, num_pieces, goal, metadata, metadata_pos>>
     \/ SendFails /\ Crash
  /\ UNCHANGED <<receiver, size, sent, closed, stream, cut>>

(* Variant: the array is as long as the metadata. *)
OneSize(n, pieces) == n

(* The size of meta_data, into which every response is copied. *)
Room(n, pieces) == n * pieces

(* meta_data is gone when Peer_get_metadata returns. *)
LeaveMetadata ==
  /\ pc' = "get_piece"
  /\ metadata' = <<>> /\ metadata_pos' = 0
  /\ UNCHANGED <<proc, sock_desc, num_pieces, piece, goal>>

(* Decoding what was copied; "files" is looked up without a check, so nothing
   copied, or a torrent of a single file, is a NULL access.                   *)
Decode ==
  /\ At("get_metadata")
  /\ piece >= num_pieces
  /\ \/ metadata # <<>> /\ LeaveMetadata
     \/ Crash
  /\ UNCHANGED <<receiver, remote, stream, cut>>

(* Peer_get_piece: called whatever happened before. *)
RequestPiece ==
  /\ At("get_piece")
  /\ IF sock_desc
     THEN \/ /\ Sends({})            \* a peer that chokes us does not answer
             /\ pc' = "header" /\ goal' = "piece"
             /\ UNCHANGED <<proc, sock_desc, num_pieces, piece, metadata, metadata_pos>>
          \/ SendFails /\ (Goto("ended") \/ Crash)
     ELSE Crash /\ UNCHANGED asked
  /\ UNCHANGED <<receiver, size, sent, closed, stream, cut>>

-----------------------------------------------------------------------------
(* Peer_Metadata_Packet_receive and Peer_Request_Piece_Packet_receive *)

(* What the two units just received read as: out was zeroed, the first half
   of a prefix is zero, anything else may have any value.                    *)
PrefixValues(chunk) ==
  IF chunk = <<>> THEN {0}
  ELSE IF ~(AtBorder(chunk[1]) /\ Framed(chunk[1].msg)) THEN 0..MaxLength
  ELSE IF Len(chunk) < Prefix THEN {0}
  ELSE {chunk[1].msg.body}

(* The prefix is read by one recv, whose result is not looked at. *)
ReceivePrefix ==
  /\ At("header")
  /\ \/ \E k \in 1..Prefix : /\ Got(k)
                             /\ length' \in PrefixValues(First(k))
                             /\ cut' = (cut \/ k < Prefix)
     \/ /\ Eof \/ TimedOut
        /\ length' \in PrefixValues(<<>>)
        /\ UNCHANGED cut
  /\ pos' = Prefix
  /\ bytes_received' = 0
  /\ out' = <<>>
  /\ Goto("body")
  /\ UNCHANGED remote

(* Such a length may also be larger than the buffer out. *)
Overruns ==
  /\ At("header")
  /\ stream # <<>>
  /\ ~(AtBorder(stream[1]) /\ Framed(stream[1].msg))
  /\ Crash
  /\ UNCHANGED <<receiver, remote, stream, cut>>

(* Variant: the two operands are compared as integers. *)
SignedLess(received, len) == received < len

(* bytes_received, an int, is converted to the uint32_t of length. *)
Less(received, len) == received % TwoTo32 < len

More == Less(bytes_received, length)

(* Variant: the loop asks for a whole message each time. *)
WholeLength == length

Missing == length - bytes_received

(* Variant: only bytes are counted. *)
CountsBytes(n) == IF n > 0 THEN n ELSE 0

(* What a receive that returned n adds to bytes_received and pos. *)
Counted(n) == n

(* The units go to &out[pos]; what a failed recv took back is overwritten. *)
ReceiveBody ==
  /\ At("body") /\ More
  /\ \E k \in 1..Missing :
       /\ Got(k)
       /\ out' = SubSeq(out, 1, pos - Prefix) \o First(k)
       /\ pos' = pos + Counted(k)
       /\ bytes_received' = bytes_received + Counted(k)
  /\ UNCHANGED <<session, length, remote, cut>>

(* -1 is added like any other count. *)
BodyTimesOut ==
  /\ At("body") /\ More
  /\ TimedOut
  /\ pos' = pos + Counted(-1)
  /\ bytes_received' = bytes_received + Counted(-1)
  /\ cut' = TRUE
  /\ UNCHANGED <<session, length, out, remote>>

(* So is 0: the loop never ends. *)
BodySpins ==
  /\ At("body") /\ More
  /\ Eof
  /\ UNCHANGED <<session, receiver, remote, cut>>

Received == bytes_received > 0

(* The locals are gone when the receive returns. *)
Returns == length' = 0 /\ pos' = 0 /\ bytes_received' = 0 /\ out' = <<>>

ReceiveFails ==
  /\ At("body") /\ ~More
  /\ ~Received
  /\ IF goal = "metadata" THEN LeaveMetadata ELSE Goto("ended")
  /\ Returns
  /\ UNCHANGED <<remote, stream, cut>>

(* The body of a message, as the peer sent it. *)
Body(m) == [i \in 1..m.body |-> [msg |-> m, at |-> Prefix + i - 1]]

(* What is behind the dictionary, as long as all of the body: what it lacks is
   what the heap holds.                                                       *)
Stripped(body, dict) ==
  SubSeq(body, dict + 1, Len(body)) \o [i \in 1..dict |-> Heap]

(* What was put together from several messages is not told apart. *)
Copied(body, dict) ==
  IF \E m \in sent : body = Body(m) THEN Stripped(body, dict) ELSE <<>>

(* Where the search for the end of a dictionary may stop. *)
DictionaryEnds(body) ==
  {d \in 1..Len(body) :
     \A m \in sent : m.kind = "metadata" /\ body = Body(m) => d = m.dict}

IsMetadata(body) == \E m \in sent : m.kind = "metadata" /\ body = Body(m)

(* response_len, by which the place in meta_data moves. *)
ResponseLength(len) == len

(* Peer_Metadata_Response_init and the copy to meta_data.  In anything but a
   metadata message there may be no end of a dictionary: a copy from nowhere. *)
AcceptMetadata ==
  /\ At("body") /\ ~More
  /\ Received /\ goal = "metadata"
  /\ \/ /\ \E dict \in DictionaryEnds(out) :
             metadata' = Append(metadata, Copied(out, dict))
        /\ metadata_pos' = metadata_pos + ResponseLength(length)
        /\ piece' = piece + 1
        /\ pc' = "get_metadata"
        /\ Returns
        /\ UNCHANGED <<proc, sock_desc, num_pieces, goal>>
     \/ ~IsMetadata(out) /\ Crash /\ UNCHANGED receiver
  /\ UNCHANGED <<remote, stream, cut>>

(* Nothing of a piece is kept. *)
AcceptPiece ==
  /\ At("body") /\ ~More
  /\ Received /\ goal = "piece"
  /\ Goto("ended")
  /\ Returns
  /\ UNCHANGED <<remote, stream, cut>>

-----------------------------------------------------------------------------
(* External: the peer, from the connection to the end of the session. *)
Connected == ~closed /\ proc = "running" /\ pc \notin {"connect", "ended"}

PeerSends(m) ==
  /\ Connected
  /\ sent' = sent \cup {m}
  /\ stream' = stream \o [i \in 1..(LastUnit(m) + 1) |-> [msg |-> m, at |-> i - 1]]
  /\ UNCHANGED <<session, receiver, size, closed, cut>>

Greeted == sent # {}
SentOf(kind) == {m \in sent : m.kind = kind}

PeerHandshake ==
  /\ Hello \in asked /\ ~Greeted
  /\ PeerSends(Plain("handshake", 0))
  /\ asked' = asked \ {Hello}

(* Sent as soon as the handshakes are exchanged. *)
PeerExtended ==
  /\ Greeted /\ SentOf("extended") = {}
  /\ PeerSends(Plain("extended", 1))
  /\ UNCHANGED asked

(* Units of payload in piece p; a dictionary goes before them. *)
PieceLength(p) == IF (p + 1) * PieceUnits <= size THEN PieceUnits ELSE size % PieceUnits

Answer(p, dict) ==
  [kind |-> "metadata", piece |-> p, dict |-> dict, body |-> dict + PieceLength(p)]

PeerMetadata ==
  /\ Greeted
  /\ \E p \in asked \ {Hello} :
       /\ \E dict \in 1..DictUnits : PeerSends(Answer(p, dict))
       /\ asked' = asked \ {p}

(* Keep-alives, which have no body, and bitfield, have, unchoke: as many as it
   likes, as long as no more than MaxOther are under way.                     *)
PeerOther ==
  /\ Greeted
  /\ Cardinality({i \in DOMAIN stream :
                    stream[i].msg.kind = "other" /\ AtBorder(stream[i])}) < MaxOther
  /\ \E len \in {0, 1} : PeerSends(Plain("other", len))
  /\ UNCHANGED asked

PeerCloses ==
  /\ Connected
  /\ closed' = TRUE
  /\ UNCHANGED <<session, receiver, size, asked, sent, stream, cut>>

-----------------------------------------------------------------------------
ClientStep ==
  \/ Connect \/ SendHandshake \/ ReceiveHandshake
  \/ SendExtended \/ ReceiveExtended \/ ExtendedFails
  \/ RequestMetadata \/ Decode \/ RequestPiece
  \/ ReceivePrefix \/ Overruns
  \/ ReceiveBody \/ BodyTimesOut \/ BodySpins
  \/ ReceiveFails \/ AcceptMetadata \/ AcceptPiece

RemoteStep ==
  \/ PeerHandshake \/ PeerExtended \/ PeerMetadata \/ PeerOther \/ PeerCloses

Next == ClientStep \/ RemoteStep

Spec == Init /\ [][Next]_vars

(* The client is always in a call that returns: SO_RCVTIMEO ends a recv, and
   SO_SNDTIMEO a send.  The peer owes it nothing.                           *)
FairSpec == Spec /\ WF_vars(ClientStep)

-----------------------------------------------------------------------------
(* Properties *)

Sessions == {"connect", "send_handshake", "handshake", "send_extended", "extended",
             "get_metadata", "get_piece", "header", "body", "ended"}

(* Every variable has its type; bytes_received gets down to -1 and no further. *)
TypeOK ==
  /\ proc \in {"running", "crashed"}
  /\ pc \in Sessions
  /\ sock_desc \in BOOLEAN
  /\ num_pieces \in Nat /\ piece \in Nat
  /\ goal \in {"metadata", "piece"}
  /\ length \in Nat
  /\ pos \in Nat
  /\ bytes_received \in Nat \cup {-1}
  /\ out \in Seq(Units)
  /\ metadata \in Seq(Seq(Units \cup {Heap})) /\ metadata_pos \in Nat
  /\ size \in Sizes
  /\ asked \subseteq Nat \cup {Hello}
  /\ sent \subseteq Messages
  /\ closed \in BOOLEAN
  /\ stream \in Seq(Units)
  /\ cut \in BOOLEAN

(* The loop writes only to the part of out the length stands for, after the
   prefix and up to its end, although a failed recv moves pos back: once pos
   would be inside the prefix the conversion to uint32_t ends the loop.      *)
ReadsInBounds ==
  pc = "body" /\ More =>
    /\ bytes_received >= 0
    /\ pos = Prefix + bytes_received
    /\ pos + Missing = Prefix + length

(* However TCP cuts the stream: as long as no recv failed inside a message and
   none of the two unframed receives ended in one, the client is between two
   messages whenever it starts to read, in the loop it has the first units of
   one message, and what it copied as metadata is the body of one message
   behind its dictionary, all of it and nothing but that, and then heap.      *)
FramingKept ==
  ~cut =>
    /\ pc # "body" /\ stream # <<>> => AtBorder(stream[1])
    /\ pc = "body" /\ length > 0 =>
         \E m \in sent :
           /\ length = m.body /\ bytes_received <= length
           /\ out = SubSeq(Body(m), 1, bytes_received)
           /\ bytes_received < length /\ stream # <<>> =>
                stream[1] = Body(m)[bytes_received + 1]
    /\ \A i \in DOMAIN metadata :
         \E m \in sent : \E dict \in 1..m.body :
           /\ metadata[i] = Stripped(Body(m), dict)
           /\ m.kind = "metadata" => dict = m.dict

(* The least metadata of a single piece for which meta_data has the room. *)
LeastOfOne == PieceUnits + DictUnits + 2

(* Every message copied to meta_data brings the dictionary before its payload,
   which the size of that array does not count (peer.c:195), and one past its
   end is cleared (peer.c:223): it fits all the same, since the last, shorter
   piece is never asked for, unless that piece is the second and shorter than a
   dictionary; as long as no recv failed inside a message.                     *)
MetadataFits ==
  ~cut /\ num_pieces > 0 /\ (num_pieces = 1 => size >= LeastOfOne) =>
    metadata_pos + 1 < Room(size, num_pieces)

(* Before the metadata is decoded every piece of it was asked for, if the peer
   has not closed: "request each piece of metadata", of which there are
   ceil(metadata_size / 16 kB) (testing/handshake/simMetadata.py:131-134).      *)
EveryPieceAsked ==
  At("get_metadata") /\ piece >= num_pieces /\ ~closed =>
    (Cardinality(asked \ {Hello}) + Cardinality(SentOf("metadata"))) * PieceUnits >= size

(* A peer that accepts the connection and then says nothing, but stays, does
   not bring the client down: it takes a refusal, a close or an answer.       *)
SilenceIsHarmless == proc = "crashed" => ~sock_desc \/ closed \/ Greeted

(* A session that does not end stays in the loop that receives one message, and
   there the peer has closed, so that 0 is added for ever, or it goes on sending
   (keep-alives do), so that what the timeouts take back is made up for
   (peer_metadata_packet.c:204-208).                                            *)
Speaks == Len(stream') > Len(stream)
SessionEnds ==
  \/ <>(pc = "ended" \/ proc = "crashed")
  \/ <>[](pc = "body" /\ closed)
  \/ <>[](pc = "body") /\ []<><<Speaks>>_stream
=============================================================================
