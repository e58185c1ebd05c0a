-------------------------------- MODULE Wire --------------------------------
(***************************************************************************)
(* What the datagrams of the tracker protocol look like: the requests that *)
(* src/tracker/packets writes into their byte arrays, what it reads out of *)
(* an answer, and how Tracker_announce takes the info hash out of the link *)
(* (src/tracker/tracker.c), on a client of either byte order.  Loss and    *)
(* retries are the subject of Tracker; here every datagram arrives.        *)
(*                                                                         *)
(* A tracker reads and writes words with the most significant byte first.  *)
(***************************************************************************)
EXTENDS ByteOrder, StringUtils

CONSTANTS
  Tids,          \* transaction ids: words of 4 bytes
  ConnectionIds, \* what trackers issue: words of 8 bytes
  Hashes,        \* hashes as links give them: [chars, means], see SaysWhatItMeans
  Behind,        \* characters the heap may hold behind the end of a string
  PeerLists,     \* what trackers announce: sequences of [ip, port]
  Messages,      \* what they say when they refuse: sequences of bytes
  Stale,         \* bytes that may lie in a buffer nobody has written to
  BufSize        \* 2048: size of the buffer datagrams are received into

Peer == [ip : Word(4), port : Word(2)]

peer_size == 6

(* A hash means bytes, each written as two digits in the part behind the second
   colon; what may follow them there is not said.                             *)
SaysWhatItMeans(h) ==
  LET parts == string_split(h.chars)
  IN /\ h.means \in Seq(Byte) /\ Len(h.means) <= 20
     /\ Len(parts) >= 3 =>
          /\ 2 * Len(h.means) <= Len(parts[3])
          /\ \A n \in DOMAIN h.means :
               LET c == parts[3][2 * n - 1]
                   d == parts[3][2 * n]
               IN /\ isxdigit(c) /\ isxdigit(d)
                  /\ h.means[n] = 16 * from_hex(c) + from_hex(d)

ASSUME WireAssumption ==
  /\ Tids \subseteq Word(4) /\ ConnectionIds \subseteq Word(8)
  /\ Behind \subseteq Nat /\ Stale \subseteq Byte
  /\ \A h \in Hashes : SaysWhatItMeans(h)
  /\ PeerLists \subseteq Seq(Peer) /\ Messages \subseteq Seq(Byte)
  /\ BufSize \in Nat /\ BufSize >= 20 /\ (BufSize - 20) % peer_size = 0

VARIABLES
  pc,            \* how far the exchange is
  hash,          \* torrent->hash, and what it means
  tid,           \* this->last_transaction_id
  connected, connection_id,
  issued,        \* the id the tracker has issued
  said,          \* the tracker's last answer: a list of peers, or a refusal
  datagram,      \* the bytes under way
  out, res_size, \* the buffer a datagram was received into and its size
  peer_position,
  peers,         \* response->peers: whom a session is started with
  reach          \* history: how much of out was read

vars == <<host, pc, hash, tid, connected, connection_id, issued, said, datagram,
          out, res_size, peer_position, peers, reach>>

-----------------------------------------------------------------------------
ProtocolId == <<0, 0, 4, 23, 39, 16, 25, 128>>    \* 0x41727101980
PeerId == [j \in 1..20 |-> IF j = 1 THEN 85 ELSE 48]   \* "UVG01234567891234567"

(* The transaction id is sent as it lies in memory. *)
ConnectBytes(t) ==
  InMemory(htonll_util(ProtocolId)) \o InMemory(htonl_util(Int32(0))) \o InMemory(t)

AnnounceHead(t, info_hash_bytes) ==
  InMemory(htonll_util(connection_id)) \o InMemory(htonl_util(Int32(1))) \o InMemory(t)
    \o info_hash_bytes \o PeerId

(* downloaded, left and uploaded; event, ip, key and num_want. *)
AnnounceCounts ==
  InMemory(htonll_util(Zeros(8))) \o InMemory(htonll_util(Zeros(8)))
    \o InMemory(htonll_util(Zeros(8)))
    \o InMemory(htonl_util(Int32(2))) \o InMemory(htonl_util(Int32(0)))
    \o InMemory(htonl_util(Int32(1))) \o InMemory(htonl_util(Int32(1)))

(* ..., port and extensions. *)
AnnounceBytes(t, info_hash_bytes) ==
  AnnounceHead(t, info_hash_bytes) \o AnnounceCounts
    \o InMemory(htonl_util(Zeros(2))) \o InMemory(htonl_util(Zeros(2)))

-----------------------------------------------------------------------------
Init ==
  /\ host \in {"little", "big"}
  /\ pc = "start"
  /\ hash \in Hashes
  /\ tid = Zeros(4)
  /\ connected = 0 /\ connection_id = Zeros(8)
  /\ issued = Zeros(8)
  /\ said = [ok |-> FALSE, peers |-> <<>>]
  /\ datagram = <<>>
  /\ out = <<>> /\ res_size = 0
  /\ peer_position = 0 /\ peers = <<>>
  /\ reach = 0

SendConnect ==
  /\ pc = "start"
  /\ tid' \in Tids
  /\ datagram' = ConnectBytes(tid')
  /\ pc' = "connect"
  /\ UNCHANGED <<host, hash, connected, connection_id, issued, said, out, res_size,
                 peer_position, peers, reach>>

(* The word of n bytes behind position p of a datagram. *)
At(bytes, p, n) == SubSeq(bytes, p + 1, p + n)

Refusal(t) == \E text \in Messages : datagram' = Int32(3) \o t \o text

(* The tracker issues an id, or refuses; it gives the transaction id back. *)
TrackerConnect ==
  /\ pc = "connect"
  /\ \/ /\ issued' \in ConnectionIds
        /\ datagram' = Int32(0) \o At(datagram, 12, 4) \o issued'
        /\ said' = [ok |-> TRUE, peers |-> <<>>]
     \/ /\ Refusal(At(datagram, 12, 4))
        /\ said' = [ok |-> FALSE, peers |-> <<>>]
        /\ UNCHANGED issued
  /\ pc' = "connect_answer"
  /\ UNCHANGED <<host, hash, tid, connected, connection_id, out, res_size, peer_position,
                 peers, reach>>

(* recvfrom: a datagram that is too large is cut, what lies in the buffer
   behind a shorter one stays.                                              *)
Received ==
  \E b \in Stale :
    /\ out' = [j \in 1..BufSize |-> IF j \in DOMAIN datagram THEN datagram[j] ELSE b]
    /\ res_size' = IF Len(datagram) < BufSize THEN Len(datagram) ELSE BufSize

Loaded(buffer, p, n) == InMemory(At(buffer, p, n))

(* Variant: any answer to the request will do. *)
TidMatches(buffer, action) == tid = Loaded(buffer, 4, 4)

Accepts(buffer, action) ==
  htonl_util(Loaded(buffer, 0, 4)) = Int32(action) /\ tid = Loaded(buffer, 4, 4)

(* The size of the answer is not looked at. *)
ReceiveConnect ==
  /\ pc = "connect_answer"
  /\ Received
  /\ reach' = 16
  /\ IF Accepts(out', 0)
     THEN /\ connected' = 1
          /\ connection_id' = ntohll_util(Loaded(out', 8, 8))
          /\ pc' = "announcing"
     ELSE /\ pc' = "refused"
          /\ UNCHANGED <<connected, connection_id>>
  /\ UNCHANGED <<host, hash, tid, issued, said, datagram, peer_position, peers>>

info_hash_list == string_split(hash.chars)

pos(count) == 2 * count

(* A character of the part; behind it a NUL, and then what the heap holds. *)
CharAt(part, p, heap) ==
  IF p < Len(part) THEN part[p + 1] ELSE IF p = Len(part) THEN NUL ELSE heap

(* sscanf "%2hhx": two digits, or the one before another character, or nothing
   at all: then the byte stays as it is.  No part has a blank, a sign or an x. *)
Scanned(c, d, byte) ==
  IF ~isxdigit(c) THEN byte
  ELSE IF ~isxdigit(d) THEN from_hex(c)
  ELSE 16 * from_hex(c) + from_hex(d)

(* info_hash_bytes, on a stack that held the byte stack everywhere. *)
InfoHashBytes(part, heap, stack) ==
  [n \in 1..20 |-> Scanned(CharAt(part, pos(n - 1), heap),
                           CharAt(part, pos(n - 1) + 1, heap), stack)]

SendAnnounce ==
  /\ pc = "announcing"
  /\ Len(info_hash_list) >= 3
  /\ tid' \in Tids
  /\ \E heap \in Behind, stack \in Stale :
       datagram' = AnnounceBytes(tid', InfoHashBytes(info_hash_list[3], heap, stack))
  /\ pc' = "announce"
  /\ UNCHANGED <<host, hash, connected, connection_id, issued, said, out, res_size,
                 peer_position, peers, reach>>

(* list->get(2) lets its length pass for a position, and walks off its end
   (see Linkedlist); of a list of one it gives NULL, which sscanf reads.     *)
NoThirdPart ==
  /\ pc = "announcing"
  /\ Len(info_hash_list) < 3
  /\ pc' = "crashed"
  /\ UNCHANGED <<host, hash, tid, connected, connection_id, issued, said, datagram,
                 out, res_size, peer_position, peers, reach>>

(* Address and port of one peer after the other. *)
ListBytes(list) ==
  [m \in 1..(peer_size * Len(list)) |->
     LET p == list[(m - 1) \div peer_size + 1]
     IN (p.ip \o p.port)[((m - 1) % peer_size) + 1]]

(* Behind the interval and the numbers of leechers and seeders, six bytes for
   each peer; or a refusal.                                                   *)
TrackerAnnounce ==
  /\ pc = "announce"
  /\ \/ \E list \in PeerLists :
          /\ datagram' = Int32(1) \o At(datagram, 12, 4) \o Int32(60) \o Int32(0) \o Int32(1)
                           \o ListBytes(list)
          /\ said' = [ok |-> TRUE, peers |-> list]
     \/ /\ Refusal(At(datagram, 12, 4))
        /\ said' = [ok |-> FALSE, peers |-> <<>>]
  /\ pc' = "announce_answer"
  /\ UNCHANGED <<host, hash, tid, connected, connection_id, issued, out, res_size,
                 peer_position, peers, reach>>

-----------------------------------------------------------------------------
(* Tracker_Announce_Response_init; action, transaction_id, interval, leechers
   and seeders are read whatever the size.                                    *)
ReceiveAnnounce ==
  /\ pc = "announce_answer"
  /\ Received
  /\ reach' = 20
  /\ peer_position' = 0
  /\ pc' = "peers"
  /\ UNCHANGED <<host, hash, tid, connected, connection_id, issued, said, datagram, peers>>

MorePeers == 20 + peer_position < res_size

Ip == htonl_util(Loaded(out, 20 + peer_position, 4))

(* 127.0.0.1:51413: the peer that is made of every one that is read. *)
LocalPeer == [ip |-> <<127, 0, 0, 1>>, port |-> <<200, 213>>]

ReadsPeer ==
  /\ pc = "peers" /\ MorePeers
  /\ reach' = 26 + peer_position
  /\ UNCHANGED <<host, hash, tid, connected, connection_id, issued, said, datagram, out, res_size>>

(* The address and the port are read, and not used but for this test. *)
AppendPeer ==
  /\ ReadsPeer
  /\ Ip # Zeros(4)
  /\ peers' = Append(peers, LocalPeer)
  /\ peer_position' = peer_position + peer_size
  /\ UNCHANGED pc

(* An address 0.0.0.0 ends the list. *)
NoAddress ==
  /\ ReadsPeer
  /\ Ip = Zeros(4)
  /\ pc' = "read"
  /\ UNCHANGED <<peer_position, peers>>

PeersEnd ==
  /\ pc = "peers" /\ ~MorePeers
  /\ pc' = "read"
  /\ UNCHANGED <<host, hash, tid, connected, connection_id, issued, said, datagram, out,
                 res_size, peer_position, peers, reach>>

(* Tracker_announce looks at the action when the peers have been read; a
   refusal's are destroyed.                                                  *)
AcceptAnnounce ==
  /\ pc = "read"
  /\ pc' = IF Accepts(out, 1) THEN "sessions" ELSE "refused"
  /\ peers' = IF Accepts(out, 1) THEN peers ELSE <<>>
  /\ UNCHANGED <<host, hash, tid, connected, connection_id, issued, said, datagram, out,
                 res_size, peer_position, reach>>

-----------------------------------------------------------------------------
Next ==
  \/ SendConnect \/ TrackerConnect \/ ReceiveConnect
  \/ SendAnnounce \/ NoThirdPart \/ TrackerAnnounce \/ ReceiveAnnounce
  \/ AppendPeer \/ NoAddress \/ PeersEnd \/ AcceptAnnounce

Spec == Init /\ [][Next]_vars

-----------------------------------------------------------------------------
(* Properties *)

(* Every variable has its type; a request fills the array it is sent from, of
   16 and 100 bytes (tracker_connect_packet.h, tracker_announce_packet.h).    *)
TypeOK ==
  /\ host \in {"little", "big"}
  /\ pc \in {"start", "connect", "connect_answer", "announcing", "announce",
             "announce_answer", "peers", "read", "sessions", "refused", "crashed"}
  /\ tid \in Word(4) /\ connection_id \in Word(8) /\ issued \in Word(8)
  /\ \A j \in DOMAIN datagram : datagram[j] \in Byte
  /\ pc = "connect" => Len(datagram) = 16
  /\ pc = "announce" => Len(datagram) = 100

(* On a host of either byte order, a tracker reads in a request what the
   client means by it: the protocol's id and a connect, or the id it has
   issued itself, an announce, the hash of the link as far as it is written in
   pairs of digits, small or capital, of whatever parts stand around it
   (tracker.c:217-227), and that it starts and wants one peer.               *)
RequestsAreRead ==
  /\ pc = "connect" => /\ At(datagram, 0, 8) = ProtocolId
                       /\ At(datagram, 8, 4) = Int32(0)
  /\ pc = "announce" => /\ At(datagram, 0, 8) = issued
                        /\ At(datagram, 8, 4) = Int32(1)
                        /\ At(datagram, 16, Len(hash.means)) = hash.means
                        /\ At(datagram, 80, 4) = Int32(2)
                        /\ At(datagram, 92, 4) = Int32(1)

(* The client holds the very id the tracker has issued, and gets it only from
   an answer that is not a refusal: what lies behind a short answer is never
   taken for one.                                                            *)
IssuedIdIsHeld == connected = 1 => connection_id = issued /\ (pc = "announcing" => said.ok)

(* An answer is refused if and only if the tracker has refused. *)
RefusedByTracker ==
  /\ pc = "refused" => ~said.ok /\ peers = <<>>
  /\ pc = "sessions" => said.ok

NoIp(p) == p.ip = Zeros(4)

(* The peers of a list up to one without an address. *)
Named(list) ==
  LET none == {j \in DOMAIN list : NoIp(list[j])}
  IN IF none = {} THEN list
     ELSE SubSeq(list, 1, (CHOOSE j \in none : \A k \in none : j <= k) - 1)

(* One peer for each of a list, and it is always the same. *)
OneEach(list) == [j \in DOMAIN list |-> LocalPeer]

(* One session is started for each peer the tracker has named, up to one
   without an address, and none for anything else that lies in the buffer; of
   more peers than the buffer holds, for those that it holds.  Every one of
   them is with 127.0.0.1:51413 (tracker_announce_packet.c:212).             *)
SessionForEachNamed ==
  pc = "sessions" =>
    LET room == (BufSize - 20) \div 6
        list == IF Len(said.peers) > room THEN SubSeq(said.peers, 1, room) ELSE said.peers
    IN peers = OneEach(Named(list))

(* Of a list of peers nothing behind the datagram is read; this needs that what
   fits the buffer behind the header is a whole number of peers.               *)
ListsReadInside == pc \in {"peers", "read", "sessions"} /\ said.ok => reach <= res_size

(* What the client makes of an answer is what the tracker meant by it, with a
   transaction id that is never converted and a refusal of any length, but for
   the addresses of the peers (tracker_connect_packet.c:102, tracker_announce_packet.c:163-217,
   tracker.c:155, 241).                                                        *)
AnswersAsMeant ==
  IssuedIdIsHeld /\ RefusedByTracker /\ SessionForEachNamed /\ ListsReadInside
=============================================================================
