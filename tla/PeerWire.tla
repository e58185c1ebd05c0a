------------------------------ MODULE PeerWire ------------------------------
(***************************************************************************)
(* The messages a session sends to a peer, as src/peer/packets writes them *)
(* into their byte arrays, how the peer finds them again in the stream of  *)
(* bytes, and what the client takes the peer's extended handshake for,     *)
(* which decides what it sends next.  What else comes back, and the ends   *)
(* of a session, are the subject of Peer.                                  *)
(***************************************************************************)
EXTENDS ByteOrder, ExtendedHandshake

CONSTANTS
  InfoHash,   \* 20 bytes
  Texts,      \* bencoded texts of extended handshakes
  Stacks,     \* what may lie behind the received part, each up to a NUL
  MaxPieces   \* bound: how many requests of a session are followed, up to 99

ASSUME PeerWireAssumption ==
  /\ InfoHash \in Word(20)
  /\ MaxPieces \in 0..99
  /\ Stacks \subseteq Seq(Nat) /\ \A s \in Stacks : s # <<>> /\ s[Len(s)] = NUL
  /\ Texts \subseteq Seq(Nat)
  /\ \A t \in Texts : \A j, k \in DOMAIN t :
       /\ t[j] # NUL
       \* no key occurs twice
       /\ t[j] = t[k] /\ t[j] \in {metadata_sizei, ut_metadatai} => j = k

VARIABLES
  pc,           \* the message that is sent next
  answer,       \* history: the extended handshake that was just read
  metadata_size, ut_metadata, num_pieces,
  piece,        \* the loop of Peer_get_metadata
  stream,       \* bytes sent and not yet read
  greeted,      \* peer: it has read the handshake
  said,         \* history: what the client means by its messages
  heard         \* peer: the messages it has read

numbers == <<metadata_size, ut_metadata, num_pieces>>

vars == <<host, pc, answer, numbers, piece, stream, greeted, said, heard>>

-----------------------------------------------------------------------------
(* Text whose letters do not matter. *)
Text(n) == [j \in 1..n |-> 120]

(* "%i" *)
Decimal(n) == IF n < 10 THEN <<48 + n>> ELSE <<48 + (n \div 10), 48 + (n % 10)>>

(* pstrlen and pstr, eight reserved bytes, the hash and the id of the client. *)
HandshakeBytes ==
  <<19>> \o Text(19) \o [j \in 1..8 |-> IF j = 6 THEN 16 ELSE 0] \o InfoHash \o Text(20)

ExtendedText == Text(22) \o <<Letter_e, Letter_e>>    \* d1:md11:ut_metadatai1eee

RequestText(p) == Text(22) \o Decimal(p) \o <<Letter_e, Letter_e>>

(* Variant: the two bytes before the text are not counted. *)
LengthOfText(id, text) ==
  InMemory(htonl_util(Int32(Len(text)))) \o <<20, id % 256>> \o text

(* The length of the text and of the two bytes before it; these; the text. *)
ExtensionMessage(id, text) ==
  InMemory(htonl_util(Int32(Len(text) + 2))) \o <<20, id % 256>> \o text

(* The length of the block is not converted. *)
PieceBytes ==
  InMemory(htonl_util(Int32(13))) \o <<6>> \o InMemory(Zeros(4)) \o InMemory(Zeros(4))
    \o InMemory(Int32(32))

(* The array bytes is sent, of which this is the size. *)
ArraySize(size) == size

Sends(bytes, size) == stream' = stream \o SubSeq(bytes, 1, ArraySize(size))

-----------------------------------------------------------------------------
Init ==
  /\ host \in {"little", "big"}
  /\ pc = "handshake"
  /\ answer = <<>>
  /\ metadata_size = 0 /\ ut_metadata = 0 /\ num_pieces = 0
  /\ piece = 0
  /\ stream = <<>>
  /\ greeted = FALSE
  /\ said = <<>> /\ heard = <<>>

SendHandshake ==
  /\ pc = "handshake"
  /\ Sends(HandshakeBytes, 68)
  /\ pc' = "extended"
  /\ UNCHANGED <<host, answer, numbers, piece, greeted, said, heard>>

SendExtended ==
  /\ pc = "extended"
  /\ Sends(ExtensionMessage(0, ExtendedText), 30)
  /\ said' = Append(said, <<20, 0>> \o ExtendedText)
  /\ pc' = "extended_sent"
  /\ UNCHANGED <<host, answer, numbers, piece, greeted, heard>>

(* What one recv brings of the peer's answer to the handshake. *)
Answers ==
  UNION {{[text |-> t, behind |-> s, res_size |-> n] : n \in (Skipped + 1)..(Skipped + Len(t))} :
           t \in Texts, s \in Stacks}

(* Peer_extended_handshake keeps the numbers if there is a size. *)
ReceiveExtended ==
  /\ pc = "extended_sent" /\ greeted
  /\ \E r \in Answers :
       /\ answer' = r
       /\ \E size \in NumbersUnder(r, metadata_sizei), ut \in NumbersUnder(r, ut_metadatai) :
            IF size # 0
            THEN /\ metadata_size' = size /\ ut_metadata' = ut
                 /\ num_pieces' = Pieces(size)
            ELSE UNCHANGED numbers
  /\ pc' = "extended_read"
  /\ UNCHANGED <<host, piece, stream, greeted, said, heard>>

(* strstr found nothing. *)
ReadsNoKey ==
  /\ pc = "extended_sent" /\ greeted
  /\ \E r \in Answers : MayCrash(r) /\ answer' = r
  /\ pc' = "crashed"
  /\ UNCHANGED <<host, numbers, piece, stream, greeted, said, heard>>

(* Without a size there is nothing to ask for but the block. *)
GetMetadata ==
  /\ pc = "extended_read"
  /\ pc' = IF metadata_size # 0 THEN "metadata" ELSE "piece"
  /\ answer' = <<>>
  /\ UNCHANGED <<host, numbers, piece, stream, greeted, said, heard>>

RequestMetadata ==
  /\ pc = "metadata" /\ piece < num_pieces /\ piece < MaxPieces
  /\ Sends(ExtensionMessage(ut_metadata, RequestText(piece)), 31)
  /\ said' = Append(said, <<20, ut_metadata % 256>> \o RequestText(piece))
  /\ piece' = piece + 1
  /\ UNCHANGED <<host, pc, answer, numbers, greeted, heard>>

RequestPiece ==
  /\ \/ pc = "metadata" /\ piece >= num_pieces
     \/ pc = "piece"
  /\ Sends(PieceBytes, 17)
  /\ said' = Append(said, <<6>> \o Zeros(4) \o Zeros(4) \o Int32(32))
  /\ pc' = "ended"
  /\ UNCHANGED <<host, answer, numbers, piece, greeted, heard>>

-----------------------------------------------------------------------------
(* External: the peer reads a handshake of 68 bytes, then one message after
   the other by its length; a long one is not worth waiting for.             *)
PeerGreeted ==
  /\ ~greeted /\ Len(stream) >= 68
  /\ greeted' = TRUE
  /\ stream' = SubSeq(stream, 69, Len(stream))
  /\ UNCHANGED <<host, pc, answer, numbers, piece, said, heard>>

NextLength == stream[3] * 256 + stream[4]

MessageWaits ==
  /\ greeted /\ Len(stream) >= 4
  /\ stream[1] = 0 /\ stream[2] = 0
  /\ Len(stream) >= 4 + NextLength

PeerReads ==
  /\ MessageWaits
  /\ heard' = Append(heard, SubSeq(stream, 5, 4 + NextLength))
  /\ stream' = SubSeq(stream, 5 + NextLength, Len(stream))
  /\ UNCHANGED <<host, pc, answer, numbers, piece, greeted, said>>

Next ==
  \/ SendHandshake \/ SendExtended
  \/ ReceiveExtended \/ ReadsNoKey \/ GetMetadata
  \/ RequestMetadata \/ RequestPiece
  \/ PeerGreeted \/ PeerReads

Spec == Init /\ [][Next]_vars

-----------------------------------------------------------------------------
(* Properties *)

(* Every variable has its type; the stream is one of bytes. *)
TypeOK ==
  /\ host \in {"little", "big"}
  /\ pc \in {"handshake", "extended", "extended_sent", "extended_read", "metadata",
             "piece", "ended", "crashed"}
  /\ {metadata_size, ut_metadata, num_pieces} \subseteq Int
  /\ piece > 0 => piece \in 1..num_pieces
  /\ stream \in Seq(Byte)
  /\ greeted => pc # "handshake"

(* The message after n requests fits its array of 31 bytes up to request 9. *)
Short == piece <= 10

(* With at most ten pieces of metadata the peer never loses the borders of the
   messages: whenever none is complete, nothing is left over.                  *)
FramesLineUp ==
  Short /\ greeted /\ ~MessageWaits => stream = <<>> /\ Len(heard) = Len(said)

(* The block a peer is asked for is as long as the client means it only where
   memory has the order of the network (peer_request_piece_packet.c:40, 56).   *)
AsSent(message) ==
  IF message[1] = 6 THEN SubSeq(message, 1, 9) \o InMemory(SubSeq(message, 10, 13))
  ELSE message

(* With at most ten pieces the peer hears every message as the client means it,
   from a host of either byte order, but for the length of the block; nothing
   of it is lost or added.                                                      *)
HeardAsSaid ==
  /\ Short => /\ Len(heard) <= Len(said)
              /\ \A n \in DOMAIN heard : heard[n] = AsSent(said[n])
  /\ FramesLineUp

(* Both numbers are taken as the peer has said them, in whatever order they
   come, whatever is around them, and whatever lies behind a message that was
   cut off after them; then looking for them does not end the process.  A peer
   that offers no metadata is asked for none, whatever was received before it
   on the same stack, unless the key lies right behind the message
   (peer_extended_handshake_packet.c:92-153, peer.c:147-188).                  *)
NumbersAsSaid ==
  answer # <<>> =>
    /\ \A size \in SaidUnder(answer, metadata_sizei), ut \in SaidUnder(answer, ut_metadatai) :
         /\ pc = "extended_read"
         /\ size # 0 => /\ metadata_size = size /\ ut_metadata = ut
                        /\ num_pieces = size \div 16384
         /\ size = 0 => metadata_size = 0
    /\ (/\ \A j \in DOMAIN Received(answer) : Received(answer)[j] # metadata_sizei
        /\ \A j \in DOMAIN answer.behind : j <= Skipped => answer.behind[j] # metadata_sizei)
       => metadata_size = 0
=============================================================================
