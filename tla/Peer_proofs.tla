---------------------------- MODULE Peer_proofs ----------------------------
(***************************************************************************)
(* Proofs about a session with a peer, for any sizes of metadata, any      *)
(* number of messages nobody asked for, and any way TCP cuts the stream.   *)
(***************************************************************************)
EXTENDS Peer, TLAPS

-----------------------------------------------------------------------------
(* Integers and sequences *)

LEMMA Modulus ==
  ASSUME NEW N \in Nat, N > 1
  PROVE  (-1) % N = N - 1 /\ \A x \in 0..(N - 1) : x % N = x
<1>1. (-1) % N = N - 1
  OBVIOUS
<1>2. \A x \in 0..(N - 1) : x % N = x
  OBVIOUS
<1> QED
  BY <1>1, <1>2

(* What is left of a stream of which k units were received. *)
LEMMA Drop ==
  ASSUME NEW S, NEW s \in Seq(S), NEW k \in 0..Len(s)
  PROVE  /\ SubSeq(s, k + 1, Len(s)) \in Seq(S)
         /\ Len(SubSeq(s, k + 1, Len(s))) = Len(s) - k
         /\ \A i \in 1..(Len(s) - k) : SubSeq(s, k + 1, Len(s))[i] = s[k + i]
OBVIOUS

(* The first k units of it. *)
LEMMA Take ==
  ASSUME NEW S, NEW s \in Seq(S), NEW k \in 0..Len(s)
  PROVE  /\ SubSeq(s, 1, k) \in Seq(S)
         /\ Len(SubSeq(s, 1, k)) = k
         /\ \A i \in 1..k : SubSeq(s, 1, k)[i] = s[i]
OBVIOUS

LEMMA Joined ==
  ASSUME NEW S, NEW s \in Seq(S), NEW t \in Seq(S)
  PROVE  /\ s \o t \in Seq(S) /\ Len(s \o t) = Len(s) + Len(t)
         /\ \A i \in 1..Len(s) : (s \o t)[i] = s[i]
         /\ \A i \in 1..Len(t) : (s \o t)[Len(s) + i] = t[i]
OBVIOUS

LEMMA SameUnits ==
  ASSUME NEW S, NEW s \in Seq(S), NEW t \in Seq(S), Len(s) = Len(t),
         \A i \in 1..Len(s) : s[i] = t[i]
  PROVE  s = t
OBVIOUS

-----------------------------------------------------------------------------
(* Types, and the counters of the receive loop.  bytes_received gets down to -1
   only at the start of a message, where the conversion to uint32_t ends the
   loop; in between, pos and what is in out follow it.                         *)
CountInv ==
  /\ \A m \in sent : m.body <= PieceUnits + DictUnits
  /\ \A i \in DOMAIN stream : stream[i].msg \in sent
  /\ pc = "body" => /\ length + 1 < TwoTo32
                    /\ pos = Prefix + bytes_received
                    /\ bytes_received <= length
                    /\ bytes_received <= Len(out)

LEMMA MoreIsLess ==
  ASSUME TypeOK, CountInv, pc = "body"
  PROVE  More <=> bytes_received >= 0 /\ bytes_received < length
<1>1. TwoTo32 \in Nat /\ TwoTo32 > 1
  BY PeerAssumption
<1>2. /\ length \in Nat /\ length + 1 < TwoTo32
      /\ bytes_received \in Nat \cup {-1} /\ bytes_received <= length
  BY DEF TypeOK, CountInv
<1>3. More <=> bytes_received % TwoTo32 < length
  BY DEF More, Less
<1>4. CASE bytes_received = -1
  <2>1. bytes_received % TwoTo32 = TwoTo32 - 1
    BY <1>1, <1>4, Modulus, Zenon
  <2> QED
    BY <1>1, <1>2, <1>3, <1>4, <2>1
<1>5. CASE bytes_received \in Nat
  <2>1. bytes_received \in 0..(TwoTo32 - 1)
    BY <1>1, <1>2, <1>5
  <2>2. bytes_received % TwoTo32 = bytes_received
    BY <1>1, <2>1, Modulus
  <2> QED
    BY <1>2, <1>3, <1>5, <2>2
<1> QED
  BY <1>2, <1>4, <1>5

LEMMA NoUnits == /\ <<>> \in Seq(Units) /\ <<>> \in Seq(Seq(Units \cup {Heap}))
                 /\ <<>> \in Seq(Units \cup {Heap}) /\ DOMAIN <<>> = {}
OBVIOUS

LEMMA TypeInit == Init => TypeOK /\ CountInv
<1> SUFFICES ASSUME Init
             PROVE  TypeOK /\ CountInv
  OBVIOUS
<1>1. /\ out \in Seq(Units) /\ stream \in Seq(Units) /\ sent = {}
      /\ metadata \in Seq(Seq(Units \cup {Heap})) /\ DOMAIN stream = {}
  BY NoUnits, Zenon DEF Init
<1> QED
  BY <1>1 DEF Init, TypeOK, CountInv, Sessions

(* What a recv leaves of the stream. *)
LEMMA GotEffect ==
  ASSUME TypeOK, NEW k \in Nat \ {0}, Got(k)
  PROVE  /\ k \in 1..Len(stream)
         /\ stream' \in Seq(Units) /\ Len(stream') = Len(stream) - k
         /\ \A i \in DOMAIN stream' : k + i \in DOMAIN stream /\ stream'[i] = stream[k + i]
         /\ First(k) \in Seq(Units) /\ Len(First(k)) = k
         /\ \A i \in 1..k : First(k)[i] = stream[i]
<1>1. k \in 0..Len(stream) /\ stream \in Seq(Units)
  BY DEF Got, TypeOK
<1>2. stream' = SubSeq(stream, k + 1, Len(stream))
  BY DEF Got
<1>3. /\ stream' \in Seq(Units) /\ Len(stream') = Len(stream) - k
      /\ \A i \in 1..(Len(stream) - k) : stream'[i] = stream[k + i]
  BY <1>1, <1>2, Drop
<1>4. DOMAIN stream' = 1..(Len(stream) - k) /\ DOMAIN stream = 1..Len(stream)
  BY <1>1, <1>3
<1>5. /\ First(k) \in Seq(Units) /\ Len(First(k)) = k
      /\ \A i \in 1..k : First(k)[i] = stream[i]
  BY <1>1, Take DEF First
<1> QED
  BY <1>1, <1>3, <1>4, <1>5

LEMMA LastUnitType ==
  ASSUME NEW m \in Messages
  PROVE  LastUnit(m) \in Nat /\ m.body \in Nat
BY DEF Messages, LastUnit, Prefix

(* What a message of the peer adds to it. *)
LEMMA SendEffect ==
  ASSUME TypeOK, NEW m \in Messages, PeerSends(m)
  PROVE  LET n == LastUnit(m) + 1
         IN /\ n \in Nat /\ n > 0
            /\ sent' = sent \cup {m} /\ sent' \subseteq Messages
            /\ stream' \in Seq(Units) /\ Len(stream') = Len(stream) + n
            /\ \A i \in DOMAIN stream : stream'[i] = stream[i]
            /\ \A i \in 1..n : stream'[Len(stream) + i] = [msg |-> m, at |-> i - 1]
<1> DEFINE n == LastUnit(m) + 1
           new == [i \in 1..n |-> [msg |-> m, at |-> i - 1]]
<1>1. n \in Nat /\ n > 0 /\ stream \in Seq(Units) /\ sent \subseteq Messages
  BY LastUnitType DEF TypeOK
<1>2. new \in Seq(Units) /\ Len(new) = n
  <2> HIDE DEF n
  <2>1. \A i \in 1..n : new[i] \in Units
    BY <1>1 DEF Units
  <2> QED
    BY <1>1, <2>1
<1>3. stream' = stream \o new
  BY DEF PeerSends
<1>4. /\ stream' \in Seq(Units) /\ Len(stream') = Len(stream) + n
      /\ \A i \in 1..Len(stream) : stream'[i] = stream[i]
      /\ \A i \in 1..n : stream'[Len(stream) + i] = new[i]
  <2> HIDE DEF new
  <2>1. stream \in Seq(Units) /\ new \in Seq(Units)
    BY <1>1, <1>2
  <2>2. /\ stream \o new \in Seq(Units) /\ Len(stream \o new) = Len(stream) + Len(new)
        /\ \A i \in 1..Len(stream) : (stream \o new)[i] = stream[i]
        /\ \A i \in 1..Len(new) : (stream \o new)[Len(stream) + i] = new[i]
    BY <2>1, Joined
  <2> HIDE DEF n
  <2> QED
    BY <1>2, <1>3, <2>2
<1>5. sent' = sent \cup {m}
  BY DEF PeerSends
<1>6. /\ DOMAIN stream = 1..Len(stream)
      /\ \A i \in 1..n : new[i] = [msg |-> m, at |-> i - 1]
  BY <1>1
<1> HIDE DEF new
<1> QED
  BY <1>1, <1>4, <1>5, <1>6

LEMMA Bodies ==
  ASSUME TypeOK, CountInv, NEW m \in sent
  PROVE  m.body \in 0..(PieceUnits + DictUnits) /\ m \in Messages
<1>1. m \in Messages
  BY DEF TypeOK
<1>2. m.body \in Nat /\ m.body <= PieceUnits + DictUnits
  BY <1>1, LastUnitType DEF CountInv
<1> QED
  BY <1>1, <1>2, PeerAssumption

LEMMA Lengths ==
  ASSUME NEW n, n \in 0..MaxLength \cup {0} \/ n \in 0..(PieceUnits + DictUnits)
  PROVE  n \in Nat /\ n + 1 < TwoTo32
<1>1. MaxLength \in Nat /\ TwoTo32 \in Nat /\ MaxLength + 1 < TwoTo32 /\ 4 < TwoTo32
  BY PeerAssumption
<1> QED
  BY <1>1, PeerAssumption

LEMMA Pieces ==
  ASSUME NEW n \in Nat
  PROVE  n \div PieceUnits \in Nat
BY PeerAssumption

(* The body of an answer: a dictionary and a piece. *)
LEMMA Answers ==
  ASSUME TypeOK, NEW p \in asked \ {Hello}, NEW dict \in 1..DictUnits
  PROVE  /\ Answer(p, dict) \in Messages /\ Answer(p, dict).kind = "metadata"
         /\ Answer(p, dict).body \in 1..(PieceUnits + DictUnits)
<1>1. size \in Nat /\ PieceUnits \in Nat /\ PieceUnits > 0 /\ DictUnits \in Nat
  BY PeerAssumption DEF TypeOK
<1>2. size % PieceUnits \in 0..(PieceUnits - 1)
  BY <1>1
<1>3. PieceLength(p) \in 0..PieceUnits
  <2>1. PieceLength(p) \in {PieceUnits, size % PieceUnits}
    BY DEF PieceLength
  <2> QED
    BY <1>1, <1>2, <2>1
<1>4. dict + PieceLength(p) \in 1..(PieceUnits + DictUnits) /\ dict \in Nat
  BY <1>1, <1>3
<1>5. p \in Nat
  BY DEF TypeOK
<1> QED
  BY <1>4, <1>5 DEF Answer, Messages, Kinds

LEMMA PlainMessages ==
  /\ \A kind \in Kinds, len \in {0, 1} :
       /\ Plain(kind, len) \in Messages
       /\ Plain(kind, len).kind = kind /\ Plain(kind, len).body = len
  /\ Heap \in [msg : Messages, at : Nat \cup {-1}]
BY DEF Plain, Messages, Kinds, Heap

(* The steps of the client that leave the receive loop alone. *)
LEMMA SessionTypes ==
  ASSUME TypeOK, CountInv,
         \/ Connect \/ SendHandshake \/ ReceiveHandshake \/ SendExtended
         \/ ReceiveExtended \/ ExtendedFails \/ RequestMetadata \/ Decode
         \/ RequestPiece \/ Overruns \/ UNCHANGED vars
  PROVE  TypeOK' /\ CountInv'
<1> USE DEF TypeOK, Sessions, CountInv, At, Goto, Crash, receiver, remote, session, vars
<1>1. CASE Connect
  BY <1>1 DEF Connect
<1>2. CASE SendHandshake
  BY <1>2 DEF SendHandshake, Sends, SendFails
<1>3. CASE ReceiveHandshake
  <2>1. pc' = "send_extended" /\ cut' \in BOOLEAN
        /\ UNCHANGED <<proc, sock_desc, num_pieces, piece, goal, metadata, metadata_pos, receiver, remote>>
    BY <1>3 DEF ReceiveHandshake
  <2>2. /\ stream' \in Seq(Units)
        /\ \A i \in DOMAIN stream' : stream'[i].msg \in sent
    <3>1. ASSUME NEW k \in 1..Len(stream), Got(k)
          PROVE  /\ stream' \in Seq(Units)
                 /\ \A i \in DOMAIN stream' : stream'[i].msg \in sent
      <4>1. k \in Nat \ {0}
        OBVIOUS
      <4> QED
        BY <3>1, <4>1, GotEffect
    <3>2. CASE UNCHANGED stream
      BY <3>2
    <3> QED
      BY <1>3, <3>1, <3>2 DEF ReceiveHandshake, Eof, TimedOut
  <2> QED
    BY <2>1, <2>2
<1>4. CASE SendExtended
  BY <1>4 DEF SendExtended, Sends, SendFails
<1>5. CASE ReceiveExtended
  <2>1. PICK k \in 1..Len(stream) :
          /\ Got(k)
          /\ cut' \in BOOLEAN
          /\ pc' \in {"extended", "get_metadata", "get_piece"}
          /\ num_pieces' \in {num_pieces, size \div PieceUnits} /\ piece' \in {0, piece}
          /\ metadata_pos' \in {0, metadata_pos}
          /\ proc' \in {proc, "crashed"}
    BY <1>5 DEF ReceiveExtended
  <2>2. size \div PieceUnits \in Nat
    <3>1. size \in Nat
      BY PeerAssumption
    <3> QED
      BY <3>1, Pieces, Zenon
  <2>3. UNCHANGED <<sock_desc, goal, metadata, receiver, remote>>
    BY <1>5 DEF ReceiveExtended
  <2>4. /\ stream' \in Seq(Units)
        /\ \A i \in DOMAIN stream' : stream'[i].msg \in sent
    <3>1. k \in Nat \ {0}
      OBVIOUS
    <3> QED
      BY <2>1, <3>1, GotEffect
  <2>5. num_pieces' \in Nat /\ piece' \in Nat /\ metadata_pos' \in Nat
    BY <2>1, <2>2
  <2>6. pc' \in Sessions /\ pc' # "body" /\ proc' \in {"running", "crashed"} /\ cut' \in BOOLEAN
    BY <2>1
  <2> HIDE <2>1
  <2> QED
    BY <2>3, <2>4, <2>5, <2>6
<1>6. CASE ExtendedFails
  BY <1>6 DEF ExtendedFails, Eof, TimedOut, Unanswered
<1>7. CASE RequestMetadata
  <2>1. /\ UNCHANGED <<sock_desc, num_pieces, metadata, metadata_pos, receiver, size, sent, closed, stream, cut>>
        /\ pc' \in {"get_metadata", "header"} /\ goal' \in {goal, "metadata"}
        /\ proc' \in {proc, "crashed"} /\ piece' \in {piece, piece + 1}
        /\ asked' \in {asked, asked \cup {piece}}
    BY <1>7 DEF RequestMetadata, Sends, SendFails
  <2>2. piece' \in Nat
    BY <2>1
  <2>3. asked' \subseteq Nat \cup {Hello}
    BY <2>1
  <2> QED
    BY <2>1, <2>2, <2>3
<1>8. CASE Decode
  <2>1. metadata' \in {metadata, <<>>} /\ metadata_pos' \in {metadata_pos, 0}
        /\ pc' \in {pc, "get_piece"} /\ pc # "body" /\ proc' \in {proc, "crashed"}
        /\ UNCHANGED <<sock_desc, num_pieces, piece, goal, receiver, remote, stream, cut>>
    BY <1>8 DEF Decode, LeaveMetadata
  <2>2. metadata' \in Seq(Seq(Units \cup {Heap}))
    <3>1. metadata \in Seq(Seq(Units \cup {Heap})) /\ metadata' \in {metadata, <<>>}
      BY <2>1, Zenon
    <3> QED
      BY ONLY <3>1, NoUnits, Zenon
  <2> QED
    BY <2>1, <2>2
<1>9. CASE RequestPiece
  BY <1>9 DEF RequestPiece, Sends, SendFails
<1>10. CASE Overruns
  BY <1>10 DEF Overruns
<1>11. CASE UNCHANGED vars
  BY <1>11
<1> QED
  BY <1>1, <1>2, <1>3, <1>4, <1>5, <1>6, <1>7, <1>8, <1>9, <1>10, <1>11

LEMMA StrippedType ==
  ASSUME NEW body \in Seq(Units), NEW dict \in 1..Len(body)
  PROVE  Stripped(body, dict) \in Seq(Units \cup {Heap})
<1> DEFINE rest == SubSeq(body, dict + 1, Len(body))
           heap == [i \in 1..dict |-> Heap]
<1>1. rest \in Seq(Units)
  BY Drop
<1>2. rest \in Seq(Units \cup {Heap})
  BY <1>1
<1>3. heap \in Seq(Units \cup {Heap})
  <2>1. dict \in Nat
    OBVIOUS
  <2> QED
    BY <2>1
<1> HIDE DEF rest, heap
<1>4. rest \o heap \in Seq(Units \cup {Heap})
  BY <1>2, <1>3, Joined
<1> QED
  BY <1>4 DEF Stripped, rest, heap

(* The receive loop. *)
LEMMA ReceiverTypes ==
  ASSUME TypeOK, CountInv,
         \/ ReceivePrefix \/ ReceiveBody \/ BodyTimesOut \/ BodySpins
         \/ ReceiveFails \/ AcceptMetadata \/ AcceptPiece
  PROVE  TypeOK' /\ CountInv'
<1> USE DEF TypeOK, Sessions, CountInv, At, Goto, Crash, receiver, remote, session
<1>1. CASE ReceivePrefix
  <2>1. /\ pc' = "body" /\ pos' = Prefix /\ bytes_received' = 0 /\ out' = <<>>
        /\ UNCHANGED <<proc, sock_desc, num_pieces, piece, goal, metadata, metadata_pos, remote>>
        /\ cut' \in BOOLEAN
    BY <1>1 DEF ReceivePrefix
  <2>2. length' \in Nat /\ length' + 1 < TwoTo32
    <3>1. ASSUME NEW chunk, chunk = <<>> \/ chunk[1].msg \in sent,
                 length' \in PrefixValues(chunk)
          PROVE  length' \in Nat /\ length' + 1 < TwoTo32
      <4>1. CASE chunk # <<>> /\ length' = chunk[1].msg.body
        <5>1. length' \in 0..(PieceUnits + DictUnits)
          BY <3>1, <4>1, Bodies
        <5> QED
          BY <5>1, Lengths, Zenon
      <4>2. CASE length' \in 0..MaxLength \cup {0}
        BY <4>2, Lengths, Zenon
      <4>3. \/ chunk # <<>> /\ length' = chunk[1].msg.body
            \/ length' \in 0..MaxLength \cup {0}
        BY <3>1, Zenon DEF PrefixValues
      <4> QED
        BY <4>1, <4>2, <4>3
    <3>2. ASSUME NEW k \in 1..Prefix, Got(k)
          PROVE  First(k)[1].msg \in sent
      <4>1. k \in Nat \ {0}
        BY DEF Prefix
      <4> QED
        BY <3>2, <4>1, GotEffect
    <3> QED
      BY <1>1, <3>1, <3>2 DEF ReceivePrefix
  <2>3. /\ stream' \in Seq(Units)
        /\ \A i \in DOMAIN stream' : stream'[i].msg \in sent
    <3>1. ASSUME NEW k \in 1..Prefix, Got(k)
          PROVE  /\ stream' \in Seq(Units)
                 /\ \A i \in DOMAIN stream' : stream'[i].msg \in sent
      <4>1. k \in Nat \ {0}
        BY DEF Prefix
      <4> QED
        BY <3>1, <4>1, GotEffect
    <3>2. CASE UNCHANGED stream
      BY <3>2
    <3> QED
      BY <1>1, <3>1, <3>2 DEF ReceivePrefix, Eof, TimedOut
  <2>4. <<>> \in Seq(Units) /\ Len(<<>>) = 0 /\ Prefix \in Nat /\ Prefix = Prefix + 0
    BY DEF Prefix
  <2> QED
    BY <2>1, <2>2, <2>3, <2>4
<1>2. CASE ReceiveBody
  <2>1. PICK k \in 1..Missing :
          /\ Got(k)
          /\ out' = SubSeq(out, 1, pos - Prefix) \o First(k)
          /\ pos' = pos + k /\ bytes_received' = bytes_received + k
    BY <1>2 DEF ReceiveBody, Counted
  <2>2. /\ pc = "body" /\ pc' = "body" /\ length' = length
        /\ UNCHANGED <<session, remote, cut>>
    BY <1>2 DEF ReceiveBody
  <2>3. bytes_received >= 0 /\ bytes_received < length /\ Missing = length - bytes_received
    BY <1>2, <2>2, MoreIsLess DEF ReceiveBody, Missing
  <2>4. k \in Nat \ {0} /\ bytes_received + k <= length
    BY <2>3
  <2>5. /\ stream' \in Seq(Units)
        /\ \A i \in DOMAIN stream' : stream'[i].msg \in sent
        /\ First(k) \in Seq(Units) /\ Len(First(k)) = k
    BY <2>1, <2>4, GotEffect
  <2>6. pos - Prefix = bytes_received /\ bytes_received \in 0..Len(out)
    BY <2>2, <2>3 DEF Prefix
  <2>7. /\ SubSeq(out, 1, bytes_received) \in Seq(Units)
        /\ Len(SubSeq(out, 1, bytes_received)) = bytes_received
    BY <2>6, Take
  <2>8. out' \in Seq(Units) /\ Len(out') = bytes_received + k
    BY <2>1, <2>5, <2>6, <2>7, Joined
  <2>9. /\ pos' = Prefix + bytes_received' /\ pos' \in Nat /\ bytes_received' \in Nat
    BY <2>1, <2>2, <2>3, <2>4 DEF Prefix
  <2> QED
    BY <2>1, <2>2, <2>3, <2>4, <2>5, <2>8, <2>9
<1>3. CASE BodyTimesOut
  <2>1. /\ pc = "body" /\ pos' = pos - 1 /\ bytes_received' = bytes_received - 1
        /\ cut' = TRUE /\ UNCHANGED <<session, length, out, remote, stream>>
    BY <1>3 DEF BodyTimesOut, Counted, TimedOut
  <2>2. bytes_received >= 0
    BY <1>3, <2>1, MoreIsLess DEF BodyTimesOut
  <2> QED
    BY <2>1, <2>2 DEF Prefix
<1>4. CASE BodySpins
  BY <1>4 DEF BodySpins, Eof
<1>5. CASE ReceiveFails
  <2>1. /\ metadata' \in {metadata, <<>>} /\ metadata_pos' \in {metadata_pos, 0}
        /\ pc' \in {"get_piece", "ended"} /\ Returns
        /\ UNCHANGED <<proc, sock_desc, num_pieces, piece, goal, remote, stream, cut>>
    BY <1>5 DEF ReceiveFails, LeaveMetadata
  <2>2. metadata' \in Seq(Seq(Units \cup {Heap}))
    <3>1. metadata \in Seq(Seq(Units \cup {Heap})) /\ metadata' \in {metadata, <<>>}
      BY <2>1, Zenon
    <3> QED
      BY ONLY <3>1, NoUnits, Zenon
  <2>3. out' \in Seq(Units) /\ length' = 0 /\ pos' = 0 /\ bytes_received' = 0
    BY <2>1 DEF Returns
  <2> QED
    BY <2>1, <2>2, <2>3
<1>6. CASE AcceptMetadata
  <2>1. /\ UNCHANGED <<sock_desc, num_pieces, goal, remote, stream, cut>>
        /\ pc' \in {pc, "get_metadata"} /\ proc' \in {proc, "crashed"}
        /\ piece' \in {piece, piece + 1} /\ pc = "body"
        /\ metadata_pos' \in {metadata_pos, metadata_pos + length}
        /\ \/ UNCHANGED receiver
           \/ Returns /\ pc' = "get_metadata"
    BY <1>6 DEF AcceptMetadata, ResponseLength
  <2>2. metadata' \in Seq(Seq(Units \cup {Heap}))
    <3>1. CASE metadata' = metadata
      BY <3>1
    <3>2. ASSUME NEW dict \in DictionaryEnds(out),
                 metadata' = Append(metadata, Copied(out, dict))
          PROVE  metadata' \in Seq(Seq(Units \cup {Heap}))
      <4>1. dict \in 1..Len(out)
        BY DEF DictionaryEnds
      <4>2. Copied(out, dict) \in Seq(Units \cup {Heap})
        <5>1. Stripped(out, dict) \in Seq(Units \cup {Heap})
          BY <4>1, StrippedType
        <5>2. <<>> \in Seq(Units \cup {Heap})
          OBVIOUS
        <5> QED
          BY <5>1, <5>2, Zenon DEF Copied
      <4>3. metadata \in Seq(Seq(Units \cup {Heap}))
        OBVIOUS
      <4> HIDE DEF TypeOK, CountInv
      <4>4. Append(metadata, Copied(out, dict)) \in Seq(Seq(Units \cup {Heap}))
        BY ONLY <4>2, <4>3
      <4> QED
        BY <3>2, <4>4
    <3> QED
      BY <1>6, <3>1, <3>2 DEF AcceptMetadata
  <2>3. ASSUME Returns
        PROVE  out' \in Seq(Units) /\ length' = 0 /\ pos' = 0 /\ bytes_received' = 0
    BY <2>3 DEF Returns
  <2> QED
    BY <2>1, <2>2, <2>3
<1>7. CASE AcceptPiece
  <2>1. out' \in Seq(Units) /\ length' = 0 /\ pos' = 0 /\ bytes_received' = 0
    BY <1>7 DEF AcceptPiece, Returns
  <2> QED
    BY <1>7, <2>1 DEF AcceptPiece
<1> QED
  BY <1>1, <1>2, <1>3, <1>4, <1>5, <1>6, <1>7

(* The peer. *)
LEMMA RemoteTypes ==
  ASSUME TypeOK, CountInv, RemoteStep
  PROVE  TypeOK' /\ CountInv'
<1> USE DEF TypeOK, Sessions, CountInv, receiver, remote, session
<1>1. ASSUME NEW m \in Messages, m.body <= PieceUnits + DictUnits, PeerSends(m),
             asked' \subseteq asked
      PROVE  TypeOK' /\ CountInv'
  <2>1. UNCHANGED <<session, receiver, size, closed, cut>>
    BY <1>1 DEF PeerSends
  <2> DEFINE n == LastUnit(m) + 1
  <2>2. /\ n \in Nat
        /\ sent' = sent \cup {m} /\ sent' \subseteq Messages
        /\ stream' \in Seq(Units) /\ Len(stream') = Len(stream) + n
        /\ \A i \in DOMAIN stream : stream'[i] = stream[i]
        /\ \A i \in 1..n : stream'[Len(stream) + i] = [msg |-> m, at |-> i - 1]
    BY <1>1, SendEffect
  <2> HIDE DEF n
  <2>3. \A i \in DOMAIN stream' : stream'[i].msg \in sent'
    <3>1. TAKE i \in DOMAIN stream'
    <3>2. CASE i \in DOMAIN stream
      BY <2>2, <3>2
    <3>3. CASE i \notin DOMAIN stream
      <4>1. i \in 1..(Len(stream) + n) /\ i \notin 1..Len(stream) /\ Len(stream) \in Nat
        BY <2>2, <3>3
      <4> DEFINE j == i - Len(stream)
      <4>2. j \in 1..n /\ i = Len(stream) + j
        BY <2>2, <4>1
      <4> HIDE DEF j
      <4>3. stream'[i].msg = m
        <5>1. stream'[i] = [msg |-> m, at |-> j - 1]
          BY <2>2, <4>2
        <5> QED
          BY <5>1
      <4> QED
        BY <2>2, <4>3
    <3> QED
      BY <3>2, <3>3
  <2> QED
    BY <1>1, <2>1, <2>2, <2>3
<1>2. CASE PeerHandshake
  <2>1. /\ Plain("handshake", 0) \in Messages
        /\ Plain("handshake", 0).body <= PieceUnits + DictUnits
    BY PlainMessages, PeerAssumption DEF Kinds
  <2> QED
    BY <1>1, <1>2, <2>1 DEF PeerHandshake
<1>3. CASE PeerExtended
  <2>1. /\ Plain("extended", 1) \in Messages
        /\ Plain("extended", 1).body <= PieceUnits + DictUnits
    BY PlainMessages, PeerAssumption DEF Kinds
  <2> QED
    BY <1>1, <1>3, <2>1 DEF PeerExtended
<1>4. CASE PeerMetadata
  <2>1. PICK p \in asked \ {Hello}, dict \in 1..DictUnits :
          PeerSends(Answer(p, dict)) /\ asked' = asked \ {p}
    BY <1>4 DEF PeerMetadata
  <2>2. /\ Answer(p, dict) \in Messages
        /\ Answer(p, dict).body <= PieceUnits + DictUnits
    <3>1. /\ Answer(p, dict) \in Messages
          /\ Answer(p, dict).body \in 1..(PieceUnits + DictUnits)
      BY Answers
    <3> QED
      BY <3>1, PeerAssumption
  <2> QED
    BY <1>1, <2>1, <2>2
<1>5. CASE PeerOther
  <2>1. PICK len \in {0, 1} : PeerSends(Plain("other", len)) /\ asked' = asked
    BY <1>5 DEF PeerOther
  <2>2. /\ Plain("other", len) \in Messages
        /\ Plain("other", len).body <= PieceUnits + DictUnits
    BY PlainMessages, PeerAssumption DEF Kinds
  <2> QED
    BY <1>1, <2>1, <2>2
<1>6. CASE PeerCloses
  BY <1>6 DEF PeerCloses
<1> QED
  BY <1>2, <1>3, <1>4, <1>5, <1>6 DEF RemoteStep

LEMMA TypeNext == TypeOK /\ CountInv /\ [Next]_vars => TypeOK' /\ CountInv'
  BY SessionTypes, ReceiverTypes, RemoteTypes DEF Next, ClientStep

LEMMA TypeInvariant == Spec => [](TypeOK /\ CountInv)
  BY TypeInit, TypeNext, PTL DEF Spec

(* Whatever a peer sends and however TCP cuts it, the state of a session is well
   typed; bytes_received never gets below -1 (peer_metadata_packet.c:204-208).   *)
THEOREM TypeCorrect == Spec => []TypeOK
  BY TypeInvariant, PTL

(* No receive ever writes outside of the part of out its message has, although a
   failed recv moves the position back (peer_metadata_packet.c:204-208).         *)
THEOREM LoopInBounds == Spec => []ReadsInBounds
<1>1. TypeOK /\ CountInv => ReadsInBounds
  BY MoreIsLess DEF ReadsInBounds, Missing, TypeOK, CountInv, Prefix
<1> QED
  BY <1>1, TypeInvariant, PTL

-----------------------------------------------------------------------------
(* Silence *)

GreetInv ==
  /\ stream # <<>> => sent # {}
  /\ pc = "get_metadata" => sent # {}
  /\ pc \in {"header", "body"} /\ goal = "metadata" => sent # {}
  /\ proc = "crashed" => ~sock_desc \/ closed \/ sent # {}

LEMMA GreetNext ==
  ASSUME TypeOK, CountInv, GreetInv, [Next]_vars
  PROVE  GreetInv'
<1> USE DEF GreetInv, At, Goto, Crash, receiver, remote, session
<1>0. \A k \in 1..Len(stream) : Got(k) => stream # <<>>
  BY DEF TypeOK
<1>1. CASE Connect
  BY <1>1 DEF Connect
<1>2. CASE SendHandshake
  BY <1>2 DEF SendHandshake, SendFails
<1>3. CASE ReceiveHandshake
  BY <1>0, <1>3 DEF ReceiveHandshake, Eof, TimedOut
<1>4. CASE SendExtended
  BY <1>4 DEF SendExtended, SendFails
<1>5. CASE ReceiveExtended
  BY <1>0, <1>5 DEF ReceiveExtended
<1>6. CASE ExtendedFails
  BY <1>6 DEF ExtendedFails, Eof, TimedOut, Unanswered
<1>7. CASE RequestMetadata
  BY <1>7 DEF RequestMetadata, SendFails
<1>8. CASE Decode
  BY <1>8 DEF Decode, LeaveMetadata
<1>9. CASE RequestPiece
  BY <1>9 DEF RequestPiece, SendFails
<1>10. CASE ReceivePrefix
  <2>1. \A k \in 1..Prefix : Got(k) => stream # <<>>
    BY DEF TypeOK, Got, Prefix
  <2>2. stream' # <<>> => stream # <<>>
    BY <1>10, <2>1 DEF ReceivePrefix, Eof, TimedOut
  <2>3. /\ pc = "header" /\ pc' = "body"
        /\ UNCHANGED <<proc, sock_desc, goal, remote>>
    BY <1>10 DEF ReceivePrefix
  <2> QED
    BY <2>2, <2>3
<1>11. CASE Overruns
  BY <1>11 DEF Overruns
<1>12. CASE ReceiveBody
  <2>1. \A k \in 1..Missing : Got(k) => stream # <<>>
    BY DEF TypeOK, CountInv, Got, Missing
  <2>2. stream # <<>> /\ UNCHANGED <<session, remote>>
    BY <1>12, <2>1 DEF ReceiveBody
  <2> QED
    BY <2>2
<1>13. CASE BodyTimesOut
  BY <1>13 DEF BodyTimesOut, TimedOut
<1>14. CASE BodySpins
  BY <1>14 DEF BodySpins, Eof
<1>15. CASE ReceiveFails
  BY <1>15 DEF ReceiveFails
<1>16. CASE AcceptMetadata
  BY <1>16 DEF AcceptMetadata
<1>17. CASE AcceptPiece
  BY <1>17 DEF AcceptPiece
<1>18. CASE RemoteStep
  <2>1. ASSUME NEW m, PeerSends(m)
        PROVE  sent' # {} /\ UNCHANGED <<pc, goal, proc, sock_desc, closed>>
    BY <2>1 DEF PeerSends
  <2>2. CASE PeerCloses
    BY <2>2 DEF PeerCloses
  <2> QED
    BY <1>18, <2>1, <2>2
    DEF RemoteStep, PeerHandshake, PeerExtended, PeerMetadata, PeerOther
<1>19. CASE UNCHANGED vars
  BY <1>19 DEF vars
<1> HIDE DEF GreetInv
<1> QED
  BY <1>1, <1>2, <1>3, <1>4, <1>5, <1>6, <1>7, <1>8, <1>9, <1>10, <1>11, <1>12,
     <1>13, <1>14, <1>15, <1>16, <1>17, <1>18, <1>19 DEF Next, ClientStep

(* A peer that accepts the connection, stays and never says a word does not
   bring the client down, whatever times out (peer.c:97-188, tracker.c:255-266). *)
THEOREM SilenceHarmless == Spec => []SilenceIsHarmless
<1>1. Init => GreetInv
  BY DEF Init, GreetInv
<1>2. TypeOK /\ CountInv /\ GreetInv /\ [Next]_vars => GreetInv'
  BY GreetNext
<1>3. GreetInv => SilenceIsHarmless
  BY DEF GreetInv, SilenceIsHarmless, Greeted
<1> QED
  BY <1>1, <1>2, <1>3, TypeInvariant, PTL DEF Spec

-----------------------------------------------------------------------------
(* Framing: the messages lie in the stream whole and one after the other, but
   for the first one, of which the client may have received a part.           *)
Lined(s) ==
  \A i \in DOMAIN s :
    LET behind == LastUnit(s[i].msg) - s[i].at
    IN /\ behind >= 0
       /\ \A d \in 0..behind :
            i + d \in DOMAIN s /\ s[i + d] = [msg |-> s[i].msg, at |-> s[i].at + d]
       /\ i + behind + 1 \in DOMAIN s => s[i + behind + 1].at = 0
       /\ i > 1 /\ s[i].at = 0 => Framed(s[i].msg)

StreamInv == Lined(stream)

(* The client has not yet read what it takes for the handshake. *)
Opening == {"connect", "send_handshake", "handshake"}

StartInv ==
  /\ stream # <<>> => sent # {}
  /\ pc \in Opening => ~cut
  /\ pc \in {"connect", "send_handshake"} => sent = {} /\ asked = {}
  /\ pc \notin Opening /\ ~cut =>
       /\ sent = {} => Hello \notin asked
       /\ stream # <<>> => Framed(stream[1].msg)

AtStart == stream # <<>> => stream[1].at = 0

Reading(m) ==
  /\ Framed(m) /\ length = m.body /\ bytes_received \in 0..length
  /\ out = SubSeq(Body(m), 1, bytes_received)
  /\ bytes_received < length =>
       stream # <<>> /\ stream[1] = [msg |-> m, at |-> Prefix + bytes_received]
  /\ bytes_received = length => AtStart

(* What was copied of a response to a client that lost no border. *)
Clean(copy) ==
  \E m \in sent : \E dict \in 1..m.body :
    /\ copy = Stripped(Body(m), dict)
    /\ m.kind = "metadata" => dict = m.dict

LoopInv ==
  /\ pc # "body" => AtStart
  /\ pc = "body" /\ length = 0 => bytes_received = 0 /\ AtStart
  /\ pc = "body" /\ length > 0 => \E m \in sent : Reading(m)
  /\ \A i \in DOMAIN metadata : Clean(metadata[i])

FrameInv == StreamInv /\ StartInv /\ (~cut => LoopInv)

LEMMA LinedDrop ==
  ASSUME NEW s \in Seq(Units), Lined(s), NEW k \in 1..Len(s)
  PROVE  Lined(SubSeq(s, k + 1, Len(s)))
<1> DEFINE t == SubSeq(s, k + 1, Len(s))
<1>1. /\ t \in Seq(Units) /\ Len(t) = Len(s) - k /\ Len(s) \in Nat
      /\ \A i \in 1..(Len(s) - k) : t[i] = s[k + i]
  BY Drop
<1>2. DOMAIN t = 1..(Len(s) - k) /\ DOMAIN s = 1..Len(s)
  BY <1>1
<1> HIDE DEF t
<1>3. ASSUME NEW i \in DOMAIN t
      PROVE  LET behind == LastUnit(t[i].msg) - t[i].at
             IN /\ behind >= 0
                /\ \A d \in 0..behind :
                     i + d \in DOMAIN t /\ t[i + d] = [msg |-> t[i].msg, at |-> t[i].at + d]
                /\ i + behind + 1 \in DOMAIN t => t[i + behind + 1].at = 0
                /\ i > 1 /\ t[i].at = 0 => Framed(t[i].msg)
  <2> DEFINE j == k + i
             behind == LastUnit(s[j].msg) - s[j].at
  <2>1. i \in 1..(Len(s) - k) /\ j \in DOMAIN s /\ t[i] = s[j] /\ j > 1 /\ j = k + i
    BY <1>1, <1>2
  <2>2. /\ behind >= 0
        /\ \A d \in 0..behind :
             j + d \in DOMAIN s /\ s[j + d] = [msg |-> s[j].msg, at |-> s[j].at + d]
        /\ j + behind + 1 \in DOMAIN s => s[j + behind + 1].at = 0
        /\ j > 1 /\ s[j].at = 0 => Framed(s[j].msg)
    BY <2>1 DEF Lined
  <2>3. behind \in Nat
    <3>1. s[j] \in Units
      BY <2>1
    <3>2. s[j].at \in Nat /\ LastUnit(s[j].msg) \in Nat
      BY <3>1, LastUnitType DEF Units
    <3> QED
      BY <2>2, <3>2
  <2> HIDE DEF j, behind
  <2>4. ASSUME NEW d \in 0..behind
        PROVE  i + d \in DOMAIN t /\ t[i + d] = s[j + d]
    <3>1. j + d \in DOMAIN s
      BY <2>2
    <3>2. i + d \in 1..(Len(s) - k) /\ k + (i + d) = j + d
      BY <1>1, <1>2, <2>1, <2>3, <3>1
    <3> QED
      BY <1>1, <1>2, <3>2
  <2>5. ASSUME i + behind + 1 \in DOMAIN t
        PROVE  j + behind + 1 \in DOMAIN s /\ t[i + behind + 1] = s[j + behind + 1]
    <3>1. k + (i + behind + 1) = j + behind + 1 /\ j + behind + 1 \in 1..Len(s)
      BY <1>1, <1>2, <2>1, <2>3, <2>5
    <3> QED
      BY <1>1, <1>2, <2>5, <3>1
  <2>6. LastUnit(t[i].msg) - t[i].at = behind
    BY <2>1 DEF behind
  <2> QED
    BY <2>1, <2>2, <2>4, <2>5, <2>6
<1> QED
  BY <1>3 DEF Lined, t

LEMMA LinedJoin ==
  ASSUME NEW s \in Seq(Units), Lined(s), NEW m \in Messages, s # <<>> => Framed(m),
         NEW t \in Seq(Units), Len(t) = LastUnit(m) + 1,
         \A i \in 1..Len(t) : t[i] = [msg |-> m, at |-> i - 1]
  PROVE  Lined(s \o t)
<1> DEFINE u == s \o t
<1>0. Len(s) \in Nat /\ Len(t) \in Nat
  OBVIOUS
<1>1. /\ u \in Seq(Units) /\ Len(u) = Len(s) + Len(t)
      /\ \A i \in 1..Len(s) : u[i] = s[i]
      /\ \A i \in 1..Len(t) : u[Len(s) + i] = t[i]
  <2>1. s \in Seq(Units) /\ t \in Seq(Units)
    OBVIOUS
  <2>2. /\ s \o t \in Seq(Units) /\ Len(s \o t) = Len(s) + Len(t)
        /\ \A i \in 1..Len(s) : (s \o t)[i] = s[i]
        /\ \A i \in 1..Len(t) : (s \o t)[Len(s) + i] = t[i]
    BY ONLY <2>1, Joined
  <2> QED
    BY <2>2
<1>2. DOMAIN u = 1..(Len(s) + Len(t)) /\ DOMAIN s = 1..Len(s)
  BY <1>1
<1> HIDE DEF u
<1> DEFINE Fine(i) == LET behind == LastUnit(u[i].msg) - u[i].at
                      IN /\ behind >= 0
                         /\ \A d \in 0..behind :
                              /\ i + d \in DOMAIN u
                              /\ u[i + d] = [msg |-> u[i].msg, at |-> u[i].at + d]
                         /\ i + behind + 1 \in DOMAIN u => u[i + behind + 1].at = 0
                         /\ i > 1 /\ u[i].at = 0 => Framed(u[i].msg)
<1>3. ASSUME NEW i \in 1..Len(s)
      PROVE  Fine(i)
  <2> DEFINE behind == LastUnit(s[i].msg) - s[i].at
  <2>1. /\ behind >= 0
        /\ \A d \in 0..behind :
             i + d \in DOMAIN s /\ s[i + d] = [msg |-> s[i].msg, at |-> s[i].at + d]
        /\ i + behind + 1 \in DOMAIN s => s[i + behind + 1].at = 0
        /\ i > 1 /\ s[i].at = 0 => Framed(s[i].msg)
    BY <1>2 DEF Lined
  <2>2. behind \in Nat
    <3>1. s[i] \in Units
      OBVIOUS
    <3>2. s[i].at \in Nat /\ LastUnit(s[i].msg) \in Nat
      BY <3>1, LastUnitType DEF Units
    <3>3. behind \in Int
      BY <3>2
    <3> QED
      BY <2>1, <3>3
  <2>3. u[i] = s[i] /\ LastUnit(u[i].msg) - u[i].at = behind
    BY <1>1, <2>1
  <2> HIDE DEF behind
  <2>4. i + behind \in 1..Len(s)
    <3>1. behind \in 0..behind
      BY <2>2
    <3> QED
      BY <1>2, <2>1, <3>1
  <2>5. \A d \in 0..behind : i + d \in DOMAIN u /\ u[i + d] = s[i + d]
    <3>1. \A d \in 0..behind : i + d \in 1..Len(s)
      BY <1>2, <2>1
    <3> QED
      BY <1>1, <1>2, <3>1
  <2>6. i + behind + 1 \in DOMAIN u => u[i + behind + 1].at = 0
    <3>1. CASE i + behind + 1 \in 1..Len(s)
      BY <1>1, <1>2, <2>1, <3>1
    <3>2. CASE i + behind = Len(s)
      <4>1. i + behind + 1 = Len(s) + 1
        BY <3>2
      <4>2. i + behind + 1 \in DOMAIN u => 1 \in 1..Len(t)
        BY <1>0, <1>1, <1>2, <4>1
      <4>3. 1 \in 1..Len(t) => u[Len(s) + 1].at = 0
        <5>1. 1 \in 1..Len(t) => u[Len(s) + 1] = t[1] /\ t[1] = [msg |-> m, at |-> 1 - 1]
          BY <1>1
        <5> QED
          BY <5>1
      <4> QED
        BY <4>1, <4>2, <4>3
    <3> QED
      BY <1>0, <2>2, <2>4, <3>1, <3>2
  <2> QED
    BY <2>1, <2>3, <2>5, <2>6
<1>4. ASSUME NEW j \in 1..Len(t)
      PROVE  Fine(Len(s) + j)
  <2> DEFINE i == Len(s) + j
             behind == Len(t) - j
  <2>1. u[i] = [msg |-> m, at |-> j - 1]
    BY <1>1
  <2>2. LastUnit(u[i].msg) - u[i].at = behind /\ u[i].msg = m /\ u[i].at = j - 1
    <3>1. u[i].msg = m /\ u[i].at = j - 1
      BY <2>1
    <3>2. LastUnit(m) \in Nat /\ LastUnit(m) - (j - 1) = behind
      BY <1>0, LastUnitType
    <3> QED
      BY <3>1, <3>2
  <2>3. behind \in Nat /\ i + behind = Len(s) + Len(t)
    <3>1. j \in 1..Len(t) /\ Len(t) \in Nat /\ Len(s) \in Nat
      BY <1>0
    <3> QED
      BY ONLY <3>1 DEF i, behind
  <2>4. ASSUME NEW d \in 0..behind
        PROVE  i + d \in DOMAIN u /\ u[i + d] = [msg |-> m, at |-> (j - 1) + d]
    <3>1. j + d \in 1..Len(t) /\ i + d = Len(s) + (j + d) /\ (j + d) - 1 = (j - 1) + d
          /\ i + d \in 1..(Len(s) + Len(t))
      BY <1>0
    <3>2. u[Len(s) + (j + d)] = [msg |-> m, at |-> (j + d) - 1]
      BY <1>1, <3>1
    <3> QED
      BY <1>2, <3>1, <3>2
  <2>5. i + behind + 1 \notin DOMAIN u
    BY <1>0, <1>2
  <2>6. i > 1 /\ j - 1 = 0 => Framed(m)
    <3>1. i > 1 /\ j - 1 = 0 => Len(s) > 0
      BY <1>0
    <3>2. Len(s) > 0 => s # <<>>
      OBVIOUS
    <3> QED
      BY <3>1, <3>2
  <2> HIDE DEF i, behind
  <2>7. Fine(i)
    BY <2>2, <2>3, <2>4, <2>5, <2>6
  <2> QED
    BY <2>7 DEF i
<1>5. ASSUME NEW i \in DOMAIN u
      PROVE  Fine(i)
  <2>1. CASE i \in 1..Len(s)
    BY <1>3, <2>1
  <2>2. CASE i \notin 1..Len(s)
    <3>1. i - Len(s) \in 1..Len(t) /\ Len(s) + (i - Len(s)) = i
      BY <1>0, <1>2, <2>2
    <3> HIDE DEF Fine
    <3>2. Fine(Len(s) + (i - Len(s)))
      BY <1>4, <3>1
    <3> QED
      BY <3>1, <3>2
  <2> QED
    BY <2>1, <2>2
<1> QED
  BY <1>5 DEF Lined, u

LEMMA LastUnits ==
  ASSUME TypeOK, CountInv
  PROVE  /\ DOMAIN stream = 1..Len(stream) /\ Len(stream) \in Nat
         /\ \A i \in DOMAIN stream :
              /\ stream[i] \in Units /\ stream[i].msg \in sent
              /\ stream[i].at \in Nat /\ LastUnit(stream[i].msg) \in Nat
<1>1. stream \in Seq(Units)
  BY DEF TypeOK
<1>2. \A i \in DOMAIN stream : stream[i] \in Units
  BY <1>1
<1> QED
  BY <1>1, <1>2, LastUnitType DEF CountInv, Units

(* A recv leaves the rest of the stream, which begins inside a message unless
   what was received ends one.                                                *)
LEMMA FrameReceived ==
  ASSUME TypeOK, CountInv, StreamInv, NEW k \in Nat \ {0}, Got(k), UNCHANGED sent
  PROVE  /\ StreamInv' /\ stream # <<>>
         /\ stream' # <<>> => /\ k + 1 \in DOMAIN stream /\ stream'[1] = stream[k + 1]
                              /\ stream'[1].at = 0 => Framed(stream'[1].msg)
         /\ EndsMessage(First(k)) => AtStart'
<1>1. /\ k \in 1..Len(stream)
      /\ stream' \in Seq(Units) /\ Len(stream') = Len(stream) - k
      /\ \A i \in DOMAIN stream' : k + i \in DOMAIN stream /\ stream'[i] = stream[k + i]
      /\ Len(First(k)) = k /\ First(k)[k] = stream[k]
  BY GotEffect
<1>2. /\ DOMAIN stream = 1..Len(stream) /\ Len(stream) \in Nat
      /\ \A i \in DOMAIN stream : stream[i].at \in Nat /\ LastUnit(stream[i].msg) \in Nat
  BY LastUnits
<1>4. StreamInv'
  <2>1. stream \in Seq(Units) /\ Lined(stream)
    BY DEF TypeOK, StreamInv
  <2>2. Lined(SubSeq(stream, k + 1, Len(stream)))
    BY <1>1, <2>1, LinedDrop
  <2> QED
    BY <2>2 DEF StreamInv, Got
<1>5. ASSUME stream' # <<>>
      PROVE  /\ k + 1 \in DOMAIN stream /\ stream'[1] = stream[k + 1]
             /\ stream'[1].at = 0 => Framed(stream'[1].msg)
  <2>1. 1 \in DOMAIN stream'
    BY <1>1, <1>5
  <2>2. k + 1 \in DOMAIN stream /\ stream'[1] = stream[k + 1] /\ k + 1 > 1
    BY <1>1, <2>1
  <2> QED
    BY <2>2 DEF StreamInv, Lined
<1>6. ASSUME EndsMessage(First(k)), stream' # <<>>
      PROVE  stream'[1].at = 0
  <2>1. k \in DOMAIN stream /\ stream[k].at = LastUnit(stream[k].msg)
    BY <1>1, <1>2, <1>6 DEF EndsMessage
  <2>2. stream[k].at \in Nat
    BY <1>2, <2>1
  <2>3. LastUnit(stream[k].msg) - stream[k].at = 0 /\ k + 0 + 1 = k + 1
    BY <2>1, <2>2
  <2>4. k + 1 \in DOMAIN stream => stream[k + 1].at = 0
    BY <2>1, <2>3 DEF StreamInv, Lined
  <2> QED
    BY <1>5, <1>6, <2>4
<1>7. stream # <<>>
  BY <1>1
<1> QED
  BY <1>4, <1>5, <1>6, <1>7 DEF AtStart

(* A message goes behind what is under way. *)
LEMMA FrameSent ==
  ASSUME TypeOK, CountInv, StreamInv, NEW m \in Messages, PeerSends(m),
         stream # <<>> => Framed(m)
  PROVE  /\ StreamInv' /\ sent' = sent \cup {m} /\ stream' # <<>>
         /\ stream # <<>> => stream'[1] = stream[1]
         /\ stream = <<>> => stream'[1] = [msg |-> m, at |-> 0]
<1> DEFINE n == LastUnit(m) + 1
           new == [i \in 1..n |-> [msg |-> m, at |-> i - 1]]
<1>1. /\ n \in Nat /\ n > 0
      /\ sent' = sent \cup {m}
      /\ stream' \in Seq(Units) /\ Len(stream') = Len(stream) + n
      /\ \A i \in DOMAIN stream : stream'[i] = stream[i]
      /\ \A i \in 1..n : stream'[Len(stream) + i] = [msg |-> m, at |-> i - 1]
  BY SendEffect
<1>2. /\ DOMAIN stream = 1..Len(stream) /\ Len(stream) \in Nat /\ stream \in Seq(Units)
  BY LastUnits DEF TypeOK
<1>3. stream' = stream \o new
  BY DEF PeerSends
<1>4. new \in Seq(Units) /\ Len(new) = n
  <2> HIDE DEF n
  <2>1. \A i \in 1..n : new[i] \in Units
    BY <1>1 DEF Units
  <2> QED
    BY <1>1, <2>1
<1>5. \A i \in 1..n : new[i] = [msg |-> m, at |-> i - 1]
  OBVIOUS
<1>6. n = LastUnit(m) + 1
  OBVIOUS
<1> HIDE DEF n, new
<1>7. StreamInv'
  <2>1. Lined(stream)
    BY DEF StreamInv
  <2>2. Lined(stream \o new)
    BY <1>2, <1>4, <1>5, <1>6, <2>1, LinedJoin
  <2> QED
    BY <1>3, <2>2 DEF StreamInv
<1>8. stream' # <<>>
  BY <1>1, <1>2
<1>9. stream # <<>> => stream'[1] = stream[1]
  <2>1. stream # <<>> => 1 \in DOMAIN stream
    BY <1>2
  <2> QED
    BY <1>1, <2>1
<1>10. stream = <<>> => stream'[1] = [msg |-> m, at |-> 0]
  <2>1. stream = <<>> => Len(stream) + 1 = 1
    OBVIOUS
  <2>2. 1 \in 1..n /\ 1 - 1 = 0
    BY <1>1
  <2> QED
    BY <1>1, <2>1, <2>2
<1> QED
  BY <1>1, <1>7, <1>8, <1>9, <1>10

LEMMA FrameKept ==
  ASSUME StreamInv, UNCHANGED <<sent, stream>>
  PROVE  /\ StreamInv' /\ AtStart' = AtStart
         /\ \A copy : Clean(copy)' = Clean(copy)
BY DEF StreamInv, Lined, AtStart, Clean

(* A step outside of the receive loop that receives nothing. *)
LEMMA QuietSteps ==
  ASSUME TypeOK, FrameInv,
         \/ Connect \/ SendHandshake \/ SendExtended \/ ExtendedFails
         \/ RequestMetadata \/ Decode \/ RequestPiece \/ Overruns
         \/ BodySpins \/ UNCHANGED vars
  PROVE  FrameInv'
<1> USE DEF At, Goto, Crash, receiver, remote, session, vars
<1>1. /\ UNCHANGED <<sent, stream, cut, length, bytes_received, out>>
      /\ metadata' \in {metadata, <<>>}
  BY DEF Connect, SendHandshake, SendExtended, ExtendedFails, RequestMetadata,
         Decode, LeaveMetadata, RequestPiece, Overruns, BodySpins, Eof, TimedOut
<1>2. pc' = "body" <=> pc = "body"
  BY DEF Connect, SendHandshake, SendExtended, ExtendedFails, RequestMetadata,
         Decode, LeaveMetadata, RequestPiece, Overruns, BodySpins, Unanswered
<1>3. /\ StreamInv' /\ AtStart' = AtStart
      /\ \A copy : Clean(copy)' = Clean(copy)
  BY <1>1, FrameKept DEF FrameInv
<1>4. ~cut => LoopInv'
  <2>1. \A m : Reading(m)' = Reading(m)
    BY <1>1, <1>3 DEF Reading
  <2>2. ASSUME ~cut, NEW i \in DOMAIN metadata'
        PROVE  Clean(metadata[i])'
    <3>1. metadata' = metadata
      BY <1>1, <2>2, NoUnits
    <3>2. Clean(metadata[i])
      BY <2>2, <3>1 DEF FrameInv, LoopInv
    <3> QED
      BY <1>3, <3>1, <3>2
  <2> QED
    BY <1>1, <1>2, <1>3, <2>1, <2>2 DEF LoopInv, FrameInv
<1>5. StartInv'
  <2> USE <1>1 DEF StartInv, FrameInv, Opening, Sends, SendFails
  <2>1. CASE Connect
    BY <2>1 DEF Connect
  <2>2. CASE SendHandshake
    BY <2>2 DEF SendHandshake
  <2>3. CASE SendExtended
    BY <2>3 DEF SendExtended
  <2>4. CASE ExtendedFails
    BY <2>4 DEF ExtendedFails, Unanswered
  <2>5. CASE RequestMetadata
    <3>1. pc = "get_metadata" /\ pc' \in {"get_metadata", "header"}
      BY <2>5 DEF RequestMetadata
    <3>2. asked' \in {asked, asked \cup {piece}} /\ piece # Hello
      BY <2>5 DEF RequestMetadata, TypeOK, Hello
    <3>3. Hello \notin asked => Hello \notin asked'
      BY <3>2
    <3> QED
      BY <3>1, <3>3
  <2>6. CASE Decode
    BY <2>6 DEF Decode, LeaveMetadata
  <2>7. CASE RequestPiece
    BY <2>7 DEF RequestPiece
  <2>8. CASE Overruns
    BY <2>8 DEF Overruns
  <2>9. CASE BodySpins
    BY <2>9 DEF BodySpins
  <2>10. CASE UNCHANGED vars
    BY <2>10
  <2> QED
    BY <2>1, <2>2, <2>3, <2>4, <2>5, <2>6, <2>7, <2>8, <2>9, <2>10
<1> QED
  BY <1>1, <1>3, <1>4, <1>5 DEF FrameInv

(* The two receives that know no border of a message. *)
LEMMA UnframedSteps ==
  ASSUME TypeOK, CountInv, FrameInv, ReceiveHandshake \/ ReceiveExtended
  PROVE  FrameInv'
<1> USE DEF At, Goto, Crash, receiver, remote, session
<1>1. /\ UNCHANGED <<sent, asked, metadata>>
      /\ pc \in {"handshake", "extended"}
      /\ pc' \notin Opening \cup {"body"}
  BY DEF ReceiveHandshake, ReceiveExtended, Opening
<1>2. CASE UNCHANGED stream /\ cut'
  <2>1. StreamInv'
    BY <1>1, <1>2, FrameKept DEF FrameInv
  <2> QED
    BY <1>1, <1>2, <2>1 DEF FrameInv, StartInv, Opening
<1>3. ASSUME NEW k \in 1..Len(stream), Got(k),
             cut' = ~EndsMessage(First(k)) \/ cut' = (cut \/ ~EndsMessage(First(k))),
             pc = "handshake" \/ cut' = (cut \/ ~EndsMessage(First(k)))
      PROVE  FrameInv'
  <2>1. k \in Nat \ {0}
    OBVIOUS
  <2>2. /\ StreamInv' /\ stream # <<>>
        /\ stream' # <<>> => /\ k + 1 \in DOMAIN stream /\ stream'[1] = stream[k + 1]
                             /\ stream'[1].at = 0 => Framed(stream'[1].msg)
        /\ EndsMessage(First(k)) => AtStart'
    <3>1. StreamInv /\ UNCHANGED sent
      BY <1>1 DEF FrameInv
    <3> QED
      BY <1>3, <2>1, <3>1, FrameReceived
  <2>3. \A copy : Clean(copy)' = Clean(copy)
    BY <1>1 DEF Clean
  <2>4. ~cut' => AtStart'
    BY <1>3, <2>2
  <2>5. StartInv'
    <3>1. /\ stream' # <<>> => sent' # {}
          /\ ~cut' => (stream' # <<>> => Framed(stream'[1].msg)) /\ sent' # {}
      <4>1. ~cut' /\ stream' # <<>> => stream'[1].at = 0
        BY <2>4 DEF AtStart
      <4>2. sent' = sent /\ sent # {}
        BY <1>1, <2>2 DEF FrameInv, StartInv
      <4> QED
        BY <2>2, <4>1, <4>2
    <3> QED
      BY <1>1, <3>1 DEF StartInv, Opening
  <2>6. ~cut' => LoopInv'
    <3>1. ~cut' => ~cut
      BY <1>1, <1>3 DEF FrameInv, StartInv, Opening
    <3> QED
      BY <1>1, <2>3, <2>4, <3>1 DEF FrameInv, LoopInv
  <2> QED
    BY <2>2, <2>3, <2>5, <2>6 DEF FrameInv
<1> QED
  BY <1>2, <1>3 DEF ReceiveHandshake, ReceiveExtended, Eof, TimedOut

LEMMA Prefixes ==
  ASSUME TypeOK, CountInv, FrameInv, ReceivePrefix
  PROVE  FrameInv'
<1> USE DEF At, Goto, receiver, remote, session
<1>1. /\ UNCHANGED <<sent, asked, metadata>> /\ pc = "header" /\ pc' = "body"
      /\ bytes_received' = 0 /\ out' = <<>> /\ cut \in BOOLEAN
  BY DEF ReceivePrefix, TypeOK
<1>2. \A copy : Clean(copy)' = Clean(copy)
  BY <1>1 DEF Clean
<1>3. CASE UNCHANGED <<stream, cut>> /\ length' \in PrefixValues(<<>>)
  <2>1. StreamInv' /\ AtStart' = AtStart /\ length' = 0
    BY <1>1, <1>3, FrameKept DEF FrameInv, PrefixValues
  <2>2. StartInv'
    BY <1>1, <1>3 DEF FrameInv, StartInv, Opening
  <2>3. ~cut => LoopInv'
    BY <1>1, <1>2, <2>1 DEF FrameInv, LoopInv
  <2> QED
    BY <1>3, <2>1, <2>2, <2>3 DEF FrameInv
<1>4. ASSUME NEW k \in 1..Prefix, Got(k), length' \in PrefixValues(First(k)),
             cut' = (cut \/ k < Prefix)
      PROVE  FrameInv'
  <2>1. k \in Nat \ {0} /\ k \in {1, 2}
    BY DEF Prefix
  <2>2. /\ StreamInv' /\ stream # <<>>
        /\ stream' # <<>> => /\ k + 1 \in DOMAIN stream /\ stream'[1] = stream[k + 1]
                             /\ stream'[1].at = 0 => Framed(stream'[1].msg)
        /\ EndsMessage(First(k)) => AtStart'
    <3>1. StreamInv /\ UNCHANGED sent
      BY <1>1 DEF FrameInv
    <3> QED
      BY <1>4, <2>1, <3>1, FrameReceived
  <2>3. ASSUME ~cut'
        PROVE  /\ stream' # <<>> => Framed(stream'[1].msg)
               /\ length' \in Nat /\ (length' = 0 => AtStart')
               /\ length' > 0 => \E m \in sent : Reading(m)'
    <3> PICK m : m = stream[1].msg
      OBVIOUS
    <3>1. ~cut /\ k = 2
      <4>1. ~cut /\ ~(k < Prefix)
        BY <1>1, <1>4, <2>3, Zenon
      <4> QED
        BY <2>1, <4>1 DEF Prefix
    <3>2. stream[1].at = 0 /\ Framed(m)
      BY <1>1, <2>2, <3>1 DEF FrameInv, LoopInv, AtStart, StartInv, Opening
    <3>3. 1 \in DOMAIN stream /\ m \in sent /\ m.body \in Nat
      <4>1. 1 \in DOMAIN stream
        BY <2>2 DEF TypeOK
      <4>2. m \in sent
        BY <4>1, LastUnits
      <4>3. m.body \in 0..(PieceUnits + DictUnits)
        BY <4>2, Bodies
      <4> QED
        BY <4>1, <4>2, <4>3
    <3>4. First(k) \in Seq(Units) /\ Len(First(k)) = 2 /\ First(k) # <<>>
          /\ First(k)[1] = stream[1] /\ First(k)[2] = stream[2]
      <4>1. First(k) \in Seq(Units) /\ Len(First(k)) = k /\ First(k)[1] = stream[1]
            /\ First(k)[k] = stream[k]
        BY <1>4, <2>1, GotEffect
      <4> QED
        BY <3>1, <4>1
    <3>5. length' = m.body
      BY <1>4, <3>2, <3>4 DEF PrefixValues, AtBorder, Prefix
    <3>6. LastUnit(m) = Prefix + m.body - 1
      BY <3>2 DEF LastUnit
    <3>7. \A d \in 0..(m.body + 1) :
            /\ 1 + d \in DOMAIN stream
            /\ stream[1 + d] = [msg |-> m, at |-> d]
      <4>1. LastUnit(stream[1].msg) - stream[1].at = m.body + 1
        BY <3>2, <3>3, <3>6 DEF Prefix
      <4>2. \A d \in 0..(m.body + 1) :
              /\ 1 + d \in DOMAIN stream
              /\ stream[1 + d] = [msg |-> m, at |-> stream[1].at + d]
        BY <3>3, <4>1 DEF FrameInv, StreamInv, Lined
      <4> QED
        BY <3>2, <4>2
    <3>8. CASE m.body = 0
      <4>1. stream[2] = [msg |-> m, at |-> 1]
        <5>1. 1 \in 0..(m.body + 1) /\ 1 + 1 = 2
          BY <3>8
        <5> QED
          BY <3>7, <5>1
      <4>2. EndsMessage(First(k))
        BY <3>4, <3>6, <3>8, <4>1 DEF EndsMessage, Prefix
      <4>3. AtStart'
        BY <2>2, <4>2
      <4>4. stream' # <<>> => Framed(stream'[1].msg)
        BY <2>2, <4>3 DEF AtStart
      <4> QED
        BY <3>5, <3>8, <4>3, <4>4
    <3>9. CASE m.body > 0
      <4>1. 1 + 2 \in DOMAIN stream /\ stream[1 + 2] = [msg |-> m, at |-> 2]
        <5>1. 2 \in 0..(m.body + 1)
          BY <3>3, <3>9
        <5> QED
          BY <3>7, <5>1
      <4>2. stream' # <<>>
        <5>1. Len(stream') = Len(stream) - k /\ stream' \in Seq(Units)
          BY <1>4, <2>1, GotEffect
        <5>2. Len(stream) >= 3 /\ Len(stream) \in Nat
          BY <4>1, LastUnits
        <5>3. Len(stream') > 0
          BY <3>1, <5>1, <5>2
        <5> QED
          BY <5>1, <5>3
      <4>3. stream'[1] = [msg |-> m, at |-> Prefix]
        <5>1. k + 1 = 1 + 2 /\ stream'[1] = stream[k + 1]
          BY <2>2, <3>1, <4>2
        <5> QED
          BY <4>1, <5>1 DEF Prefix
      <4>4. Reading(m)'
        <5>1. SubSeq(Body(m), 1, 0) = <<>>
          OBVIOUS
        <5>2. /\ bytes_received' \in 0..length' /\ bytes_received' # length'
              /\ Prefix + bytes_received' = Prefix
          BY <1>1, <3>3, <3>5, <3>9 DEF Prefix
        <5> QED
          BY <1>1, <3>2, <3>5, <4>2, <4>3, <5>1, <5>2 DEF Reading
      <4>5. stream'[1].msg = m
        BY <4>3
      <4> QED
        BY <3>2, <3>3, <3>5, <3>9, <4>4, <4>5
    <3> QED
      BY <3>3, <3>8, <3>9
  <2>4. StartInv'
    BY <1>1, <2>2, <2>3, <1>4 DEF FrameInv, StartInv, Opening
  <2>5. ASSUME ~cut'
        PROVE  LoopInv'
    <3>1. ~cut
      BY <1>4, <2>5
    <3>2. \A i \in DOMAIN metadata' : Clean(metadata[i])'
      BY <1>1, <1>2, <3>1 DEF FrameInv, LoopInv
    <3>3. length' > 0 => (\E m \in sent : Reading(m))'
      BY <1>1, <2>3, <2>5
    <3>4. length' = 0 => AtStart'
      BY <2>3, <2>5
    <3> QED
      BY <1>1, <3>2, <3>3, <3>4 DEF LoopInv
  <2> QED
    BY <2>2, <2>4, <2>5 DEF FrameInv
<1> QED
  BY <1>3, <1>4 DEF ReceivePrefix, Eof, TimedOut

LEMMA Extended ==
  ASSUME NEW b \in Seq(Units), NEW c \in Seq(Units), NEW x \in Nat, NEW k \in Nat,
         x + k <= Len(b), Len(c) = k, \A i \in 1..k : c[i] = b[x + i]
  PROVE  SubSeq(SubSeq(b, 1, x), 1, x) \o c = SubSeq(b, 1, x + k)
<1> DEFINE o == SubSeq(b, 1, x)
           p == SubSeq(o, 1, x)
<1>0. Len(b) \in Nat /\ x \in 0..Len(b) /\ x + k \in 0..Len(b)
  OBVIOUS
<1>1. o \in Seq(Units) /\ Len(o) = x /\ \A i \in 1..x : o[i] = b[i]
  BY <1>0, Take
<1> HIDE DEF o
<1>2. p \in Seq(Units) /\ Len(p) = x /\ \A i \in 1..x : p[i] = o[i]
  <2>1. x \in 0..Len(o)
    BY <1>1
  <2>2. /\ SubSeq(o, 1, x) \in Seq(Units) /\ Len(SubSeq(o, 1, x)) = x
        /\ \A i \in 1..x : SubSeq(o, 1, x)[i] = o[i]
    BY <1>1, <2>1, Take
  <2> QED
    BY <2>2
<1> HIDE DEF p
<1>3. /\ p \o c \in Seq(Units) /\ Len(p \o c) = x + k
      /\ \A i \in 1..x : (p \o c)[i] = p[i]
      /\ \A i \in 1..k : (p \o c)[x + i] = c[i]
  <2>1. /\ p \o c \in Seq(Units) /\ Len(p \o c) = Len(p) + Len(c)
        /\ \A i \in 1..Len(p) : (p \o c)[i] = p[i]
        /\ \A i \in 1..Len(c) : (p \o c)[Len(p) + i] = c[i]
    <3>1. p \in Seq(Units) /\ c \in Seq(Units)
      BY <1>2
    <3> QED
      BY ONLY <3>1, Joined
  <2> QED
    BY <1>2, <2>1
<1>4. /\ SubSeq(b, 1, x + k) \in Seq(Units) /\ Len(SubSeq(b, 1, x + k)) = x + k
      /\ \A i \in 1..(x + k) : SubSeq(b, 1, x + k)[i] = b[i]
  BY <1>0, Take
<1>5. ASSUME NEW i \in 1..(x + k)
      PROVE  (p \o c)[i] = b[i]
  <2>1. CASE i \in 1..x
    BY <1>1, <1>2, <1>3, <2>1
  <2>2. CASE i \notin 1..x
    <3>1. i - x \in 1..k /\ x + (i - x) = i
      BY <2>2
    <3>2. (p \o c)[x + (i - x)] = c[i - x] /\ c[i - x] = b[x + (i - x)]
      BY <1>3, <3>1
    <3> QED
      BY <3>1, <3>2
  <2> QED
    BY <2>1, <2>2
<1>6. p \o c = SubSeq(b, 1, x + k)
  <2>1. \A i \in 1..Len(p \o c) : (p \o c)[i] = SubSeq(b, 1, x + k)[i]
    BY <1>3, <1>4, <1>5
  <2> QED
    BY <1>3, <1>4, <2>1, SameUnits
<1> QED
  BY <1>6 DEF o, p

(* The next units of the message in the loop. *)
LEMMA BodySteps ==
  ASSUME TypeOK, CountInv, FrameInv, ReceiveBody
  PROVE  FrameInv'
<1> USE DEF At, receiver, remote, session
<1>1. PICK k \in 1..Missing :
        /\ Got(k)
        /\ out' = SubSeq(out, 1, pos - Prefix) \o First(k)
        /\ bytes_received' = bytes_received + k
  BY DEF ReceiveBody, Counted
<1>2. /\ UNCHANGED <<sent, asked, metadata, pc, length, cut>> /\ pc = "body" /\ More
      /\ length \in Nat /\ out \in Seq(Units) /\ stream \in Seq(Units)
  BY DEF ReceiveBody, TypeOK
<1>3. bytes_received \in Nat /\ bytes_received < length /\ pos - Prefix = bytes_received
  <2>1. bytes_received >= 0 /\ bytes_received < length
    BY <1>2, MoreIsLess
  <2>2. pos = Prefix + bytes_received /\ bytes_received \in Nat
    BY <1>2, <2>1 DEF CountInv, TypeOK
  <2> QED
    BY <2>1, <2>2 DEF Prefix
<1>4. k \in Nat \ {0} /\ bytes_received + k <= length
  BY <1>2, <1>3 DEF Missing
<1>5. /\ StreamInv' /\ stream # <<>>
      /\ stream' # <<>> => /\ k + 1 \in DOMAIN stream /\ stream'[1] = stream[k + 1]
                           /\ stream'[1].at = 0 => Framed(stream'[1].msg)
  <2>1. StreamInv /\ UNCHANGED sent
    BY <1>2 DEF FrameInv
  <2> QED
    BY <1>1, <1>4, <2>1, FrameReceived
<1>6. \A copy : Clean(copy)' = Clean(copy)
  BY <1>2 DEF Clean
<1>7. ASSUME ~cut
      PROVE  /\ \E m \in sent : Reading(m)'
             /\ stream' # <<>> => Framed(stream'[1].msg)
  <2>1. PICK m \in sent : Reading(m)
    BY <1>2, <1>3, <1>7 DEF FrameInv, LoopInv
  <2>2. /\ Framed(m) /\ length = m.body
        /\ out = SubSeq(Body(m), 1, bytes_received)
        /\ stream[1] = [msg |-> m, at |-> Prefix + bytes_received]
    BY <1>3, <2>1 DEF Reading
  <2>3. 1 \in DOMAIN stream /\ m \in Messages
    BY <1>2, <1>5, <2>1, LastUnits, Bodies
  <2>4. LastUnit(m) - stream[1].at = length - 1 - bytes_received
    <3>1. LastUnit(m) = Prefix + length - 1
      BY <2>2 DEF LastUnit
    <3> QED
      BY <1>2, <1>3, <2>2, <3>1 DEF Prefix
  <2>5. \A d \in 0..(length - 1 - bytes_received) :
          /\ 1 + d \in DOMAIN stream
          /\ stream[1 + d] = [msg |-> m, at |-> Prefix + bytes_received + d]
    <3>1. \A d \in 0..(LastUnit(stream[1].msg) - stream[1].at) :
            /\ 1 + d \in DOMAIN stream
            /\ stream[1 + d] = [msg |-> stream[1].msg, at |-> stream[1].at + d]
      BY <2>3 DEF FrameInv, StreamInv, Lined
    <3> QED
      BY <2>2, <2>4, <3>1
  <2>6. /\ Body(m) \in Seq(Units) /\ Len(Body(m)) = length
        /\ \A i \in 1..length : Body(m)[i] = [msg |-> m, at |-> Prefix + i - 1]
    <3>1. Body(m) = [i \in 1..length |-> [msg |-> m, at |-> Prefix + i - 1]]
      BY <2>2 DEF Body
    <3>2. \A i \in 1..length : [msg |-> m, at |-> Prefix + i - 1] \in Units
      BY <1>2, <2>3 DEF Units, Prefix
    <3> QED
      BY <1>2, <3>1, <3>2
  <2>7. out' = SubSeq(Body(m), 1, bytes_received')
    <3>1. First(k) \in Seq(Units) /\ Len(First(k)) = k /\ \A i \in 1..k : First(k)[i] = stream[i]
      BY <1>1, <1>4, GotEffect
    <3>2. ASSUME NEW i \in 1..k
          PROVE  First(k)[i] = Body(m)[bytes_received + i]
      <4>1. i - 1 \in 0..(length - 1 - bytes_received) /\ 1 + (i - 1) = i
            /\ bytes_received + i \in 1..length
            /\ Prefix + bytes_received + (i - 1) = Prefix + (bytes_received + i) - 1
        BY <1>2, <1>3, <1>4 DEF Prefix
      <4>2. stream[1 + (i - 1)] = [msg |-> m, at |-> Prefix + bytes_received + (i - 1)]
        BY <2>5, <4>1
      <4> QED
        BY <2>6, <3>1, <4>1, <4>2
    <3>3. SubSeq(SubSeq(Body(m), 1, bytes_received), 1, bytes_received) \o First(k)
            = SubSeq(Body(m), 1, bytes_received + k)
      BY <1>3, <1>4, <2>6, <3>1, <3>2, Extended
    <3> QED
      BY <1>1, <1>3, <2>2, <3>3
  <2>8. ASSUME bytes_received' < length
        PROVE  /\ stream' # <<>>
               /\ stream'[1] = [msg |-> m, at |-> Prefix + bytes_received']
    <3>1. k \in 0..(length - 1 - bytes_received)
          /\ Prefix + bytes_received + k = Prefix + bytes_received'
      BY <1>1, <1>2, <1>3, <1>4, <2>8 DEF Prefix
    <3>2. /\ 1 + k \in DOMAIN stream
          /\ stream[1 + k] = [msg |-> m, at |-> Prefix + bytes_received']
      BY <2>5, <3>1
    <3>3. stream' # <<>>
      <4>1. Len(stream') = Len(stream) - k /\ stream' \in Seq(Units)
        BY <1>1, <1>4, GotEffect
      <4>2. 1 + k <= Len(stream) /\ Len(stream) \in Nat
        BY <1>2, <3>2
      <4>3. Len(stream') > 0
        BY <1>4, <4>1, <4>2
      <4> QED
        BY <4>1, <4>3
    <3>4. 1 + k = k + 1
      BY <1>4
    <3> QED
      BY <1>5, <3>2, <3>3, <3>4
  <2>9. ASSUME bytes_received' = length, stream' # <<>>
        PROVE  stream'[1].at = 0
    <3>1. 1 + (length - 1 - bytes_received) + 1 = k + 1
      BY <1>1, <1>2, <1>3, <1>4, <2>9
    <3>2. LET behind == LastUnit(stream[1].msg) - stream[1].at
          IN 1 + behind + 1 \in DOMAIN stream => stream[1 + behind + 1].at = 0
      BY <2>3 DEF FrameInv, StreamInv, Lined
    <3>3. k + 1 \in DOMAIN stream => stream[k + 1].at = 0
      BY <2>2, <2>4, <3>1, <3>2
    <3> QED
      BY <1>5, <2>9, <3>3
  <2>10. bytes_received' \in 0..length
    BY <1>1, <1>2, <1>3, <1>4
  <2>11. Reading(m)'
    <3>1. length' = length
      BY <1>2
    <3>2. bytes_received' = length => AtStart'
      BY <2>9 DEF AtStart
    <3> QED
      BY <2>2, <2>7, <2>8, <2>10, <3>1, <3>2 DEF Reading
  <2>12. stream' # <<>> => Framed(stream'[1].msg)
    <3>1. CASE bytes_received' < length
      BY <2>2, <2>8, <3>1
    <3>2. CASE bytes_received' = length
      BY <1>5, <2>9, <3>2
    <3> QED
      BY <1>2, <2>10, <3>1, <3>2
  <2> QED
    BY <2>11, <2>12
<1>8. StartInv'
  BY <1>2, <1>5, <1>7 DEF FrameInv, StartInv, Opening
<1>9. ~cut => LoopInv'
  BY <1>2, <1>3, <1>6, <1>7 DEF FrameInv, LoopInv
<1> QED
  BY <1>2, <1>5, <1>6, <1>8, <1>9 DEF FrameInv

(* What a message as a whole is copied to. *)
LEMMA CleanCopy ==
  ASSUME NEW m \in sent, out = Body(m), m.body \in Nat, NEW dict \in DictionaryEnds(out)
  PROVE  Clean(Copied(out, dict))
<1>1. Len(out) = m.body
  BY DEF Body
<1>2. dict \in 1..m.body /\ (m.kind = "metadata" => dict = m.dict)
  BY <1>1 DEF DictionaryEnds
<1>3. Copied(out, dict) = Stripped(Body(m), dict)
  BY DEF Copied
<1> QED
  BY <1>2, <1>3 DEF Clean

(* A step of the loop that receives nothing. *)
LEMMA LoopSteps ==
  ASSUME TypeOK, CountInv, FrameInv,
         BodyTimesOut \/ ReceiveFails \/ AcceptMetadata \/ AcceptPiece
  PROVE  FrameInv'
<1> USE DEF At, Goto, Crash, LeaveMetadata, receiver, remote, session
<1>1. UNCHANGED <<sent, stream, asked>> /\ pc = "body"
      /\ pc' \in Sessions \ Opening
  BY DEF BodyTimesOut, ReceiveFails, AcceptMetadata, AcceptPiece, TimedOut, Sessions, Opening
<1>2. /\ StreamInv' /\ AtStart' = AtStart
      /\ \A copy : Clean(copy)' = Clean(copy)
  BY <1>1, FrameKept DEF FrameInv
<1>3. CASE BodyTimesOut
  <2>1. cut'
    BY <1>3 DEF BodyTimesOut
  <2>2. StartInv'
    BY <1>1, <2>1 DEF FrameInv, StartInv, Opening
  <2> QED
    BY <1>2, <2>1, <2>2 DEF FrameInv
<1>4. CASE ReceiveFails \/ AcceptMetadata \/ AcceptPiece
  <2>1. cut' = cut /\ ~More
    BY <1>4 DEF ReceiveFails, AcceptMetadata, AcceptPiece
  <2>2. StartInv'
    BY <1>1, <2>1 DEF FrameInv, StartInv, Opening
  <2>3. length \in Nat /\ bytes_received \in Nat \cup {-1}
    BY DEF TypeOK
  <2>4. ASSUME ~cut, length > 0
        PROVE  AtStart /\ \E m \in sent : out = Body(m) /\ m.body \in Nat
    <3>1. PICK m \in sent : Reading(m)
      BY <1>1, <2>4 DEF FrameInv, LoopInv
    <3>2. bytes_received = length
      <4>1. ~(bytes_received >= 0 /\ bytes_received < length)
        BY <1>1, <2>1, MoreIsLess
      <4>2. bytes_received \in 0..length
        BY <3>1 DEF Reading
      <4> QED
        BY <2>3, <4>1, <4>2
    <3>3. m \in Messages /\ length = m.body
      BY <3>1, Bodies DEF Reading
    <3>4. Body(m) \in Seq(Units) /\ Len(Body(m)) = length
      <4>1. Body(m) = [i \in 1..length |-> [msg |-> m, at |-> Prefix + i - 1]]
        BY <3>3 DEF Body
      <4>2. \A i \in 1..length : [msg |-> m, at |-> Prefix + i - 1] \in Units
        BY <2>3, <3>3 DEF Units, Prefix
      <4> QED
        BY <2>3, <4>1, <4>2
    <3>5. SubSeq(Body(m), 1, length) = Body(m)
      <4>1. length \in 0..Len(Body(m))
        BY <2>3, <3>4
      <4>2. /\ SubSeq(Body(m), 1, length) \in Seq(Units)
            /\ Len(SubSeq(Body(m), 1, length)) = length
            /\ \A i \in 1..length : SubSeq(Body(m), 1, length)[i] = Body(m)[i]
        BY <3>4, <4>1, Take
      <4> QED
        BY <3>4, <4>2, SameUnits
    <3> QED
      BY <2>3, <3>1, <3>2, <3>3, <3>5 DEF Reading
  <2>5. ASSUME ~cut
        PROVE  AtStart
    <3>1. CASE length > 0
      BY <2>4, <2>5, <3>1
    <3>2. CASE length = 0
      BY <1>1, <2>5, <3>2 DEF FrameInv, LoopInv
    <3> QED
      BY <2>3, <3>1, <3>2
  <2>6. CASE pc' # "body"
    <3>1. ASSUME ~cut, NEW i \in DOMAIN metadata'
          PROVE  Clean(metadata'[i])
      <4>1. CASE metadata' = metadata
        BY <3>1, <4>1 DEF FrameInv, LoopInv
      <4>2. CASE metadata' = <<>>
        BY <3>1, <4>2, NoUnits
      <4>3. ASSUME NEW dict \in DictionaryEnds(out),
                   metadata' = Append(metadata, Copied(out, dict)), AcceptMetadata
            PROVE  Clean(metadata'[i])
        <5>1. length > 0
          <6>1. bytes_received > 0
            BY <4>3 DEF AcceptMetadata, Received
          <6>2. bytes_received <= length
            BY <1>1 DEF CountInv
          <6> QED
            BY <2>3, <6>1, <6>2
        <5>2. Clean(Copied(out, dict))
          <6>1. PICK m \in sent : out = Body(m) /\ m.body \in Nat
            BY <2>4, <3>1, <5>1
          <6> QED
            BY <6>1, CleanCopy
        <5>3. CASE i \in DOMAIN metadata
          <6>1. metadata'[i] = metadata[i]
            BY <4>3, <5>3 DEF TypeOK
          <6> QED
            BY <3>1, <5>3, <6>1 DEF FrameInv, LoopInv
        <5>4. CASE i \notin DOMAIN metadata
          <6>1. metadata'[i] = Copied(out, dict)
            BY <3>1, <4>3, <5>4 DEF TypeOK
          <6> QED
            BY <5>2, <6>1
        <5> QED
          BY <5>3, <5>4
      <4> QED
        BY <1>1, <1>4, <2>6, <4>1, <4>2, <4>3 DEF ReceiveFails, AcceptMetadata, AcceptPiece
    <3>2. ~cut => LoopInv'
      BY <1>1, <1>2, <2>5, <2>6, <3>1 DEF LoopInv
    <3> QED
      BY <1>2, <2>1, <2>2, <3>2 DEF FrameInv
  <2>7. CASE pc' = "body"
    <3>1. UNCHANGED <<metadata, length, bytes_received, out>>
      BY <1>4, <2>7 DEF ReceiveFails, AcceptMetadata, AcceptPiece
    <3>2. \A m : Reading(m)' = Reading(m)
      BY <1>1, <1>2, <3>1 DEF Reading
    <3>3. ~cut => LoopInv'
      BY <1>1, <1>2, <2>1, <2>7, <3>1, <3>2 DEF FrameInv, LoopInv
    <3> QED
      BY <1>2, <2>1, <2>2, <3>3 DEF FrameInv
  <2> QED
    BY <2>6, <2>7
<1> QED
  BY <1>3, <1>4

(* A message of the peer. *)
LEMMA MessageSteps ==
  ASSUME TypeOK, CountInv, FrameInv, NEW m \in Messages,
         PeerSends(m), Hello \notin asked => Hello \notin asked',
         sent # {} => Framed(m), sent = {} => Hello \in asked
  PROVE  FrameInv'
<1> USE DEF receiver, remote, session
<1>1. UNCHANGED <<pc, length, bytes_received, out, metadata, cut>>
  BY DEF PeerSends
<1>2. /\ StreamInv' /\ sent' = sent \cup {m} /\ stream' # <<>>
      /\ stream # <<>> => stream'[1] = stream[1]
      /\ stream = <<>> => stream'[1] = [msg |-> m, at |-> 0]
  <2>1. StreamInv /\ (stream # <<>> => Framed(m))
    BY DEF FrameInv, StartInv
  <2> QED
    BY <2>1, FrameSent
<1>3. AtStart => AtStart'
  BY <1>2 DEF AtStart
<1>4. StartInv'
  <2>1. pc \notin {"connect", "send_handshake"}
    <3>1. pc # "connect"
      BY DEF PeerSends, Connected
    <3>2. pc = "send_handshake" => sent = {} /\ Hello \notin asked
      BY DEF FrameInv, StartInv
    <3> QED
      BY <3>1, <3>2
  <2>2. pc \notin Opening /\ ~cut => Framed(stream'[1].msg)
    <3>1. CASE stream # <<>>
      BY <1>2, <3>1 DEF FrameInv, StartInv
    <3>2. CASE stream = <<>>
      <4>1. pc \notin Opening /\ ~cut => Framed(m)
        BY DEF FrameInv, StartInv
      <4>2. stream'[1].msg = m
        BY <1>2, <3>2
      <4> QED
        BY <4>1, <4>2
    <3> QED
      BY <3>1, <3>2
  <2> QED
    BY <1>1, <1>2, <2>1, <2>2 DEF FrameInv, StartInv
<1>5. ASSUME ~cut
      PROVE  LoopInv'
  <2>1. ASSUME NEW r \in sent, Reading(r)
        PROVE  Reading(r)'
    BY <1>1, <1>2, <1>3, <2>1 DEF Reading
  <2>2. \A i \in DOMAIN metadata' : Clean(metadata[i])'
    <3>1. \A copy : Clean(copy) => Clean(copy)'
      BY <1>2 DEF Clean
    <3>2. \A i \in DOMAIN metadata : Clean(metadata[i])
      BY <1>5 DEF FrameInv, LoopInv
    <3> QED
      BY <1>1, <3>1, <3>2
  <2> QED
    BY <1>1, <1>2, <1>3, <1>5, <2>1, <2>2 DEF FrameInv, LoopInv
<1> QED
  BY <1>1, <1>2, <1>4, <1>5 DEF FrameInv

LEMMA RemoteSteps ==
  ASSUME TypeOK, CountInv, FrameInv, RemoteStep
  PROVE  FrameInv'
<1> USE DEF Greeted
<1>1. CASE PeerHandshake
  <2>1. /\ PeerSends(Plain("handshake", 0)) /\ Hello \in asked /\ sent = {}
    BY <1>1 DEF PeerHandshake
  <2>2. Plain("handshake", 0) \in Messages
    BY PlainMessages DEF Kinds
  <2> QED
    BY <2>1, <2>2, MessageSteps
<1>2. CASE PeerExtended
  <2>1. /\ PeerSends(Plain("extended", 1)) /\ asked' = asked /\ sent # {}
    BY <1>2 DEF PeerExtended
  <2>2. Plain("extended", 1) \in Messages /\ Framed(Plain("extended", 1))
    BY PlainMessages DEF Kinds, Framed
  <2> QED
    BY <2>1, <2>2, MessageSteps
<1>3. CASE PeerMetadata
  <2>1. PICK p \in asked \ {Hello}, dict \in 1..DictUnits :
          PeerSends(Answer(p, dict)) /\ asked' = asked \ {p}
    BY <1>3 DEF PeerMetadata
  <2>2. Answer(p, dict) \in Messages /\ Framed(Answer(p, dict))
    BY Answers DEF Framed
  <2>3. sent # {}
    BY <1>3 DEF PeerMetadata
  <2> QED
    BY <2>1, <2>2, <2>3, MessageSteps
<1>4. CASE PeerOther
  <2>1. PICK len \in {0, 1} : PeerSends(Plain("other", len))
    BY <1>4 DEF PeerOther
  <2>2. asked' = asked /\ sent # {}
    BY <1>4 DEF PeerOther
  <2>3. Plain("other", len) \in Messages /\ Framed(Plain("other", len))
    BY PlainMessages DEF Kinds, Framed
  <2> QED
    BY <2>1, <2>2, <2>3, MessageSteps
<1>5. CASE PeerCloses
  <2>1. UNCHANGED <<sent, stream, asked, pc, cut, metadata, length, bytes_received, out>>
    BY <1>5 DEF PeerCloses, receiver, session
  <2>2. /\ StreamInv' /\ AtStart' = AtStart
        /\ \A copy : Clean(copy)' = Clean(copy)
    BY <2>1, FrameKept DEF FrameInv
  <2>3. \A m : Reading(m)' = Reading(m)
    BY <2>1, <2>2 DEF Reading
  <2>4. StartInv' /\ (~cut => LoopInv')
    BY <2>1, <2>2, <2>3 DEF FrameInv, StartInv, LoopInv
  <2> QED
    BY <2>1, <2>2, <2>4 DEF FrameInv
<1> QED
  BY <1>1, <1>2, <1>3, <1>4, <1>5 DEF RemoteStep

LEMMA FrameInit == Init => FrameInv
<1> SUFFICES ASSUME Init
             PROVE  FrameInv
  OBVIOUS
<1>1. DOMAIN stream = {} /\ DOMAIN metadata = {} /\ sent = {}
  BY NoUnits DEF Init
<1> QED
  BY <1>1 DEF Init, FrameInv, StreamInv, Lined, StartInv, LoopInv, AtStart, Opening

LEMMA FrameNext == TypeOK /\ CountInv /\ FrameInv /\ [Next]_vars => FrameInv'
  BY QuietSteps, UnframedSteps, Prefixes, BodySteps, LoopSteps, RemoteSteps
  DEF Next, ClientStep

(* However TCP cuts the stream into receives, a client that lost no count is
   between two messages whenever it starts to read, and what it took as metadata
   are bodies of messages behind their dictionaries, followed by as much of the
   heap (peer_metadata_packet.c:105-116, 177-214).                              *)
THEOREM FramesKept == Spec => []FramingKept
<1>1. Init => FrameInv
  BY FrameInit
<1>2. TypeOK /\ CountInv /\ FrameInv /\ [Next]_vars => FrameInv'
  BY FrameNext
<1>3. TypeOK /\ CountInv /\ FrameInv => FramingKept
  <2> SUFFICES ASSUME TypeOK, CountInv, FrameInv, ~cut
               PROVE  FramingKept
    BY DEF FramingKept
  <2>1. ASSUME NEW m \in sent, Reading(m), length \in Nat, stream # <<>>,
               bytes_received < length
        PROVE  stream[1] = Body(m)[bytes_received + 1]
    <3>1. bytes_received + 1 \in 1..m.body /\ length = m.body
          /\ Prefix + (bytes_received + 1) - 1 = Prefix + bytes_received
          /\ stream[1] = [msg |-> m, at |-> Prefix + bytes_received]
      BY <2>1 DEF Reading, Prefix
    <3>2. Body(m)[bytes_received + 1]
            = [msg |-> m, at |-> Prefix + (bytes_received + 1) - 1]
      BY <3>1 DEF Body
    <3> QED
      BY <3>1, <3>2
  <2>2. pc # "body" /\ stream # <<>> => AtBorder(stream[1])
    BY DEF FrameInv, LoopInv, AtStart, AtBorder
  <2>3. ASSUME pc = "body", length > 0
        PROVE  \E m \in sent :
                 /\ length = m.body /\ bytes_received <= length
                 /\ out = SubSeq(Body(m), 1, bytes_received)
                 /\ bytes_received < length /\ stream # <<>> =>
                      stream[1] = Body(m)[bytes_received + 1]
    <3>1. PICK m \in sent : Reading(m)
      BY <2>3 DEF FrameInv, LoopInv
    <3>2. length \in Nat /\ bytes_received <= length
      BY <2>3 DEF TypeOK, CountInv
    <3>3. length = m.body /\ out = SubSeq(Body(m), 1, bytes_received)
      BY <3>1 DEF Reading
    <3> QED
      BY <2>1, <3>1, <3>2, <3>3
  <2>4. \A i \in DOMAIN metadata :
          \E m \in sent : \E dict \in 1..m.body :
            /\ metadata[i] = Stripped(Body(m), dict)
            /\ m.kind = "metadata" => dict = m.dict
    BY DEF FrameInv, LoopInv, Clean
  <2> QED
    BY <2>2, <2>3, <2>4 DEF FramingKept
<1> QED
  BY <1>1, <1>2, <1>3, TypeInvariant, PTL DEF Spec

-----------------------------------------------------------------------------
(* The room for the metadata: no piece beyond num_pieces is asked for, and a
   message that was framed right brings at most a dictionary and a piece.     *)
PieceInv ==
  /\ num_pieces \in {0, size \div PieceUnits}
  /\ piece <= num_pieces
  /\ pc \in {"header", "body"} /\ goal = "metadata" => piece < num_pieces
  /\ ~cut => metadata_pos <= piece * (PieceUnits + DictUnits)

LEMMA OneMore ==
  ASSUME NEW a \in Nat, NEW l \in Nat, NEW i \in Nat, NEW c \in Nat,
         a <= i * c, l <= c
  PROVE  a + l <= (i + 1) * c
<1>1. (i + 1) * c = i * c + c
  OBVIOUS
<1>2. i * c \in Nat
  OBVIOUS
<1> QED
  BY <1>1, <1>2

(* The step that copies a message. *)
LEMMA Copies ==
  ASSUME TypeOK, CountInv, FrameInv, PieceInv, AcceptMetadata
  PROVE  PieceInv'
<1>1. /\ pc = "body" /\ goal = "metadata" /\ UNCHANGED <<num_pieces, size, cut, goal>>
      /\ \/ /\ piece' = piece + 1 /\ pc' = "get_metadata"
            /\ metadata_pos' = metadata_pos + length
         \/ pc' = pc /\ UNCHANGED <<piece, metadata_pos>>
  BY DEF AcceptMetadata, ResponseLength, At, Crash, remote
<1>2. piece < num_pieces /\ piece \in Nat /\ num_pieces \in Nat
  BY <1>1 DEF PieceInv, TypeOK
<1>3. ASSUME ~cut
      PROVE  metadata_pos + length <= (piece + 1) * (PieceUnits + DictUnits)
  <2>1. length \in Nat /\ length <= PieceUnits + DictUnits
    <3>1. length \in Nat /\ PieceUnits + DictUnits \in Nat
      BY PeerAssumption DEF TypeOK
    <3>2. CASE length > 0
      <4>1. PICK m \in sent : Reading(m)
        BY <1>1, <1>3, <3>2 DEF FrameInv, LoopInv
      <4> QED
        BY <3>1, <4>1, Bodies DEF Reading
    <3> QED
      BY <3>1, <3>2
  <2>2. metadata_pos <= piece * (PieceUnits + DictUnits)
    BY <1>3 DEF PieceInv
  <2>3. metadata_pos \in Nat /\ piece \in Nat /\ PieceUnits + DictUnits \in Nat
    BY PeerAssumption DEF TypeOK
  <2> QED
    BY <2>1, <2>2, <2>3, OneMore
<1> QED
  BY <1>1, <1>2, <1>3 DEF PieceInv

LEMMA PieceNext ==
  ASSUME TypeOK, CountInv, FrameInv, PieceInv, [Next]_vars
  PROVE  PieceInv'
<1> USE DEF At, Goto, Crash, receiver, remote, session
<1>1. ASSUME UNCHANGED <<num_pieces, size, piece, metadata_pos, goal>>, cut => cut',
             pc' \in {"header", "body"} => pc \in {"header", "body"} \/ goal = "piece"
      PROVE  PieceInv'
  BY <1>1 DEF PieceInv, TypeOK
<1>2. CASE Connect \/ SendHandshake \/ SendExtended \/ ExtendedFails
  BY <1>1, <1>2 DEF Connect, SendHandshake, SendExtended, ExtendedFails, Unanswered
<1>3. CASE ReceiveHandshake
  <2>1. ~cut
    BY <1>3 DEF ReceiveHandshake, FrameInv, StartInv, Opening
  <2> QED
    BY <1>1, <1>3, <2>1 DEF ReceiveHandshake
<1>4. CASE ReceiveExtended
  <2>1. CASE UNCHANGED <<num_pieces, piece, metadata_pos>>
    BY <1>1, <1>4, <2>1 DEF ReceiveExtended
  <2>2. CASE /\ num_pieces' = size \div PieceUnits /\ piece' = 0 /\ metadata_pos' = 0
             /\ pc' = "get_metadata"
    <3>1. size' = size /\ size \in Nat
      BY <1>4, PeerAssumption DEF ReceiveExtended, TypeOK
    <3>2. size \div PieceUnits \in Nat
      BY <3>1, Pieces
    <3>3. 0 <= 0 * (PieceUnits + DictUnits)
      BY PeerAssumption
    <3> QED
      BY <2>2, <3>1, <3>2, <3>3 DEF PieceInv
  <2> QED
    BY <1>4, <2>1, <2>2 DEF ReceiveExtended
<1>5. CASE RequestMetadata
  <2>1. /\ pc = "get_metadata" /\ piece < num_pieces
        /\ UNCHANGED <<num_pieces, size, metadata_pos, cut>>
        /\ \/ piece' = piece
           \/ piece' = piece + 1 /\ pc' = pc
    BY <1>5 DEF RequestMetadata
  <2>2. ~cut => metadata_pos + 0 <= (piece + 1) * (PieceUnits + DictUnits)
    BY PeerAssumption, OneMore DEF PieceInv, TypeOK
  <2> QED
    BY <2>1, <2>2 DEF PieceInv, TypeOK
<1>6. CASE RequestPiece
  BY <1>6 DEF RequestPiece, PieceInv, TypeOK
<1>7. CASE ReceivePrefix
  BY <1>1, <1>7 DEF ReceivePrefix
<1>8. CASE Overruns \/ ReceiveBody \/ BodyTimesOut \/ BodySpins \/ AcceptPiece
  BY <1>1, <1>8 DEF Overruns, ReceiveBody, BodyTimesOut, BodySpins, AcceptPiece
<1>9. CASE AcceptMetadata
  BY <1>9, Copies
<1>10. CASE RemoteStep
  BY <1>1, <1>10
  DEF RemoteStep, PeerHandshake, PeerExtended, PeerMetadata, PeerOther, PeerCloses, PeerSends
<1>11. CASE UNCHANGED vars
  BY <1>1, <1>11 DEF vars
<1>12. CASE Decode \/ ReceiveFails
  <2>1. CASE UNCHANGED <<metadata_pos>>
    BY <1>1, <1>12, <2>1 DEF Decode, ReceiveFails, LeaveMetadata
  <2>2. CASE LeaveMetadata
    <3>1. UNCHANGED <<num_pieces, piece, size>> /\ metadata_pos' = 0 /\ pc' = "get_piece"
      BY <1>12, <2>2 DEF Decode, ReceiveFails, LeaveMetadata
    <3>2. piece \in Nat /\ PieceUnits + DictUnits \in Nat
      BY PeerAssumption DEF TypeOK
    <3>3. piece * (PieceUnits + DictUnits) \in Nat
      BY <3>2
    <3> QED
      BY <3>1, <3>3 DEF PieceInv
  <2> QED
    BY <1>12, <2>1, <2>2 DEF Decode, ReceiveFails
<1> QED
  BY <1>12, <1>2, <1>3, <1>4, <1>5, <1>6, <1>7, <1>8, <1>9, <1>10, <1>11 DEF Next, ClientStep

(* p: a piece, d: the longest dictionary, n: the pieces asked for. *)
LEMMA RoomEnough ==
  ASSUME NEW p \in Nat, NEW d \in 1..(p - 1), NEW s \in Nat, NEW n \in Nat \ {0},
         n = s \div p, n = 1 => s >= p + d + 2
  PROVE  n * (p + d) + 1 < s * n
<1>1. CASE n = 1
  BY <1>1
<1>2. CASE n # 1
  <2>1. s >= n * p
    OBVIOUS
  <2>2. s >= 2 * p
    <3>1. n * p >= 2 * p
      BY <1>2
    <3> QED
      BY <2>1, <3>1
  <2>3. s * n >= (2 * p) * n
    BY <2>2
  <2>4. (2 * p) * n = n * (p + d) + n * (p - d)
    OBVIOUS
  <2>5. n * (p - d) >= 2
    <3>1. p - d >= 1 /\ p - d \in Nat /\ n >= 2
      BY <1>2
    <3> QED
      BY <3>1
  <2> QED
    BY <2>3, <2>4, <2>5
<1> QED
  BY <1>1, <1>2

(* Every message copied to meta_data fits, with the byte behind it that is
   cleared (peer.c:195-223), although the array has no room for dictionaries:
   the last, shorter piece is never asked for.  As long as no recv failed
   inside a message, and unless the metadata is of one piece and no more than a
   dictionary and the byte above it.                                         *)
THEOREM MetadataHasRoom == Spec => []MetadataFits
<1>1. Init => PieceInv
  BY PeerAssumption DEF Init, PieceInv
<1>2. TypeOK /\ CountInv /\ FrameInv /\ PieceInv /\ [Next]_vars => PieceInv'
  BY PieceNext
<1>3. TypeOK /\ PieceInv => MetadataFits
  <2> SUFFICES ASSUME TypeOK, PieceInv, ~cut, num_pieces > 0,
                      num_pieces = 1 => size >= LeastOfOne
               PROVE  metadata_pos + 1 < size * num_pieces
    BY DEF MetadataFits, Room
  <2> DEFINE c == PieceUnits + DictUnits
  <2>1. /\ size \in Nat /\ PieceUnits \in Nat /\ DictUnits \in 1..(PieceUnits - 1)
        /\ c \in Nat /\ metadata_pos \in Nat /\ piece \in Nat
        /\ num_pieces \in Nat \ {0} /\ num_pieces = size \div PieceUnits
        /\ piece <= num_pieces
    BY PeerAssumption DEF TypeOK, PieceInv
  <2>2. num_pieces * c + 1 < size * num_pieces
    BY <2>1, RoomEnough DEF LeastOfOne
  <2>3. metadata_pos <= piece * c
    BY DEF PieceInv
  <2> HIDE DEF c
  <2>4. piece * c <= num_pieces * c
    BY <2>1
  <2>5. /\ piece * c \in Nat /\ num_pieces * c \in Nat /\ size * num_pieces \in Nat
    BY <2>1
  <2> QED
    BY <2>1, <2>2, <2>3, <2>4, <2>5
<1>4. Init => FrameInv
  BY FrameInit
<1>5. TypeOK /\ CountInv /\ FrameInv /\ [Next]_vars => FrameInv'
  BY FrameNext
<1> QED
  BY <1>1, <1>2, <1>3, <1>4, <1>5, TypeInvariant, PTL DEF Spec
=============================================================================
