----------------------------- MODULE Wire_proofs -----------------------------
(***************************************************************************)
(* Proofs about the datagrams of the tracker protocol, for any ids, hashes,*)
(* lists of peers and refusals, and on a host of either byte order.        *)
(***************************************************************************)
EXTENDS Wire, TLAPS

LOCAL INSTANCE SequencesExt

-----------------------------------------------------------------------------
(* Words: what is laid one behind the other, and taken out again *)

LEMMA Words ==
  ASSUME NEW n \in Nat, NEW w \in Word(n)
  PROVE  w \in Seq(Byte) /\ Len(w) = n /\ \A j \in 1..n : w[j] \in Byte
BY DEF Word

LEMMA WordOf ==
  ASSUME NEW n \in Nat, NEW w \in Seq(Byte), Len(w) = n
  PROVE  w \in Word(n)
BY DEF Word

LEMMA SameWord ==
  ASSUME NEW n \in Nat, NEW v \in Word(n), NEW w \in Word(n), \A j \in 1..n : v[j] = w[j]
  PROVE  v = w
BY DEF Word

LEMMA Joined ==
  ASSUME NEW m \in Nat, NEW n \in Nat, NEW x \in Word(m), NEW y \in Word(n)
  PROVE  /\ x \o y \in Word(m + n)
         /\ \A j \in 1..m : (x \o y)[j] = x[j]
         /\ \A j \in 1..n : (x \o y)[m + j] = y[j]
<1>1. x \in Seq(Byte) /\ Len(x) = m /\ y \in Seq(Byte) /\ Len(y) = n
  BY Words
<1> DEFINE z == x \o y
<1>2. z \in Seq(Byte) /\ Len(z) = m + n
  BY <1>1
<1>3. /\ \A j \in 1..m : z[j] = x[j]
      /\ \A j \in 1..n : z[m + j] = y[j]
  BY <1>1
<1> HIDE DEF z
<1>4. z \in Word(m + n)
  BY <1>2, WordOf
<1> QED
  BY <1>3, <1>4 DEF z

LEMMA Laid ==
  ASSUME NEW m \in Nat, NEW n \in Nat, NEW x \in Word(m), NEW y \in Word(n)
  PROVE  /\ x \o y \in Word(m + n)
         /\ At(x \o y, m, n) = y
         /\ \A p, k \in Nat : p + k <= m => At(x \o y, p, k) = At(x, p, k)
         /\ \A p, k \in Nat : p + k <= n => At(x \o y, m + p, k) = At(y, p, k)
<1>1. x \in Seq(Byte) /\ Len(x) = m /\ y \in Seq(Byte) /\ Len(y) = n
  BY Words
<1>2. x \o y \in Word(m + n)
  BY Joined
<1>3. At(x \o y, m, n) = y
  BY <1>1 DEF At
<1>4. \A p, k \in Nat : p + k <= m => At(x \o y, p, k) = At(x, p, k)
  BY <1>1 DEF At
<1>5. \A p, k \in Nat : p + k <= n => At(x \o y, m + p, k) = At(y, p, k)
  BY <1>1 DEF At
<1> QED
  BY <1>2, <1>3, <1>4, <1>5

LEMMA Whole ==
  ASSUME NEW n \in Nat, NEW w \in Word(n)
  PROVE  At(w, 0, n) = w
<1>1. w \in Seq(Byte) /\ Len(w) = n
  BY Words
<1> QED
  BY <1>1 DEF At

LEMMA Slice ==
  ASSUME NEW n \in Nat, NEW w \in Word(n), NEW p \in Nat, NEW k \in Nat, p + k <= n
  PROVE  At(w, p, k) \in Word(k) /\ \A j \in 1..k : At(w, p, k)[j] = w[p + j]
<1>1. w \in Seq(Byte) /\ Len(w) = n
  BY Words
<1> DEFINE z == At(w, p, k)
<1>2. z \in Seq(Byte) /\ Len(z) = k /\ \A j \in 1..k : z[j] = w[p + j]
  BY <1>1 DEF At
<1> HIDE DEF z
<1>3. z \in Word(k)
  BY <1>2, WordOf
<1> QED
  BY <1>2, <1>3 DEF z

LEMMA Split ==
  ASSUME NEW m \in Nat, NEW n \in Nat, NEW w \in Word(m + n)
  PROVE  w = At(w, 0, m) \o At(w, m, n)
<1> DEFINE x == At(w, 0, m)
           y == At(w, m, n)
<1>1. /\ x \in Word(m) /\ \A j \in 1..m : x[j] = w[0 + j]
      /\ y \in Word(n) /\ \A j \in 1..n : y[j] = w[m + j]
  BY Slice
<1> HIDE DEF x, y
<1>2. /\ x \o y \in Word(m + n)
      /\ \A j \in 1..m : (x \o y)[j] = x[j]
      /\ \A j \in 1..n : (x \o y)[m + j] = y[j]
  BY <1>1, Joined
<1>3. \A j \in 1..(m + n) : (x \o y)[j] = w[j]
  <2>1. TAKE j \in 1..(m + n)
  <2>2. CASE j \in 1..m
    <3>1. 0 + j = j
      OBVIOUS
    <3>2. x[j] = w[0 + j]
      BY <1>1, <2>2
    <3> QED
      BY <1>2, <2>2, <3>1, <3>2
  <2>3. CASE j \notin 1..m
    <3>1. j - m \in 1..n /\ m + (j - m) = j
      BY <2>3
    <3> QED
      BY <1>1, <1>2, <3>1
  <2> QED
    BY <2>2, <2>3
<1>4. m + n \in Nat
  OBVIOUS
<1>5. x \o y = w
  BY <1>2, <1>3, <1>4, SameWord, Zenon
<1> QED
  BY <1>5 DEF x, y

-----------------------------------------------------------------------------
(* Words in memory *)

LEMMA Reversed ==
  ASSUME NEW n \in Nat, NEW w \in Word(n)
  PROVE  /\ Reverse(w) \in Word(n)
         /\ \A j \in 1..n : Reverse(w)[j] = w[n - j + 1]
<1>1. Len(w) = n /\ \A j \in 1..n : w[j] \in Byte
  BY Words
<1>2. Reverse(w) = [j \in 1..n |-> w[n - j + 1]]
  BY <1>1 DEF Reverse
<1>3. \A j \in 1..n : n - j + 1 \in 1..n
  OBVIOUS
<1> QED
  BY <1>1, <1>2, <1>3 DEF Word

LEMMA TwiceReversed ==
  ASSUME NEW n \in Nat, NEW w \in Word(n)
  PROVE  Reverse(Reverse(w)) = w
<1>1. Reverse(w) \in Word(n) /\ \A j \in 1..n : Reverse(w)[j] = w[n - j + 1]
  BY Reversed
<1>2. /\ Reverse(Reverse(w)) \in Word(n)
      /\ \A j \in 1..n : Reverse(Reverse(w))[j] = Reverse(w)[n - j + 1]
  BY <1>1, Reversed
<1>3. \A j \in 1..n : n - j + 1 \in 1..n /\ n - (n - j + 1) + 1 = j
  OBVIOUS
<1>4. \A j \in 1..n : Reverse(Reverse(w))[j] = w[j]
  BY <1>1, <1>2, <1>3
<1> QED
  BY <1>2, <1>4, SameWord

LEMMA JoinedReversed ==
  ASSUME NEW m \in Nat, NEW n \in Nat, NEW x \in Word(m), NEW y \in Word(n)
  PROVE  Reverse(x \o y) = Reverse(y) \o Reverse(x)
<1> DEFINE u == Reverse(y)
           v == Reverse(x)
           z == x \o y
<1>1. /\ z \in Word(m + n)
      /\ \A j \in 1..m : z[j] = x[j]
      /\ \A j \in 1..n : z[m + j] = y[j]
  BY Joined
<1>2. /\ u \in Word(n) /\ \A j \in 1..n : u[j] = y[n - j + 1]
      /\ v \in Word(m) /\ \A j \in 1..m : v[j] = x[m - j + 1]
  BY Reversed
<1> HIDE DEF u, v, z
<1>3. /\ u \o v \in Word(n + m)
      /\ \A j \in 1..n : (u \o v)[j] = u[j]
      /\ \A j \in 1..m : (u \o v)[n + j] = v[j]
  BY <1>2, Joined
<1>4. Reverse(z) \in Word(m + n) /\ \A j \in 1..(m + n) : Reverse(z)[j] = z[(m + n) - j + 1]
  <2>1. m + n \in Nat
    OBVIOUS
  <2> QED
    BY <1>1, <2>1, Reversed
<1>5. \A j \in 1..(m + n) : (u \o v)[j] = Reverse(z)[j]
  <2>1. TAKE j \in 1..(m + n)
  <2>2. CASE j \in 1..n
    <3>1. (m + n) - j + 1 = m + (n - j + 1) /\ n - j + 1 \in 1..n
      BY <2>2
    <3>2. z[m + (n - j + 1)] = y[n - j + 1]
      BY <1>1, <3>1
    <3> QED
      BY <1>2, <1>3, <1>4, <2>2, <3>1, <3>2
  <2>3. CASE j \notin 1..n
    <3> DEFINE i == j - n
    <3>1. i \in 1..m /\ n + i = j /\ m - i + 1 \in 1..m /\ (m + n) - j + 1 = m - i + 1
      BY <2>3
    <3> HIDE DEF i
    <3>2. (u \o v)[n + i] = x[m - i + 1]
      BY <1>2, <1>3, <3>1
    <3>3. Reverse(z)[j] = x[m - i + 1]
      BY <1>1, <1>4, <3>1
    <3> QED
      BY <3>1, <3>2, <3>3
  <2> QED
    BY <2>2, <2>3
<1>6. m + n \in Nat /\ m + n = n + m
  OBVIOUS
<1>7. u \o v = Reverse(z)
  BY <1>3, <1>4, <1>5, <1>6, SameWord
<1> QED
  BY <1>7 DEF u, v, z

LEMMA Endianess == little_endianess <=> host = "little"
<1>1. InMemory(<<1, 35, 69, 103>>)[1] = IF host = "little" THEN 103 ELSE 1
  BY DEF InMemory, Reverse
<1> QED
  BY <1>1 DEF little_endianess

(* What a conversion makes of a word lies in memory with the most significant
   byte first.                                                               *)
LEMMA Converted ==
  ASSUME NEW n \in Nat, NEW w \in Word(n)
  PROVE  /\ InMemory(w) \in Word(n) /\ InMemory(InMemory(w)) = w
         /\ htonl_util(w) = InMemory(w)
<1>1. InMemory(w) = IF host = "little" THEN Reverse(w) ELSE w
  BY DEF InMemory
<1>2. InMemory(w) \in Word(n)
  BY <1>1, Reversed
<1>3. InMemory(InMemory(w)) = w
  BY <1>1, TwiceReversed DEF InMemory
<1>4. htonl_util(w) = InMemory(w)
  BY <1>1, Endianess DEF htonl_util, ntohl
<1> QED
  BY <1>2, <1>3, <1>4

LEMMA ConvertedLong ==
  ASSUME NEW w \in Word(8)
  PROVE  htonll_util(w) = InMemory(w) /\ ntohll_util(w) = InMemory(w)
<1> DEFINE high == At(w, 0, 4)
           low == At(w, 4, 4)
<1>1. w \in Word(4 + 4)
  OBVIOUS
<1>2. high \in Word(4) /\ low \in Word(4)
  BY <1>1, Slice
<1>3. w = high \o low
  BY <1>1, Split
<1>4. SubSeq(w, 5, 8) = low /\ SubSeq(w, 1, 4) = high
  BY DEF At
<1> HIDE DEF high, low
<1>5. Reverse(w) = Reverse(low) \o Reverse(high)
  BY <1>2, <1>3, JoinedReversed
<1>6. host = "little" => byteswap64(w) = Reverse(w)
  BY <1>4, <1>5, Zenon DEF byteswap64, ntohl
<1> QED
  BY <1>6, Endianess, Zenon DEF htonll_util, ntohll_util, InMemory

-----------------------------------------------------------------------------
(* The inductive invariant: what lies in a datagram, and in the buffer it was
   received into, at each step of the exchange.                              *)

(* What is read of a list: the peers that the buffer holds. *)
Listed ==
  LET room == (BufSize - 20) \div 6
  IN IF Len(said.peers) > room THEN SubSeq(said.peers, 1, room) ELSE said.peers

WireTypes ==
  /\ host \in {"little", "big"}
  /\ pc \in {"start", "connect", "connect_answer", "announcing", "announce",
             "announce_answer", "peers", "read", "sessions", "refused", "crashed"}
  /\ hash \in Hashes
  /\ tid \in Word(4) /\ connection_id \in Word(8) /\ issued \in Word(8)
  /\ connected \in {0, 1}
  /\ said \in [ok : BOOLEAN, peers : Seq(Peer)]
  /\ datagram \in Seq(Byte)
  /\ peers \in Seq(Peer)
  /\ reach <= BufSize

(* The action and the transaction id of an answer. *)
Headed(bytes, action) ==
  /\ At(bytes, 0, 4) = Int32(IF said.ok THEN action ELSE 3)
  /\ At(bytes, 4, 4) = InMemory(tid)

(* A list of peers behind a header of 20 bytes. *)
LaidOut(bytes, list) ==
  \A j \in DOMAIN list :
    /\ At(bytes, 20 + 6 * (j - 1), 4) = list[j].ip
    /\ At(bytes, 24 + 6 * (j - 1), 2) = list[j].port

(* A request as the tracker will read it. *)
RequestInv ==
  /\ pc = "connect" =>
       /\ datagram \in Word(16)
       /\ At(datagram, 0, 8) = ProtocolId /\ At(datagram, 8, 4) = Int32(0)
       /\ At(datagram, 12, 4) = InMemory(tid)
  /\ pc = "announce" =>
       /\ datagram \in Word(100)
       /\ At(datagram, 0, 8) = issued /\ At(datagram, 8, 4) = Int32(1)
       /\ At(datagram, 12, 4) = InMemory(tid)
       /\ At(datagram, 16, Len(hash.means)) = hash.means
       /\ At(datagram, 80, 4) = Int32(2) /\ At(datagram, 92, 4) = Int32(1)

ConnectInv ==
  /\ pc \in {"start", "connect", "connect_answer"} => connected = 0
  /\ pc \in {"announcing", "announce"} => connected = 1
  /\ connected = 1 => connection_id = issued
  /\ pc = "announcing" => said.ok
  /\ pc = "connect_answer" =>
       /\ Len(datagram) >= 8 /\ Headed(datagram, 0)
       /\ said.ok => Len(datagram) >= 16 /\ At(datagram, 8, 8) = issued

ListInv ==
  /\ pc \notin {"peers", "read", "sessions"} => peers = <<>>
  /\ pc = "announce_answer" =>
       /\ Len(datagram) >= 8 /\ Headed(datagram, 1)
       /\ said.ok => /\ Len(datagram) = 20 + 6 * Len(said.peers)
                     /\ LaidOut(datagram, said.peers)
  /\ pc \in {"peers", "read"} =>
       /\ out \in Word(BufSize) /\ res_size \in 0..BufSize /\ Headed(out, 1)
       /\ peer_position = 6 * Len(peers)
       /\ said.ok => res_size = 20 + 6 * Len(Listed) /\ LaidOut(out, Listed)
  /\ pc \in {"peers", "read", "sessions"} /\ said.ok => reach <= res_size
  /\ pc = "peers" /\ said.ok =>
       /\ Len(peers) <= Len(Listed)
       /\ \A j \in DOMAIN peers : peers[j] = LocalPeer /\ ~NoIp(Listed[j])
  /\ pc \in {"read", "sessions"} /\ said.ok => peers = OneEach(Named(Listed))
  /\ pc = "sessions" => said.ok
  /\ pc = "refused" => ~said.ok

WireInv == WireTypes /\ RequestInv /\ ConnectInv /\ ListInv

-----------------------------------------------------------------------------
(* Datagrams *)

LEMMA SameSlice ==
  ASSUME NEW n \in Nat, NEW w \in Word(n), NEW p \in Nat, NEW k \in Nat, p + k <= n,
         NEW q \in Nat, NEW m \in Nat, q + m <= k
  PROVE  At(At(w, p, k), q, m) = At(w, p + q, m)
<1>1. w \in Seq(Byte) /\ Len(w) = n
  BY Words
<1> QED
  BY <1>1 DEF At

LEMMA Constants ==
  /\ \A n \in Byte : Int32(n) \in Word(4)
  /\ ProtocolId \in Word(8)
  /\ PeerId \in Word(20)
  /\ \A n \in Nat : Zeros(n) \in Word(n)
<1>1. \A n \in Byte : Int32(n) \in Word(4)
  BY DEF Int32, Word, Byte
<1>2. ProtocolId \in Word(8)
  BY DEF ProtocolId, Word, Byte
<1>3. PeerId \in Word(20)
  BY DEF PeerId, Word, Byte
<1>4. \A n \in Nat : Zeros(n) \in Word(n)
  BY DEF Zeros, Word, Byte
<1> QED
  BY <1>1, <1>2, <1>3, <1>4

LEMMA DifferentActions == Int32(3) # Int32(0) /\ Int32(3) # Int32(1)
BY DEF Int32

(* A converted word is sent as it is written. *)
LEMMA SentAsMeant ==
  /\ \A n \in Byte : InMemory(htonl_util(Int32(n))) = Int32(n)
  /\ \A w \in Word(8) : InMemory(htonll_util(w)) = w
  /\ InMemory(htonl_util(Zeros(2))) = Zeros(2)
<1>1. \A n \in Byte : InMemory(htonl_util(Int32(n))) = Int32(n)
  BY Constants, Converted
<1>2. \A w \in Word(8) : InMemory(htonll_util(w)) = w
  BY Converted, ConvertedLong
<1>3. InMemory(htonl_util(Zeros(2))) = Zeros(2)
  BY Constants, Converted
<1> QED
  BY <1>1, <1>2, <1>3

LEMMA Small == {0, 1, 2, 3, 60} \subseteq Byte
BY DEF Byte

LEMMA ConnectRead ==
  ASSUME NEW t \in Word(4)
  PROVE  /\ ConnectBytes(t) \in Word(16)
         /\ At(ConnectBytes(t), 0, 8) = ProtocolId
         /\ At(ConnectBytes(t), 8, 4) = Int32(0)
         /\ At(ConnectBytes(t), 12, 4) = InMemory(t)
<1>1. ConnectBytes(t) = ProtocolId \o Int32(0) \o InMemory(t)
  BY Constants, SentAsMeant, Small, Zenon DEF ConnectBytes
<1>2. ProtocolId \in Word(8) /\ Int32(0) \in Word(4) /\ InMemory(t) \in Word(4)
  BY Constants, Small, Converted
<1> DEFINE x == ProtocolId \o Int32(0)
<1>3. x \in Word(12) /\ At(x, 0, 8) = ProtocolId /\ At(x, 8, 4) = Int32(0)
  BY <1>2, Laid, Whole
<1> HIDE DEF x
<1>4. x \o InMemory(t) \in Word(16)
  BY <1>2, <1>3, Laid
<1>5. At(x \o InMemory(t), 12, 4) = InMemory(t)
  BY <1>2, <1>3, Laid
<1>6. At(x \o InMemory(t), 0, 8) = ProtocolId /\ At(x \o InMemory(t), 8, 4) = Int32(0)
  BY <1>2, <1>3, Laid
<1> QED
  BY <1>1, <1>4, <1>5, <1>6 DEF x

LEMMA HeadRead ==
  ASSUME connection_id \in Word(8), NEW t \in Word(4), NEW h \in Word(20)
  PROVE  /\ AnnounceHead(t, h) \in Word(56)
         /\ At(AnnounceHead(t, h), 0, 8) = connection_id
         /\ At(AnnounceHead(t, h), 8, 4) = Int32(1)
         /\ At(AnnounceHead(t, h), 12, 4) = InMemory(t)
         /\ At(AnnounceHead(t, h), 16, 20) = h
<1>1. AnnounceHead(t, h) = connection_id \o Int32(1) \o InMemory(t) \o h \o PeerId
  BY SentAsMeant, Small, Zenon DEF AnnounceHead
<1>2. Int32(1) \in Word(4) /\ InMemory(t) \in Word(4) /\ PeerId \in Word(20)
  BY Constants, Small, Converted
<1> DEFINE x == connection_id \o Int32(1)
           y == x \o InMemory(t)
           z == y \o h
<1>3. x \in Word(12) /\ At(x, 0, 8) = connection_id /\ At(x, 8, 4) = Int32(1)
  BY <1>2, Laid, Whole
<1> HIDE DEF x
<1>4. y \in Word(16) /\ At(y, 0, 8) = At(x, 0, 8) /\ At(y, 8, 4) = At(x, 8, 4)
      /\ At(y, 12, 4) = InMemory(t)
  BY <1>2, <1>3, Laid
<1> HIDE DEF y
<1>5. z \in Word(36) /\ At(z, 0, 8) = At(y, 0, 8) /\ At(z, 8, 4) = At(y, 8, 4)
      /\ At(z, 12, 4) = At(y, 12, 4) /\ At(z, 16, 20) = h
  BY <1>4, Laid
<1> HIDE DEF z
<1>6. /\ z \o PeerId \in Word(56)
      /\ At(z \o PeerId, 0, 8) = At(z, 0, 8) /\ At(z \o PeerId, 8, 4) = At(z, 8, 4)
      /\ At(z \o PeerId, 12, 4) = At(z, 12, 4) /\ At(z \o PeerId, 16, 20) = At(z, 16, 20)
  <2>1. z \o PeerId \in Word(56)
    BY <1>2, <1>5, Laid
  <2>2. \A p, k \in Nat : p + k <= 36 => At(z \o PeerId, p, k) = At(z, p, k)
    BY <1>2, <1>5, Laid
  <2> QED
    BY <2>1, <2>2
<1>7. AnnounceHead(t, h) = z \o PeerId
  BY <1>1 DEF x, y, z
<1> QED
  BY <1>3, <1>4, <1>5, <1>6, <1>7

LEMMA CountsRead ==
  /\ AnnounceCounts \in Word(40)
  /\ At(AnnounceCounts, 24, 4) = Int32(2) /\ At(AnnounceCounts, 36, 4) = Int32(1)
<1> DEFINE z == Zeros(8)
           x == z \o z
           y == x \o z
           u == y \o Int32(2)
           v == u \o Int32(0)
           w == v \o Int32(1)
<1>1. AnnounceCounts = w \o Int32(1)
  BY Constants, SentAsMeant, Small DEF AnnounceCounts
<1>2. /\ z \in Word(8) /\ Int32(0) \in Word(4) /\ Int32(1) \in Word(4) /\ Int32(2) \in Word(4)
  BY Constants, Small
<1> HIDE DEF z
<1>3. x \in Word(16)
  BY <1>2, Laid
<1> HIDE DEF x
<1>4. y \in Word(24)
  BY <1>2, <1>3, Laid
<1> HIDE DEF y
<1>5. u \in Word(28) /\ At(u, 24, 4) = Int32(2)
  BY <1>2, <1>4, Laid
<1> HIDE DEF u
<1>6. v \in Word(32) /\ At(v, 24, 4) = At(u, 24, 4)
  BY <1>2, <1>5, Laid
<1> HIDE DEF v
<1>7. w \in Word(36) /\ At(w, 24, 4) = At(v, 24, 4)
  BY <1>2, <1>6, Laid
<1> HIDE DEF w
<1>8. /\ w \o Int32(1) \in Word(40)
      /\ At(w \o Int32(1), 24, 4) = At(w, 24, 4) /\ At(w \o Int32(1), 36, 4) = Int32(1)
  BY <1>2, <1>7, Laid
<1> QED
  BY <1>1, <1>5, <1>6, <1>7, <1>8

LEMMA AnnounceRead ==
  ASSUME connection_id \in Word(8), NEW t \in Word(4), NEW h \in Word(20)
  PROVE  /\ AnnounceBytes(t, h) \in Word(100)
         /\ At(AnnounceBytes(t, h), 0, 8) = connection_id
         /\ At(AnnounceBytes(t, h), 8, 4) = Int32(1)
         /\ At(AnnounceBytes(t, h), 12, 4) = InMemory(t)
         /\ At(AnnounceBytes(t, h), 16, 20) = h
         /\ At(AnnounceBytes(t, h), 80, 4) = Int32(2)
         /\ At(AnnounceBytes(t, h), 92, 4) = Int32(1)
<1> DEFINE a == AnnounceHead(t, h)
           c == AnnounceCounts
           x == a \o c
           e == Zeros(2)
           y == x \o e
<1>1. AnnounceBytes(t, h) = y \o e
  BY SentAsMeant, Zenon DEF AnnounceBytes
<1>2. a \in Word(56) /\ c \in Word(40) /\ e \in Word(2)
  BY HeadRead, CountsRead, Constants
<1> HIDE DEF a, c, e
<1>3. /\ x \in Word(96)
      /\ \A p, k \in Nat : p + k <= 56 => At(x, p, k) = At(a, p, k)
      /\ \A p, k \in Nat : p + k <= 40 => At(x, 56 + p, k) = At(c, p, k)
  <2>1. x \in Word(96)
    BY <1>2, Laid
  <2>2. \A p, k \in Nat : p + k <= 56 => At(x, p, k) = At(a, p, k)
    BY <1>2, Laid
  <2>3. \A p, k \in Nat : p + k <= 40 => At(x, 56 + p, k) = At(c, p, k)
    BY <1>2, Laid
  <2> QED
    BY <2>1, <2>2, <2>3
<1>4. At(x, 80, 4) = At(c, 24, 4) /\ At(x, 92, 4) = At(c, 36, 4)
  <2>1. At(x, 56 + 24, 4) = At(c, 24, 4)
    BY <1>3
  <2>2. At(x, 56 + 36, 4) = At(c, 36, 4)
    BY <1>3
  <2> QED
    BY <2>1, <2>2
<1> HIDE DEF x
<1>5. y \in Word(98) /\ \A p, k \in Nat : p + k <= 96 => At(y, p, k) = At(x, p, k)
  <2>1. y \in Word(98)
    BY <1>2, <1>3, Laid
  <2>2. \A p, k \in Nat : p + k <= 96 => At(y, p, k) = At(x, p, k)
    BY <1>2, <1>3, Laid
  <2> QED
    BY <2>1, <2>2
<1> HIDE DEF y
<1>6. y \o e \in Word(100) /\ \A p, k \in Nat : p + k <= 98 => At(y \o e, p, k) = At(y, p, k)
  <2>1. y \o e \in Word(100)
    BY <1>2, <1>5, Laid
  <2>2. \A p, k \in Nat : p + k <= 98 => At(y \o e, p, k) = At(y, p, k)
    BY <1>2, <1>5, Laid
  <2> QED
    BY <2>1, <2>2
<1>7. \A p, k \in Nat : p + k <= 56 => At(y \o e, p, k) = At(a, p, k)
  BY <1>3, <1>5, <1>6
<1>8. At(y \o e, 80, 4) = Int32(2) /\ At(y \o e, 92, 4) = Int32(1)
  <2>1. At(y \o e, 80, 4) = At(x, 80, 4) /\ At(y \o e, 92, 4) = At(x, 92, 4)
    BY <1>5, <1>6
  <2> QED
    BY <1>4, <2>1, CountsRead DEF c
<1>9. /\ At(y \o e, 0, 8) = At(a, 0, 8) /\ At(y \o e, 8, 4) = At(a, 8, 4)
      /\ At(y \o e, 12, 4) = At(a, 12, 4) /\ At(y \o e, 16, 20) = At(a, 16, 20)
  BY <1>7
<1> QED
  BY <1>1, <1>6, <1>8, <1>9, HeadRead DEF a

(* Whatever the heap and the stack hold, the bytes of the hash are written from
   its pairs of digits.                                                      *)
LEMMA HashSent ==
  ASSUME hash \in Hashes, Len(info_hash_list) >= 3, NEW heap, NEW stack \in Stale
  PROVE  LET h == InfoHashBytes(info_hash_list[3], heap, stack)
             k == Len(hash.means)
         IN h \in Word(20) /\ k \in Nat /\ k <= 20 /\ At(h, 0, k) = hash.means
<1> DEFINE part == info_hash_list[3]
           h == InfoHashBytes(part, heap, stack)
           k == Len(hash.means)
           Two(n) == Scanned(CharAt(part, pos(n - 1), heap),
                             CharAt(part, pos(n - 1) + 1, heap), stack)
<1>1. SaysWhatItMeans(hash)
  BY WireAssumption
<1>2. hash.means \in Seq(Byte) /\ k \in Nat /\ k <= 20
  <2>1. hash.means \in Seq(Byte) /\ Len(hash.means) <= 20
    BY <1>1, Zenon DEF SaysWhatItMeans
  <2> QED
    BY <2>1
<1>3. /\ 2 * k <= Len(part)
      /\ \A n \in 1..k : /\ isxdigit(part[2 * n - 1]) /\ isxdigit(part[2 * n])
                         /\ hash.means[n] = 16 * from_hex(part[2 * n - 1]) + from_hex(part[2 * n])
  <2>1. /\ 2 * k <= Len(part)
        /\ \A n \in DOMAIN hash.means :
             /\ isxdigit(part[2 * n - 1]) /\ isxdigit(part[2 * n])
             /\ hash.means[n] = 16 * from_hex(part[2 * n - 1]) + from_hex(part[2 * n])
    BY <1>1, Zenon DEF SaysWhatItMeans, info_hash_list
  <2>2. DOMAIN hash.means = 1..k
    BY <1>2
  <2> QED
    BY <2>1, <2>2, Zenon
<1> HIDE DEF part
<1>4. \A c, d : Scanned(c, d, stack) \in Byte
  <2>1. \A c : isxdigit(c) => from_hex(c) \in 0..15
    <3> SUFFICES ASSUME NEW c, isxdigit(c)
                 PROVE  from_hex(c) \in 0..15
      OBVIOUS
    <3>1. CASE c \in 48..57
      BY <3>1 DEF from_hex, isdigit
    <3>2. CASE c \in 65..70
      <4>1. ~isdigit(c) /\ tolower(c) = c + 32
        BY <3>2 DEF isdigit, tolower
      <4> QED
        BY <3>2, <4>1 DEF from_hex
    <3>3. CASE c \in 97..102
      <4>1. ~isdigit(c) /\ tolower(c) = c
        BY <3>3 DEF isdigit, tolower
      <4> QED
        BY <3>3, <4>1 DEF from_hex
    <3> QED
      BY <3>1, <3>2, <3>3 DEF isxdigit, isdigit
  <2>2. stack \in Byte
    BY WireAssumption
  <2>3. \A a, b \in 0..15 : a \in Byte /\ 16 * a + b \in Byte
    BY DEF Byte
  <2> QED
    BY <2>1, <2>2, <2>3, Zenon DEF Scanned
<1>5. h \in Word(20) /\ \A n \in 1..20 : h[n] = Two(n)
  BY <1>4 DEF InfoHashBytes, Word
<1>6. \A n \in 1..k : h[n] = hash.means[n]
  <2> SUFFICES ASSUME NEW n \in 1..k
               PROVE  h[n] = hash.means[n]
    OBVIOUS
  <2>1. h[n] = Two(n)
    <3>1. n \in 1..20
      <4> HIDE DEF k
      <4> QED
        BY <1>2
    <3> QED
      BY <1>5, <3>1, Zenon
  <2>2. /\ pos(n - 1) < Len(part) /\ pos(n - 1) + 1 = 2 * n - 1
        /\ pos(n - 1) + 1 < Len(part) /\ pos(n - 1) + 1 + 1 = 2 * n
    BY <1>2, <1>3 DEF pos
  <2>3. /\ CharAt(part, pos(n - 1), heap) = part[2 * n - 1]
        /\ CharAt(part, pos(n - 1) + 1, heap) = part[2 * n]
    BY <2>2 DEF CharAt
  <2> QED
    BY <1>3, <2>1, <2>3 DEF Scanned
<1> HIDE DEF h, k
<1>7. At(h, 0, k) \in Word(k) /\ \A n \in 1..k : At(h, 0, k)[n] = h[0 + n]
  <2>1. k \in Nat /\ 0 \in Nat /\ 20 \in Nat /\ 0 + k <= 20
    BY <1>2
  <2> QED
    BY <1>5, <2>1, Slice, Zenon
<1>8. hash.means \in Word(k) /\ \A n \in 1..k : At(h, 0, k)[n] = hash.means[n]
  <2>1. hash.means \in Word(k)
    BY <1>2, WordOf DEF k
  <2>2. \A n \in 1..k : 0 + n = n
    BY <1>2
  <2> QED
    BY <1>6, <1>7, <2>1, <2>2
<1>9. At(h, 0, k) = hash.means
  BY <1>2, <1>7, <1>8, SameWord
<1> QED
  BY <1>2, <1>5, <1>9 DEF part, h, k

(* An answer: action, transaction id, and the rest. *)
LEMMA AnswerRead ==
  ASSUME NEW a \in Word(4), NEW t \in Word(4), NEW n \in Nat, NEW r \in Word(n)
  PROVE  /\ a \o t \o r \in Word(8 + n)
         /\ At(a \o t \o r, 0, 4) = a /\ At(a \o t \o r, 4, 4) = t
         /\ \A p, k \in Nat : p + k <= n => At(a \o t \o r, 8 + p, k) = At(r, p, k)
<1> DEFINE x == a \o t
<1>1. x \in Word(8) /\ At(x, 0, 4) = a /\ At(x, 4, 4) = t
  BY Laid, Whole
<1> HIDE DEF x
<1>2. x \o r \in Word(8 + n)
  BY <1>1, Laid
<1>3. \A p, k \in Nat : p + k <= 8 => At(x \o r, p, k) = At(x, p, k)
  BY <1>1, Laid
<1>4. \A p, k \in Nat : p + k <= n => At(x \o r, 8 + p, k) = At(r, p, k)
  BY <1>1, Laid
<1>5. At(x \o r, 0, 4) = a /\ At(x \o r, 4, 4) = t
  BY <1>1, <1>3
<1> QED
  BY <1>2, <1>4, <1>5 DEF x

LEMMA SixEach ==
  ASSUME NEW q \in Nat, NEW r \in 0..5, NEW m, m = 6 * q + r
  PROVE  m \div 6 = q /\ m % 6 = r
OBVIOUS

LEMMA InTheList ==
  ASSUME NEW j \in Nat, NEW l \in Nat, 1 <= j, j <= l
  PROVE  /\ 6 * (j - 1) \in Nat /\ 6 * (j - 1) + 4 <= 6 * l
         /\ 6 * (j - 1) + 4 \in Nat /\ (6 * (j - 1) + 4) + 2 <= 6 * l
         /\ 20 + (6 * (j - 1) + 4) = 24 + 6 * (j - 1)
OBVIOUS

LEMMA ListRead ==
  ASSUME NEW list \in Seq(Peer)
  PROVE  /\ ListBytes(list) \in Word(6 * Len(list))
         /\ \A j \in DOMAIN list :
              /\ At(ListBytes(list), 6 * (j - 1), 4) = list[j].ip
              /\ At(ListBytes(list), 6 * (j - 1) + 4, 2) = list[j].port
<1> DEFINE b == ListBytes(list)
           n == 6 * Len(list)
           Both(j) == list[j].ip \o list[j].port
<1>1. Len(list) \in Nat /\ n \in Nat
  OBVIOUS
<1>2. \A j \in DOMAIN list : list[j].ip \in Word(4) /\ list[j].port \in Word(2)
  <2>1. \A j \in DOMAIN list : list[j] \in Peer
    OBVIOUS
  <2> QED
    BY <2>1 DEF Peer
<1>3. \A j \in DOMAIN list :
        /\ Both(j) \in Word(6)
        /\ \A i \in 1..4 : Both(j)[i] = list[j].ip[i]
        /\ \A i \in 1..2 : Both(j)[4 + i] = list[j].port[i]
  <2> SUFFICES ASSUME NEW x \in Word(4), NEW y \in Word(2)
               PROVE  /\ x \o y \in Word(6)
                      /\ \A i \in 1..4 : (x \o y)[i] = x[i]
                      /\ \A i \in 1..2 : (x \o y)[4 + i] = y[i]
    BY <1>2, Zenon
  <2>1. 4 \in Nat /\ 2 \in Nat /\ 4 + 2 = 6
    OBVIOUS
  <2>2. /\ x \o y \in Word(4 + 2)
        /\ \A i \in 1..4 : (x \o y)[i] = x[i]
        /\ \A i \in 1..2 : (x \o y)[4 + i] = y[i]
    BY <2>1, Joined, Zenon
  <2> QED
    BY <2>1, <2>2, Zenon
<1>4. \A m \in 1..n : /\ ((m - 1) \div 6) + 1 \in DOMAIN list
                      /\ ((m - 1) % 6) + 1 \in 1..6
  <2> DEFINE l == Len(list)
  <2>1. DOMAIN list = 1..l /\ l \in Nat /\ n = 6 * l
    OBVIOUS
  <2> HIDE DEF l, n
  <2> QED
    BY <2>1
<1>5. b = [m \in 1..n |-> Both(((m - 1) \div 6) + 1)[((m - 1) % 6) + 1]]
  BY DEF ListBytes, peer_size
<1> HIDE DEF Both
<1>6. b \in Word(n)
  <2>1. \A j \in DOMAIN list : \A i \in 1..6 : Both(j)[i] \in Byte
    BY <1>3, Words
  <2> HIDE DEF b, n
  <2> QED
    BY <1>4, <1>5, <2>1 DEF Word
<1>7. \A j \in DOMAIN list : \A i \in 1..6 :
        6 * (j - 1) + i \in 1..n /\ b[6 * (j - 1) + i] = Both(j)[i]
  <2> SUFFICES ASSUME NEW j \in DOMAIN list, NEW i \in 1..6
               PROVE  6 * (j - 1) + i \in 1..n /\ b[6 * (j - 1) + i] = Both(j)[i]
    OBVIOUS
  <2> DEFINE m == 6 * (j - 1) + i
  <2>1. j \in 1..Len(list)
    OBVIOUS
  <2>2. m \in 1..n /\ m - 1 = 6 * (j - 1) + (i - 1) /\ j - 1 \in Nat /\ i - 1 \in 0..5
    BY <1>1, <2>1
  <2>3. ((m - 1) \div 6) + 1 = j /\ ((m - 1) % 6) + 1 = i
    <3> HIDE DEF m
    <3>1. (m - 1) \div 6 = j - 1 /\ (m - 1) % 6 = i - 1
      BY <2>2, SixEach, Zenon
    <3>2. j \in Int /\ i \in Int
      BY <1>1, <2>1
    <3> QED
      BY <3>1, <3>2
  <2> HIDE DEF m, b, n
  <2>4. b[m] = Both(j)[i]
    BY <1>5, <2>2, <2>3
  <2> QED
    BY <2>2, <2>4 DEF m
<1> HIDE DEF b
<1>8. ASSUME NEW j \in DOMAIN list
      PROVE  At(b, 6 * (j - 1), 4) = list[j].ip /\ At(b, 6 * (j - 1) + 4, 2) = list[j].port
  <2> DEFINE p == 6 * (j - 1)
             q == p + 4
             u == At(b, p, 4)
             v == At(b, q, 2)
  <2>1. p \in Nat /\ q \in Nat /\ p + 4 <= n /\ q + 2 <= n
    BY <1>1
  <2>2. \A i \in 1..4 : b[p + i] = list[j].ip[i]
    <3>1. \A i \in 1..4 : i \in 1..6 /\ p + i = 6 * (j - 1) + i
      OBVIOUS
    <3> HIDE DEF p, n
    <3> QED
      BY <1>3, <1>7, <3>1
  <2>3. \A i \in 1..2 : b[q + i] = list[j].port[i]
    <3>1. \A i \in 1..2 : 4 + i \in 1..6 /\ q + i = 6 * (j - 1) + (4 + i)
      BY <1>1
    <3> QED
      BY <1>3, <1>7, <3>1
  <2> HIDE DEF p, q, n
  <2>4. u \in Word(4) /\ \A i \in 1..4 : u[i] = b[p + i]
    BY <1>1, <1>6, <2>1, Slice
  <2>5. v \in Word(2) /\ \A i \in 1..2 : v[i] = b[q + i]
    BY <1>1, <1>6, <2>1, Slice
  <2> HIDE DEF u, v
  <2>6. u = list[j].ip
    BY <1>2, <2>2, <2>4, SameWord
  <2>7. v = list[j].port
    BY <1>2, <2>3, <2>5, SameWord
  <2> QED
    BY <2>6, <2>7 DEF p, q, u, v
<1> QED
  BY <1>6, <1>8 DEF b

-----------------------------------------------------------------------------
(* What the client makes of an answer *)

LEMMA Buffered ==
  ASSUME datagram \in Seq(Byte), Received
  PROVE  /\ out' \in Word(BufSize) /\ res_size' \in 0..BufSize
         /\ res_size' = IF Len(datagram) < BufSize THEN Len(datagram) ELSE BufSize
         /\ \A p, k \in Nat : p + k <= Len(datagram) /\ p + k <= BufSize =>
              At(out', p, k) = At(datagram, p, k)
<1>1. BufSize \in Nat /\ Len(datagram) \in Nat
  BY WireAssumption
<1>2. PICK b \in Byte :
        /\ out' = [j \in 1..BufSize |-> IF j \in DOMAIN datagram THEN datagram[j] ELSE b]
        /\ res_size' = IF Len(datagram) < BufSize THEN Len(datagram) ELSE BufSize
  BY WireAssumption DEF Received
<1>3. out' \in Word(BufSize) /\ \A j \in 1..BufSize : j <= Len(datagram) => out'[j] = datagram[j]
  BY <1>1, <1>2 DEF Word
<1>4. ASSUME NEW p \in Nat, NEW k \in Nat, p + k <= Len(datagram), p + k <= BufSize
      PROVE  At(out', p, k) = At(datagram, p, k)
  <2> DEFINE u == At(out', p, k)
             v == At(datagram, p, k)
  <2>1. u \in Word(k) /\ \A j \in 1..k : u[j] = out'[p + j]
    BY <1>1, <1>3, <1>4, Slice
  <2>2. datagram \in Word(Len(datagram))
    BY <1>1, WordOf
  <2>3. v \in Word(k) /\ \A j \in 1..k : v[j] = datagram[p + j]
    BY <1>1, <1>4, <2>2, Slice
  <2> HIDE DEF u, v
  <2>4. \A j \in 1..k : p + j \in 1..BufSize /\ p + j <= Len(datagram)
    BY <1>1, <1>4
  <2>5. \A j \in 1..k : u[j] = v[j]
    BY <1>3, <2>1, <2>3, <2>4
  <2>6. u = v
    BY <2>1, <2>3, <2>5, SameWord, Zenon
  <2> QED
    BY <2>6 DEF u, v
<1> QED
  BY <1>1, <1>2, <1>3, <1>4

LEMMA Load ==
  ASSUME NEW n \in Nat, NEW w \in Word(n), NEW p \in Nat, NEW k \in Nat, p + k <= n
  PROVE  /\ At(w, p, k) \in Word(k)
         /\ htonl_util(Loaded(w, p, k)) = At(w, p, k)
         /\ k = 8 => ntohll_util(Loaded(w, p, k)) = At(w, p, k)
<1>1. At(w, p, k) \in Word(k)
  BY Slice
<1>2. Loaded(w, p, k) \in Word(k) /\ InMemory(Loaded(w, p, k)) = At(w, p, k)
  BY <1>1, Converted DEF Loaded
<1> QED
  BY <1>1, <1>2, Converted, ConvertedLong

(* The client accepts an answer exactly if it is no refusal. *)
LEMMA Accepted ==
  ASSUME WireTypes, NEW n \in Nat, n >= 8, NEW bytes \in Word(n),
         NEW action \in {0, 1}, Headed(bytes, action)
  PROVE  Accepts(bytes, action) <=> said.ok
<1>1. htonl_util(Loaded(bytes, 0, 4)) = At(bytes, 0, 4)
  BY Load
<1>2. Loaded(bytes, 4, 4) = tid
  BY Converted DEF Loaded, Headed, WireTypes
<1>3. At(bytes, 0, 4) = IF said.ok THEN Int32(action) ELSE Int32(3)
  BY DEF Headed
<1>4. Int32(3) # Int32(action)
  BY DifferentActions
<1>5. said.ok \in BOOLEAN
  BY DEF WireTypes
<1> QED
  BY <1>1, <1>2, <1>3, <1>4, <1>5 DEF Accepts

(* The peers of a list before the first without an address. *)
LEMMA NamedBefore ==
  ASSUME NEW list \in Seq(Peer), NEW n \in Nat, n < Len(list),
         \A j \in 1..n : ~NoIp(list[j]), NoIp(list[n + 1])
  PROVE  Named(list) = SubSeq(list, 1, n)
<1> DEFINE none == {j \in DOMAIN list : NoIp(list[j])}
           k == n + 1
           first == CHOOSE j \in none : \A i \in none : j <= i
<1>1. k \in none /\ \A i \in none : k <= i
  <2>1. k \in DOMAIN list
    OBVIOUS
  <2>2. \A i \in DOMAIN list : i < k => ~NoIp(list[i])
    OBVIOUS
  <2> QED
    BY <2>1, <2>2
<1>2. none \subseteq Nat
  OBVIOUS
<1> HIDE DEF none, k
<1>3. first \in none /\ \A i \in none : first <= i
  BY <1>1, Zenon
<1>4. first = k
  <2> HIDE DEF first
  <2> QED
    BY <1>1, <1>2, <1>3
<1> HIDE DEF first
<1>5. Named(list) = SubSeq(list, 1, k - 1)
  BY <1>1, <1>4, Zenon DEF Named, none, first
<1>6. k - 1 = n
  BY DEF k
<1> QED
  BY <1>5, <1>6

LEMMA NamedAll ==
  ASSUME NEW list \in Seq(Peer), \A j \in DOMAIN list : ~NoIp(list[j])
  PROVE  Named(list) = list
BY DEF Named

LEMMA EachOne ==
  ASSUME NEW list \in Seq(Peer), NEW some \in Seq(Peer), Len(some) = Len(list),
         \A j \in DOMAIN some : some[j] = LocalPeer
  PROVE  some = OneEach(list)
<1>1. DOMAIN some = 1..Len(some) /\ DOMAIN list = 1..Len(list)
  OBVIOUS
<1>2. some = [j \in 1..Len(some) |-> some[j]]
  OBVIOUS
<1>3. OneEach(list) = [j \in 1..Len(some) |-> LocalPeer]
  BY <1>1 DEF OneEach
<1> QED
  BY <1>1, <1>2, <1>3

LEMMA LocalPeerType == LocalPeer \in Peer
<1>1. <<127, 0, 0, 1>> \in Word(4) /\ <<200, 213>> \in Word(2)
  BY DEF Word, Byte
<1> QED
  BY <1>1 DEF LocalPeer, Peer

LEMMA ListedTypes ==
  ASSUME WireTypes
  PROVE  /\ Listed \in Seq(Peer) /\ said.peers \in Seq(Peer)
         /\ Len(Listed) <= Len(said.peers) /\ 20 + 6 * Len(Listed) <= BufSize
         /\ \A j \in DOMAIN Listed : j \in DOMAIN said.peers /\ Listed[j] = said.peers[j]
         /\ 20 + 6 * Len(Listed) =
              IF 20 + 6 * Len(said.peers) < BufSize THEN 20 + 6 * Len(said.peers) ELSE BufSize
<1> DEFINE room == (BufSize - 20) \div 6
           list == said.peers
<1>1. BufSize \in Nat /\ BufSize >= 20 /\ room \in Nat /\ 20 + 6 * room = BufSize
  BY WireAssumption DEF peer_size
<1>2. list \in Seq(Peer) /\ Len(list) \in Nat
  BY DEF WireTypes
<1>3. Listed = IF Len(list) > room THEN SubSeq(list, 1, room) ELSE list
  BY DEF Listed
<1> HIDE DEF room, list
<1>4. CASE Len(list) > room
  <2>1. /\ SubSeq(list, 1, room) \in Seq(Peer) /\ Len(SubSeq(list, 1, room)) = room
        /\ \A j \in 1..room : SubSeq(list, 1, room)[j] = list[j]
    BY <1>1, <1>2, <1>4
  <2>2. Listed \in Seq(Peer) /\ Len(Listed) = room /\ \A j \in 1..room : Listed[j] = list[j]
    BY <1>3, <1>4, <2>1
  <2> QED
    BY <1>1, <1>2, <1>4, <2>2 DEF list
<1>5. CASE ~(Len(list) > room)
  BY <1>1, <1>2, <1>3, <1>5 DEF list
<1> QED
  BY <1>4, <1>5

LEMMA Room ==
  /\ BufSize \in Nat /\ BufSize >= 20
  /\ \E room \in Nat : BufSize = 20 + 6 * room
<1>1. BufSize \in Nat /\ BufSize >= 20
  BY WireAssumption
<1>2. (BufSize - 20) \div 6 \in Nat /\ BufSize = 20 + 6 * ((BufSize - 20) \div 6)
  BY WireAssumption DEF peer_size
<1> QED
  BY <1>1, <1>2

LEMMA RefusalRead ==
  ASSUME NEW t \in Word(4), Refusal(t)
  PROVE  /\ datagram' \in Seq(Byte) /\ Len(datagram') >= 8
         /\ At(datagram', 0, 4) = Int32(3) /\ At(datagram', 4, 4) = t
<1>1. PICK text \in Seq(Byte) : datagram' = Int32(3) \o t \o text
  BY WireAssumption DEF Refusal
<1>2. Len(text) \in Nat /\ text \in Word(Len(text)) /\ Int32(3) \in Word(4)
  BY Constants, Small, WordOf
<1>3. /\ datagram' \in Word(8 + Len(text))
      /\ At(datagram', 0, 4) = Int32(3) /\ At(datagram', 4, 4) = t
  BY <1>1, <1>2, AnswerRead
<1>4. 8 + Len(text) \in Nat /\ 8 + Len(text) >= 8
  BY <1>2
<1> QED
  BY <1>3, <1>4, Words

LEMMA Parts ==
  \A i, j \in Nat : \A u \in Word(i), v \in Word(j) :
    /\ \A p, k \in Nat : p + k <= i => At(u \o v, p, k) = At(u, p, k)
    /\ \A p, k \in Nat : p + k <= j => At(u \o v, i + p, k) = At(v, p, k)
<1>1. ASSUME NEW i \in Nat, NEW j \in Nat, NEW u \in Word(i), NEW v \in Word(j)
      PROVE  /\ \A p, k \in Nat : p + k <= i => At(u \o v, p, k) = At(u, p, k)
             /\ \A p, k \in Nat : p + k <= j => At(u \o v, i + p, k) = At(v, p, k)
  BY Laid
<1> QED
  BY <1>1

LEMMA ListAnswerRead ==
  ASSUME NEW t \in Word(4), NEW list \in Seq(Peer),
         datagram' = Int32(1) \o t \o Int32(60) \o Int32(0) \o Int32(1) \o ListBytes(list)
  PROVE  /\ datagram' \in Seq(Byte) /\ Len(datagram') = 20 + 6 * Len(list)
         /\ At(datagram', 0, 4) = Int32(1) /\ At(datagram', 4, 4) = t
         /\ LaidOut(datagram', list)
<1> DEFINE b == ListBytes(list)
           n == 6 * Len(list)
           x == Int32(1) \o t
           y == x \o Int32(60)
           z == y \o Int32(0)
           w == z \o Int32(1)
           d == w \o b
<1>1. Int32(0) \in Word(4) /\ Int32(1) \in Word(4) /\ Int32(60) \in Word(4)
  BY Constants, Small
<1>2. n \in Nat /\ b \in Word(n) /\ DOMAIN list = 1..Len(list) /\ Len(list) \in Nat
  BY ListRead
<1>3. datagram' = d
  OBVIOUS
<1>4. x \in Word(8) /\ At(x, 0, 4) = Int32(1) /\ At(x, 4, 4) = t
  BY <1>1, Laid, Whole
<1> HIDE DEF x
<1>5. y \in Word(12) /\ At(y, 0, 4) = Int32(1) /\ At(y, 4, 4) = t
  BY <1>1, <1>4, Laid
<1> HIDE DEF y
<1>6. z \in Word(16) /\ At(z, 0, 4) = Int32(1) /\ At(z, 4, 4) = t
  BY <1>1, <1>5, Laid
<1> HIDE DEF z
<1>7. w \in Word(20) /\ At(w, 0, 4) = Int32(1) /\ At(w, 4, 4) = t
  BY <1>1, <1>6, Laid
<1> HIDE DEF w, b
<1>8. d \in Word(20 + n)
  <2> HIDE DEF n
  <2>1. 20 \in Nat
    OBVIOUS
  <2> QED
    BY <1>2, <1>7, <2>1, Laid, Zenon
<1>9. \A p, k \in Nat : p + k <= 20 => At(d, p, k) = At(w, p, k)
  BY <1>2, <1>7, Parts
<1>10. \A p, k \in Nat : p + k <= n => At(d, 20 + p, k) = At(b, p, k)
  BY <1>2, <1>7, Parts
<1> HIDE DEF d
<1>11. At(d, 0, 4) = Int32(1) /\ At(d, 4, 4) = t
  BY <1>7, <1>9
<1>12. ASSUME NEW j \in DOMAIN list
       PROVE  /\ At(d, 20 + 6 * (j - 1), 4) = list[j].ip
              /\ At(d, 24 + 6 * (j - 1), 2) = list[j].port
  <2>1. At(b, 6 * (j - 1), 4) = list[j].ip /\ At(b, 6 * (j - 1) + 4, 2) = list[j].port
    BY ListRead DEF b
  <2>2. /\ 6 * (j - 1) \in Nat /\ 6 * (j - 1) + 4 <= n
        /\ 6 * (j - 1) + 4 \in Nat /\ (6 * (j - 1) + 4) + 2 <= n
        /\ 20 + (6 * (j - 1) + 4) = 24 + 6 * (j - 1)
    <3>1. j \in Nat /\ 1 <= j /\ j <= Len(list) /\ Len(list) \in Nat
      BY <1>2
    <3> QED
      BY <3>1, InTheList
  <2>3. At(d, 20 + 6 * (j - 1), 4) = At(b, 6 * (j - 1), 4)
    <3> HIDE DEF n
    <3>1. 4 \in Nat
      OBVIOUS
    <3> QED
      BY <1>10, <2>2, <3>1, Zenon
  <2>4. At(d, 20 + (6 * (j - 1) + 4), 2) = At(b, 6 * (j - 1) + 4, 2)
    <3> HIDE DEF n
    <3>1. 2 \in Nat
      OBVIOUS
    <3> QED
      BY <1>10, <2>2, <3>1, Zenon
  <2> QED
    BY <2>1, <2>2, <2>3, <2>4
<1>13. d \in Seq(Byte) /\ Len(d) = 20 + n
  <2>1. 20 + n \in Nat
    BY <1>2
  <2> HIDE DEF n
  <2> QED
    BY <1>8, <2>1, Words, Zenon
<1> QED
  BY <1>3, <1>11, <1>12, <1>13 DEF LaidOut

-----------------------------------------------------------------------------
(* Every step keeps the invariant *)

LEMMA Begun == Init => WireInv
<1> SUFFICES ASSUME Init
             PROVE  WireInv
  OBVIOUS
<1>1. Zeros(4) \in Word(4) /\ Zeros(8) \in Word(8)
  BY Constants
<1>2. WireTypes
  BY <1>1, Room DEF Init, WireTypes
<1> QED
  BY <1>2 DEF Init, WireInv, RequestInv, ConnectInv, ListInv

LEMMA Stutters == WireInv /\ UNCHANGED vars => WireInv'
<1> SUFFICES ASSUME WireInv, UNCHANGED vars
             PROVE  WireInv'
  OBVIOUS
<1>1. WireTypes'
  BY DEF WireInv, WireTypes, vars
<1>2. InMemory(tid)' = InMemory(tid) /\ Listed' = Listed
  BY DEF InMemory, Listed, vars
<1>3. RequestInv'
  BY <1>2 DEF WireInv, RequestInv, vars
<1>4. /\ Headed(datagram, 0)' = Headed(datagram, 0)
      /\ Headed(datagram, 1)' = Headed(datagram, 1) /\ Headed(out, 1)' = Headed(out, 1)
      /\ LaidOut(datagram, said.peers)' = LaidOut(datagram, said.peers)
      /\ LaidOut(out, Listed)' = LaidOut(out, Listed)
  BY <1>2 DEF Headed, LaidOut, vars
<1>5. ConnectInv'
  BY <1>4 DEF WireInv, ConnectInv, vars
<1>6. ListInv'
  BY <1>2, <1>4 DEF WireInv, ListInv, vars
<1> QED
  BY <1>1, <1>3, <1>5, <1>6 DEF WireInv

LEMMA SendConnectKeeps == WireInv /\ SendConnect => WireInv'
<1> SUFFICES ASSUME WireInv, SendConnect
             PROVE  WireInv'
  OBVIOUS
<1>1. tid' \in Word(4)
  BY WireAssumption DEF SendConnect
<1>2. /\ datagram' \in Word(16)
      /\ At(datagram', 0, 8) = ProtocolId /\ At(datagram', 8, 4) = Int32(0)
      /\ At(datagram', 12, 4) = InMemory(tid')
  BY <1>1, ConnectRead DEF SendConnect
<1>3. InMemory(tid') = InMemory(tid)'
  BY DEF SendConnect, InMemory
<1>4. datagram' \in Seq(Byte)
  BY <1>2, Words
<1>5. WireTypes'
  BY <1>1, <1>4 DEF SendConnect, WireInv, WireTypes
<1>6. RequestInv'
  BY <1>2, <1>3 DEF SendConnect, RequestInv
<1>7. ConnectInv' /\ ListInv'
  BY DEF SendConnect, WireInv, WireTypes, ConnectInv, ListInv
<1> QED
  BY <1>5, <1>6, <1>7 DEF WireInv

LEMMA TrackerConnectKeeps == WireInv /\ TrackerConnect => WireInv'
<1> SUFFICES ASSUME WireInv, TrackerConnect
             PROVE  WireInv'
  OBVIOUS
<1> DEFINE t == At(datagram, 12, 4)
<1>1. t = InMemory(tid) /\ t \in Word(4) /\ InMemory(tid)' = InMemory(tid)
  <2>1. t = InMemory(tid)
    BY DEF TrackerConnect, WireInv, RequestInv
  <2>2. InMemory(tid) \in Word(4)
    BY Converted DEF WireInv, WireTypes
  <2> QED
    BY <2>1, <2>2 DEF TrackerConnect, InMemory
<1> HIDE DEF t
<1>2. /\ said'.ok \in BOOLEAN /\ said' \in [ok : BOOLEAN, peers : Seq(Peer)]
      /\ datagram' \in Seq(Byte) /\ Len(datagram') >= 8 /\ issued' \in Word(8)
      /\ At(datagram', 0, 4) = Int32(IF said'.ok THEN 0 ELSE 3)
      /\ At(datagram', 4, 4) = t
      /\ said'.ok => Len(datagram') >= 16 /\ At(datagram', 8, 8) = issued'
  <2>1. CASE /\ issued' \in ConnectionIds
             /\ datagram' = Int32(0) \o t \o issued'
             /\ said' = [ok |-> TRUE, peers |-> <<>>]
    <3>1. issued' \in Word(8) /\ Int32(0) \in Word(4)
      BY <2>1, WireAssumption, Constants, Small
    <3>2. /\ datagram' \in Word(16)
          /\ At(datagram', 0, 4) = Int32(0) /\ At(datagram', 4, 4) = t
          /\ At(datagram', 8, 8) = At(issued', 0, 8)
      BY <1>1, <2>1, <3>1, AnswerRead
    <3>3. At(issued', 0, 8) = issued'
      BY <3>1, Whole
    <3>4. 16 \in Nat /\ 16 >= 8 /\ 16 >= 16
      OBVIOUS
    <3>5. datagram' \in Seq(Byte) /\ Len(datagram') >= 8 /\ Len(datagram') >= 16
      BY <3>2, <3>4, Words
    <3> QED
      BY <2>1, <3>1, <3>2, <3>3, <3>5
  <2>2. CASE /\ Refusal(t)
             /\ said' = [ok |-> FALSE, peers |-> <<>>]
             /\ UNCHANGED issued
    <3>1. /\ datagram' \in Seq(Byte) /\ Len(datagram') >= 8
          /\ At(datagram', 0, 4) = Int32(3) /\ At(datagram', 4, 4) = t
      BY <1>1, <2>2, RefusalRead
    <3> QED
      BY <2>2, <3>1 DEF WireInv, WireTypes
  <2> QED
    BY <2>1, <2>2 DEF TrackerConnect, t
<1>3. Headed(datagram, 0)'
  BY <1>1, <1>2 DEF Headed
<1>4. WireTypes'
  BY <1>2 DEF TrackerConnect, WireInv, WireTypes
<1>5. RequestInv' /\ ListInv'
  BY DEF TrackerConnect, WireInv, RequestInv, ListInv
<1>6. ConnectInv'
  BY <1>2, <1>3 DEF TrackerConnect, WireInv, WireTypes, ConnectInv
<1> QED
  BY <1>4, <1>5, <1>6 DEF WireInv

LEMMA ReceiveConnectKeeps == WireInv /\ ReceiveConnect => WireInv'
<1> SUFFICES ASSUME WireInv, ReceiveConnect
             PROVE  WireInv'
  OBVIOUS
<1>1. /\ BufSize \in Nat /\ BufSize >= 20
      /\ datagram \in Seq(Byte) /\ Len(datagram) >= 8 /\ Headed(datagram, 0)
      /\ said.ok => Len(datagram) >= 16 /\ At(datagram, 8, 8) = issued
      /\ connected = 0 /\ said.ok \in BOOLEAN
  BY Room DEF ReceiveConnect, WireInv, WireTypes, ConnectInv
<1>2. /\ out' \in Word(BufSize)
      /\ \A p, k \in Nat : p + k <= Len(datagram) /\ p + k <= BufSize =>
           At(out', p, k) = At(datagram, p, k)
  BY <1>1, Buffered DEF ReceiveConnect
<1>3. Headed(out', 0)
  <2>1. At(out', 0, 4) = At(datagram, 0, 4) /\ At(out', 4, 4) = At(datagram, 4, 4)
    BY <1>1, <1>2
  <2> QED
    BY <1>1, <2>1 DEF Headed
<1>4. Accepts(out', 0) <=> said.ok
  BY <1>1, <1>2, <1>3, Accepted DEF WireInv
<1>5. said.ok => ntohll_util(Loaded(out', 8, 8)) = issued
  <2> SUFFICES ASSUME said.ok
               PROVE  ntohll_util(Loaded(out', 8, 8)) = issued
    OBVIOUS
  <2>1. At(out', 8, 8) = At(datagram, 8, 8)
    BY <1>1, <1>2
  <2>2. ntohll_util(Loaded(out', 8, 8)) = At(out', 8, 8)
    BY <1>1, <1>2, Load
  <2> QED
    BY <1>1, <2>1, <2>2
<1>6. /\ connected' \in {0, 1} /\ connection_id' \in Word(8)
      /\ connected' = 1 => connection_id' = issued
      /\ pc' \in {"announcing", "refused"}
      /\ pc' = "announcing" => said.ok /\ connected' = 1
      /\ pc' = "refused" => ~said.ok
  BY <1>1, <1>4, <1>5 DEF ReceiveConnect, WireInv, WireTypes
<1>7. WireTypes'
  BY <1>1, <1>6 DEF ReceiveConnect, WireInv, WireTypes
<1>8. RequestInv' /\ ConnectInv'
  BY <1>6 DEF ReceiveConnect, RequestInv, ConnectInv
<1>9. ListInv'
  BY <1>6 DEF ReceiveConnect, WireInv, ListInv
<1> QED
  BY <1>7, <1>8, <1>9 DEF WireInv

LEMMA SendAnnounceKeeps == WireInv /\ SendAnnounce => WireInv'
<1> SUFFICES ASSUME WireInv, SendAnnounce
             PROVE  WireInv'
  OBVIOUS
<1>1. tid' \in Word(4) /\ hash \in Hashes /\ connection_id \in Word(8) /\ connection_id = issued
  BY WireAssumption DEF SendAnnounce, WireInv, WireTypes, ConnectInv
<1>2. PICK heap \in Behind, stack \in Stale :
        datagram' = AnnounceBytes(tid', InfoHashBytes(info_hash_list[3], heap, stack))
  BY DEF SendAnnounce
<1> DEFINE h == InfoHashBytes(info_hash_list[3], heap, stack)
           k == Len(hash.means)
<1>3. h \in Word(20) /\ k \in Nat /\ k <= 20 /\ At(h, 0, k) = hash.means
  BY <1>1, HashSent DEF SendAnnounce
<1> HIDE DEF h
<1>4. /\ datagram' \in Word(100)
      /\ At(datagram', 0, 8) = issued /\ At(datagram', 8, 4) = Int32(1)
      /\ At(datagram', 12, 4) = InMemory(tid')
      /\ At(datagram', 16, 20) = h
      /\ At(datagram', 80, 4) = Int32(2) /\ At(datagram', 92, 4) = Int32(1)
  BY <1>1, <1>2, <1>3, AnnounceRead DEF h
<1>5. At(datagram', 16, k) = hash.means
  <2> HIDE DEF k
  <2>1. At(At(datagram', 16, 20), 0, k) = At(datagram', 16 + 0, k)
    BY <1>3, <1>4, SameSlice
  <2> QED
    BY <1>3, <1>4, <2>1
<1>6. InMemory(tid') = InMemory(tid)'
  BY DEF SendAnnounce, InMemory
<1>7. datagram' \in Seq(Byte)
  BY <1>4, Words
<1>8. WireTypes'
  BY <1>1, <1>7 DEF SendAnnounce, WireInv, WireTypes
<1>9. RequestInv'
  BY <1>4, <1>5, <1>6 DEF SendAnnounce, RequestInv
<1>10. ConnectInv' /\ ListInv'
  BY DEF SendAnnounce, WireInv, ConnectInv, ListInv
<1> QED
  BY <1>8, <1>9, <1>10 DEF WireInv

LEMMA NoThirdPartKeeps == WireInv /\ NoThirdPart => WireInv'
<1> SUFFICES ASSUME WireInv, NoThirdPart
             PROVE  WireInv'
  OBVIOUS
<1>1. WireTypes'
  BY DEF NoThirdPart, WireInv, WireTypes
<1>2. RequestInv' /\ ConnectInv' /\ ListInv'
  BY DEF NoThirdPart, WireInv, RequestInv, ConnectInv, ListInv
<1> QED
  BY <1>1, <1>2 DEF WireInv

LEMMA TrackerAnnounceKeeps == WireInv /\ TrackerAnnounce => WireInv'
<1> SUFFICES ASSUME WireInv, TrackerAnnounce
             PROVE  WireInv'
  OBVIOUS
<1> DEFINE t == At(datagram, 12, 4)
<1>1. t = InMemory(tid) /\ t \in Word(4) /\ InMemory(tid)' = InMemory(tid)
  <2>1. t = InMemory(tid)
    BY DEF TrackerAnnounce, WireInv, RequestInv
  <2>2. InMemory(tid) \in Word(4)
    BY Converted DEF WireInv, WireTypes
  <2> QED
    BY <2>1, <2>2 DEF TrackerAnnounce, InMemory
<1> HIDE DEF t
<1>2. /\ said'.ok \in BOOLEAN /\ said' \in [ok : BOOLEAN, peers : Seq(Peer)]
      /\ datagram' \in Seq(Byte) /\ Len(datagram') >= 8
      /\ At(datagram', 0, 4) = Int32(IF said'.ok THEN 1 ELSE 3)
      /\ At(datagram', 4, 4) = t
      /\ said'.ok => /\ Len(datagram') = 20 + 6 * Len(said'.peers)
                     /\ LaidOut(datagram', said'.peers)
  <2>1. CASE \E list \in PeerLists :
               /\ datagram' = Int32(1) \o t \o Int32(60) \o Int32(0) \o Int32(1)
                                \o ListBytes(list)
               /\ said' = [ok |-> TRUE, peers |-> list]
    <3>1. PICK list \in Seq(Peer) :
            /\ datagram' = Int32(1) \o t \o Int32(60) \o Int32(0) \o Int32(1)
                             \o ListBytes(list)
            /\ said' = [ok |-> TRUE, peers |-> list]
      BY <2>1, WireAssumption
    <3>2. /\ datagram' \in Seq(Byte) /\ Len(datagram') = 20 + 6 * Len(list)
          /\ At(datagram', 0, 4) = Int32(1) /\ At(datagram', 4, 4) = t
          /\ LaidOut(datagram', list)
      BY <1>1, <3>1, ListAnswerRead
    <3>3. Len(list) \in Nat /\ 20 + 6 * Len(list) >= 8
      BY <3>1
    <3> QED
      BY <3>1, <3>2, <3>3
  <2>2. CASE Refusal(t) /\ said' = [ok |-> FALSE, peers |-> <<>>]
    <3>1. /\ datagram' \in Seq(Byte) /\ Len(datagram') >= 8
          /\ At(datagram', 0, 4) = Int32(3) /\ At(datagram', 4, 4) = t
      BY <1>1, <2>2, RefusalRead
    <3> QED
      BY <2>2, <3>1
  <2> QED
    BY <2>1, <2>2 DEF TrackerAnnounce, t
<1>3. Headed(datagram, 1)'
  BY <1>1, <1>2 DEF Headed
<1>4. WireTypes'
  BY <1>2 DEF TrackerAnnounce, WireInv, WireTypes
<1>5. RequestInv' /\ ConnectInv'
  BY DEF TrackerAnnounce, WireInv, RequestInv, ConnectInv
<1>6. LaidOut(datagram, said.peers)' <=> LaidOut(datagram', said'.peers)
  BY DEF LaidOut
<1>7. ListInv'
  BY <1>2, <1>3, <1>6 DEF TrackerAnnounce, WireInv, ListInv
<1> QED
  BY <1>4, <1>5, <1>7 DEF WireInv

LEMMA ReceiveAnnounceKeeps == WireInv /\ ReceiveAnnounce => WireInv'
<1> SUFFICES ASSUME WireInv, ReceiveAnnounce
             PROVE  WireInv'
  OBVIOUS
<1>1. /\ BufSize \in Nat /\ BufSize >= 20
      /\ datagram \in Seq(Byte) /\ Len(datagram) >= 8 /\ Headed(datagram, 1)
      /\ said.ok => /\ Len(datagram) = 20 + 6 * Len(said.peers)
                    /\ LaidOut(datagram, said.peers)
      /\ peers = <<>>
  BY Room DEF ReceiveAnnounce, WireInv, WireTypes, ListInv
<1>2. /\ out' \in Word(BufSize) /\ res_size' \in 0..BufSize
      /\ res_size' = IF Len(datagram) < BufSize THEN Len(datagram) ELSE BufSize
      /\ \A p, k \in Nat : p + k <= Len(datagram) /\ p + k <= BufSize =>
           At(out', p, k) = At(datagram, p, k)
  BY <1>1, Buffered DEF ReceiveAnnounce
<1>3. Headed(out, 1)'
  <2>1. At(out', 0, 4) = At(datagram, 0, 4) /\ At(out', 4, 4) = At(datagram, 4, 4)
    BY <1>1, <1>2
  <2>2. InMemory(tid)' = InMemory(tid) /\ said' = said
    BY DEF ReceiveAnnounce, InMemory
  <2> QED
    BY <1>1, <2>1, <2>2 DEF Headed
<1>4. Listed' = Listed
  BY DEF ReceiveAnnounce, Listed
<1>5. /\ Listed \in Seq(Peer) /\ Len(Listed) \in Nat /\ DOMAIN Listed = 1..Len(Listed)
      /\ Len(Listed) <= Len(said.peers) /\ 20 + 6 * Len(Listed) <= BufSize
      /\ \A j \in DOMAIN Listed : j \in DOMAIN said.peers /\ Listed[j] = said.peers[j]
      /\ 20 + 6 * Len(Listed) =
           IF 20 + 6 * Len(said.peers) < BufSize THEN 20 + 6 * Len(said.peers) ELSE BufSize
      /\ Len(said.peers) \in Nat
  BY ListedTypes DEF WireInv
<1>6. said.ok => res_size' = 20 + 6 * Len(Listed)
  BY <1>1, <1>2, <1>5
<1>7. said.ok => LaidOut(out', Listed)
  <2> SUFFICES ASSUME said.ok, NEW j \in DOMAIN Listed
               PROVE  /\ At(out', 20 + 6 * (j - 1), 4) = Listed[j].ip
                      /\ At(out', 24 + 6 * (j - 1), 2) = Listed[j].port
    BY DEF LaidOut
  <2> DEFINE p == 20 + 6 * (j - 1)
             q == 24 + 6 * (j - 1)
  <2>1. At(datagram, p, 4) = Listed[j].ip /\ At(datagram, q, 2) = Listed[j].port
    BY <1>1, <1>5 DEF LaidOut
  <2>2. /\ p \in Nat /\ p + 4 <= Len(datagram) /\ p + 4 <= BufSize
        /\ q \in Nat /\ q + 2 <= Len(datagram) /\ q + 2 <= BufSize
    <3> DEFINE l == Len(Listed)
               m == Len(said.peers)
               d == Len(datagram)
    <3>1. /\ l \in Nat /\ m \in Nat /\ BufSize \in Nat /\ l <= m /\ d = 20 + 6 * m /\ 20 + 6 * l <= BufSize
      BY <1>1, <1>5
    <3>2. j \in 1..l
      BY <1>5
    <3> HIDE DEF l, m, d
    <3>3. /\ p \in Nat /\ p + 4 <= d /\ p + 4 <= BufSize
          /\ q \in Nat /\ q + 2 <= d /\ q + 2 <= BufSize
      BY <3>1, <3>2
    <3> QED
      BY <3>3 DEF d
  <2> HIDE DEF p, q
  <2>3. At(out', p, 4) = At(datagram, p, 4) /\ At(out', q, 2) = At(datagram, q, 2)
    BY <1>2, <2>2
  <2> QED
    BY <2>1, <2>3 DEF p, q
<1>8. WireTypes'
  BY <1>1 DEF ReceiveAnnounce, WireInv, WireTypes
<1>9. RequestInv' /\ ConnectInv'
  BY DEF ReceiveAnnounce, WireInv, RequestInv, ConnectInv
<1>10. ListInv'
  <2>1. LaidOut(out, Listed)' <=> LaidOut(out', Listed)
    BY <1>4 DEF LaidOut
  <2>2. pc' = "peers" /\ peers' = <<>> /\ peer_position' = 0 /\ reach' = 20 /\ said' = said
    BY <1>1 DEF ReceiveAnnounce
  <2>3. said.ok => 20 <= res_size'
    BY <1>5, <1>6
  <2> QED
    BY <1>2, <1>3, <1>4, <1>5, <1>6, <1>7, <2>1, <2>2, <2>3 DEF ListInv
<1> QED
  BY <1>8, <1>9, <1>10 DEF WireInv

(* While the list is read: the next peer lies within the buffer, and is the
   next peer of the list.                                                    *)
LEMMA NextPeer ==
  ASSUME WireInv, ReadsPeer
  PROVE  /\ 26 + peer_position <= BufSize
         /\ said.ok => /\ Len(peers) < Len(Listed) /\ 26 + peer_position <= res_size
                       /\ Ip = Listed[Len(peers) + 1].ip
<1>1. /\ out \in Word(BufSize) /\ res_size \in 0..BufSize
      /\ peer_position = 6 * Len(peers) /\ Len(peers) \in Nat
      /\ said.ok => res_size = 20 + 6 * Len(Listed) /\ LaidOut(out, Listed)
      /\ 20 + peer_position < res_size
  BY DEF ReadsPeer, MorePeers, WireInv, WireTypes, ListInv
<1>2. PICK room \in Nat : BufSize = 20 + 6 * room
  BY Room
<1> DEFINE p == 20 + peer_position
<1>3. /\ BufSize \in Nat /\ 26 + peer_position <= BufSize
      /\ p \in Nat /\ p + 4 <= BufSize
  BY <1>1, <1>2
<1>4. Ip = At(out, p, 4)
  <2> HIDE DEF p
  <2>1. At(out, p, 4) \in Word(4) /\ htonl_util(Loaded(out, p, 4)) = At(out, p, 4)
    BY <1>1, <1>3, Load
  <2> QED
    BY <2>1 DEF Ip, p
<1>6. ASSUME said.ok
      PROVE  /\ Len(peers) < Len(Listed) /\ 26 + peer_position <= res_size
             /\ Ip = Listed[Len(peers) + 1].ip
  <2> DEFINE j == Len(peers) + 1
  <2>1. Len(Listed) \in Nat /\ DOMAIN Listed = 1..Len(Listed)
    BY ListedTypes DEF WireInv
  <2>2. Len(peers) < Len(Listed) /\ 26 + peer_position <= res_size
    BY <1>1, <1>6, <2>1
  <2>3. j \in DOMAIN Listed /\ 20 + 6 * (j - 1) = p
    BY <1>1, <2>1, <2>2
  <2> HIDE DEF j, p
  <2>4. At(out, p, 4) = Listed[j].ip
    <3>1. At(out, 20 + 6 * (j - 1), 4) = Listed[j].ip
      BY <1>1, <1>6, <2>3, Zenon DEF LaidOut
    <3> QED
      BY <2>3, <3>1
  <2> QED
    BY <1>4, <2>2, <2>4 DEF j
<1> QED
  BY <1>3, <1>6

LEMMA AppendPeerKeeps == WireInv /\ AppendPeer => WireInv'
<1> SUFFICES ASSUME WireInv, AppendPeer
             PROVE  WireInv'
  OBVIOUS
<1> DEFINE l == Len(peers)
<1>1. /\ Ip # Zeros(4) /\ 26 + peer_position <= BufSize
      /\ said.ok => /\ l < Len(Listed) /\ 26 + peer_position <= res_size
                    /\ Ip = Listed[l + 1].ip
  BY NextPeer DEF AppendPeer
<1>2. peers \in Seq(Peer) /\ l \in Nat
  BY DEF WireInv, WireTypes
<1>3. peers' = Append(peers, LocalPeer)
  BY DEF AppendPeer
<1>5. /\ peers' \in Seq(Peer) /\ Len(peers') = l + 1 /\ peers'[l + 1] = LocalPeer
      /\ \A j \in 1..l : peers'[j] = peers[j]
  BY <1>2, <1>3, LocalPeerType
<1>6. Listed' = Listed /\ InMemory(tid)' = InMemory(tid)
  BY DEF AppendPeer, ReadsPeer, Listed, InMemory
<1>7. Headed(out, 1)' = Headed(out, 1) /\ LaidOut(out, Listed)' = LaidOut(out, Listed)
  BY <1>6 DEF Headed, LaidOut, AppendPeer, ReadsPeer
<1>8. Len(Listed) \in Nat /\ Listed \in Seq(Peer)
  BY ListedTypes DEF WireInv
<1>9. WireTypes'
  BY <1>1, <1>5 DEF AppendPeer, ReadsPeer, WireInv, WireTypes
<1>10. RequestInv' /\ ConnectInv'
  BY DEF AppendPeer, ReadsPeer, WireInv, RequestInv, ConnectInv
<1>11. said.ok => \A j \in DOMAIN peers' : peers'[j] = LocalPeer /\ ~NoIp(Listed[j])
  <2> SUFFICES ASSUME said.ok, NEW j \in DOMAIN peers'
               PROVE  peers'[j] = LocalPeer /\ ~NoIp(Listed[j])
    OBVIOUS
  <2>1. j \in 1..(l + 1)
    BY <1>5
  <2>2. CASE j = l + 1
    BY <1>1, <1>5, <2>2 DEF NoIp
  <2>3. CASE j # l + 1
    <3>1. j \in 1..l /\ j \in DOMAIN peers
      BY <1>2, <2>1, <2>3
    <3>2. peers[j] = LocalPeer /\ ~NoIp(Listed[j])
      BY <3>1 DEF AppendPeer, ReadsPeer, WireInv, ListInv
    <3> QED
      BY <1>5, <3>1, <3>2
  <2> QED
    BY <2>2, <2>3
<1>12. said.ok => Len(peers') <= Len(Listed) /\ reach' <= res_size
  BY <1>1, <1>2, <1>5, <1>8 DEF AppendPeer, ReadsPeer
<1>13. peer_position' = 6 * Len(peers')
  BY <1>2, <1>5 DEF AppendPeer, ReadsPeer, WireInv, ListInv, peer_size
<1>14. pc' = "peers" /\ said' = said /\ res_size' = res_size /\ out' = out
  BY DEF AppendPeer, ReadsPeer
<1>15. /\ out \in Word(BufSize) /\ res_size \in 0..BufSize /\ Headed(out, 1)
       /\ said.ok => res_size = 20 + 6 * Len(Listed) /\ LaidOut(out, Listed)
  BY DEF AppendPeer, ReadsPeer, WireInv, ListInv
<1>16. ListInv'
  BY <1>6, <1>7, <1>11, <1>12, <1>13, <1>14, <1>15 DEF ListInv
<1> QED
  BY <1>9, <1>10, <1>16 DEF WireInv

LEMMA NoAddressKeeps == WireInv /\ NoAddress => WireInv'
<1> SUFFICES ASSUME WireInv, NoAddress
             PROVE  WireInv'
  OBVIOUS
<1>1. /\ 26 + peer_position <= BufSize
      /\ said.ok => /\ Len(peers) < Len(Listed) /\ 26 + peer_position <= res_size
                    /\ NoIp(Listed[Len(peers) + 1])
  BY NextPeer DEF NoAddress, NoIp
<1>2. /\ peers \in Seq(Peer) /\ Listed \in Seq(Peer)
      /\ said.ok => \A j \in DOMAIN peers : peers[j] = LocalPeer /\ ~NoIp(Listed[j])
  BY ListedTypes DEF NoAddress, ReadsPeer, WireInv, WireTypes, ListInv
<1>3. ASSUME said.ok
      PROVE  peers = OneEach(Named(Listed))
  <2> DEFINE n == Len(peers)
  <2>1. /\ n \in Nat /\ n < Len(Listed) /\ DOMAIN peers = 1..n
        /\ NoIp(Listed[n + 1]) /\ \A j \in 1..n : ~NoIp(Listed[j])
    BY <1>1, <1>2, <1>3
  <2> HIDE DEF n
  <2>2. Named(Listed) = SubSeq(Listed, 1, n)
    BY <1>2, <2>1, NamedBefore
  <2>3. Named(Listed) \in Seq(Peer) /\ Len(Named(Listed)) = n
    BY <1>2, <2>1, <2>2
  <2> QED
    BY <1>2, <1>3, <2>3, EachOne DEF n
<1>4. Listed' = Listed /\ InMemory(tid)' = InMemory(tid)
  BY DEF NoAddress, ReadsPeer, Listed, InMemory
<1>5. Headed(out, 1)' = Headed(out, 1) /\ LaidOut(out, Listed)' = LaidOut(out, Listed)
  BY <1>4 DEF Headed, LaidOut, NoAddress, ReadsPeer
<1>6. WireTypes'
  BY <1>1 DEF NoAddress, ReadsPeer, WireInv, WireTypes
<1>7. RequestInv' /\ ConnectInv'
  BY DEF NoAddress, ReadsPeer, WireInv, RequestInv, ConnectInv
<1>8. ListInv'
  BY <1>1, <1>3, <1>4, <1>5 DEF NoAddress, ReadsPeer, WireInv, ListInv
<1> QED
  BY <1>6, <1>7, <1>8 DEF WireInv

LEMMA PeersEndKeeps == WireInv /\ PeersEnd => WireInv'
<1> SUFFICES ASSUME WireInv, PeersEnd
             PROVE  WireInv'
  OBVIOUS
<1>1. /\ peers \in Seq(Peer) /\ Listed \in Seq(Peer)
      /\ peer_position = 6 * Len(peers) /\ ~(20 + peer_position < res_size)
      /\ said.ok => /\ res_size = 20 + 6 * Len(Listed) /\ Len(peers) <= Len(Listed)
                    /\ \A j \in DOMAIN peers : peers[j] = LocalPeer /\ ~NoIp(Listed[j])
  BY ListedTypes DEF PeersEnd, MorePeers, WireInv, WireTypes, ListInv
<1>2. said.ok => Len(peers) = Len(Listed)
  BY <1>1
<1>3. ASSUME said.ok
      PROVE  peers = OneEach(Named(Listed))
  <2>1. \A j \in DOMAIN Listed : ~NoIp(Listed[j])
    BY <1>1, <1>2, <1>3
  <2>2. Named(Listed) = Listed
    BY <1>1, <2>1, NamedAll
  <2> QED
    BY <1>1, <1>2, <1>3, <2>2, EachOne
<1>4. Listed' = Listed /\ InMemory(tid)' = InMemory(tid)
  BY DEF PeersEnd, Listed, InMemory
<1>5. Headed(out, 1)' = Headed(out, 1) /\ LaidOut(out, Listed)' = LaidOut(out, Listed)
  BY <1>4 DEF Headed, LaidOut, PeersEnd
<1>6. WireTypes'
  BY DEF PeersEnd, WireInv, WireTypes
<1>7. RequestInv' /\ ConnectInv'
  BY DEF PeersEnd, WireInv, RequestInv, ConnectInv
<1>8. ListInv'
  BY <1>3, <1>4, <1>5 DEF PeersEnd, WireInv, ListInv
<1> QED
  BY <1>6, <1>7, <1>8 DEF WireInv

LEMMA AcceptAnnounceKeeps == WireInv /\ AcceptAnnounce => WireInv'
<1> SUFFICES ASSUME WireInv, AcceptAnnounce
             PROVE  WireInv'
  OBVIOUS
<1>1. Accepts(out, 1) <=> said.ok
  BY Room, Accepted DEF AcceptAnnounce, WireInv, ListInv
<1>2. /\ pc' = IF said.ok THEN "sessions" ELSE "refused"
      /\ peers' = IF said.ok THEN peers ELSE <<>>
  BY <1>1 DEF AcceptAnnounce
<1>3. Listed' = Listed
  BY DEF AcceptAnnounce, Listed
<1>4. WireTypes'
  BY <1>2 DEF AcceptAnnounce, WireInv, WireTypes
<1>5. RequestInv' /\ ConnectInv'
  BY <1>2 DEF AcceptAnnounce, WireInv, RequestInv, ConnectInv
<1>6. ListInv'
  BY <1>2, <1>3 DEF AcceptAnnounce, WireInv, WireTypes, ListInv
<1> QED
  BY <1>4, <1>5, <1>6 DEF WireInv

LEMMA StepKeeps == WireInv /\ [Next]_vars => WireInv'
BY Stutters, SendConnectKeeps, TrackerConnectKeeps, ReceiveConnectKeeps, SendAnnounceKeeps,
   NoThirdPartKeeps, TrackerAnnounceKeeps, ReceiveAnnounceKeeps, AppendPeerKeeps,
   NoAddressKeeps, PeersEndKeeps, AcceptAnnounceKeeps DEF Next

LEMMA Invariant == Spec => []WireInv
BY Begun, StepKeeps, PTL DEF Spec

-----------------------------------------------------------------------------
(* Every variable has its type, and a request fills the array it is sent from:
   16 bytes of the connect and 100 of the announce packet, whatever the ids and
   the hash (tracker_connect_packet.h, tracker_announce_packet.h).             *)
THEOREM WireTypesHold == Spec => []TypeOK
<1>1. WireInv => TypeOK
  <2> SUFFICES ASSUME WireInv
               PROVE  TypeOK
    OBVIOUS
  <2>1. 16 \in Nat /\ 100 \in Nat
    OBVIOUS
  <2>2. /\ pc = "connect" => Len(datagram) = 16
        /\ pc = "announce" => Len(datagram) = 100
    BY <2>1, Words, Zenon DEF WireInv, RequestInv
  <2>3. \A j \in DOMAIN datagram : datagram[j] \in Byte
    BY DEF WireInv, WireTypes
  <2> QED
    BY <2>2, <2>3 DEF WireInv, WireTypes, TypeOK
<1> QED
  BY <1>1, Invariant, PTL

(* A tracker reads in a request what the client means by it, on a host of either
   byte order: the protocol's id and a connect; or the id it has issued, an
   announce, and the bytes the link's hash is written for, whatever the heap
   holds behind the hash and the stack in its place
   (tracker_connect_packet.c:29-66, tracker_announce_packet.c:20-103,
   tracker.c:217-227, net_utils.c).                                            *)
THEOREM TrackerReadsRequests == Spec => []RequestsAreRead
<1>1. WireInv => RequestsAreRead
  BY DEF WireInv, RequestInv, RequestsAreRead
<1> QED
  BY <1>1, Invariant, PTL

(* What the client makes of an answer is what the tracker meant by it, of any
   list of peers and any refusal, and with whatever lies in the buffer behind
   it: the id it holds is the one issued, it goes on if and only if it was not
   refused, and it starts one session for each peer of the list that has an
   address and lies before one that has none, as far as the buffer holds them,
   always with 127.0.0.1:51413 (tracker_connect_packet.c:85-115,
   tracker_announce_packet.c:163-217, tracker.c:155, 241).                     *)
THEOREM ClientReadsAnswers == Spec => []AnswersAsMeant
<1>1. WireInv => AnswersAsMeant
  <2> SUFFICES ASSUME WireInv
               PROVE  AnswersAsMeant
    OBVIOUS
  <2>1. IssuedIdIsHeld
    BY DEF WireInv, ConnectInv, IssuedIdIsHeld
  <2>2. RefusedByTracker
    BY DEF WireInv, ListInv, RefusedByTracker
  <2>3. SessionForEachNamed
    BY DEF WireInv, ListInv, SessionForEachNamed, Listed
  <2>4. ListsReadInside
    BY DEF WireInv, ListInv, ListsReadInside
  <2> QED
    BY <2>1, <2>2, <2>3, <2>4 DEF AnswersAsMeant
<1> QED
  BY <1>1, Invariant, PTL

(* Of the buffer a datagram is received into nothing behind its end is read,
   however many peers were announced (tracker_announce_packet.c:163-217); what
   fits behind the header must be a whole number of peers.                     *)
THEOREM NeverBehindTheBuffer == Spec => [](reach <= BufSize)
<1>1. WireInv => reach <= BufSize
  BY DEF WireInv, WireTypes
<1> QED
  BY <1>1, Invariant, PTL
=============================================================================
