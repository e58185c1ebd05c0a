--------------------------- MODULE Torrent_proofs ---------------------------
(***************************************************************************)
(* Proofs about the trackers and the torrent that drives them.             *)
(*                                                                         *)
(* First Tracker by itself: for any set of trackers, any number of         *)
(* attempts and a network that loses, repeats, delays and reorders         *)
(* datagrams.  Then the torrent, which drives its trackers as module       *)
(* Tracker allows: every run of main is a run of the trackers, so each     *)
(* invariant of theirs is one of the whole client.  What main's three      *)
(* loops add to it, the order of the calls, is proved from where each      *)
(* tracker of the list stands.                                             *)
(***************************************************************************)
EXTENDS Torrent, FiniteSetTheorems, TLAPS

-----------------------------------------------------------------------------
(* Types *)

LEMMA TypeInit == Init => TypeOK
  BY ConstantsAssumption
  DEF Init, TypeOK, PcValues, Outcomes, NoDesc, Requests, Answers

LEMMA TypeNext ==
  ASSUME TypeOK, [Next]_vars
  PROVE  TypeOK'
<1> USE ConstantsAssumption DEF TypeOK, PcValues, Outcomes, Kinds, NoDesc
<1>1. ASSUME NEW t \in Trackers, NEW id \in TransIds, ConnectSend(t, id)
      PROVE  TypeOK'
  <2>1. /\ NewDesc(t) \in Nat \ {0}
        /\ frames[t] + 1 \in Nat
    BY <1>1 DEF NewDesc
  <2>2. requests' \in SUBSET Requests
    BY <1>1, <2>1 DEF ConnectSend, Requests
  <2>3. open' \in [Trackers -> SUBSET (Nat \ {NoDesc})]
    BY <1>1, <2>1 DEF ConnectSend, OpenWith
  <2>4. sock_desc' \in [Trackers -> Nat] /\ frames' \in [Trackers -> Nat]
    BY <1>1, <2>1 DEF ConnectSend
  <2>5. /\ pc' \in [Trackers -> PcValues]
        /\ last_transaction_id' \in [Trackers -> TransIds \cup {0}]
    BY <1>1 DEF ConnectSend
  <2>6. UNCHANGED <<proc, resolved, connected, attempts, connection_id, peers,
                    result, outcome, accepted, answers>>
    BY <1>1 DEF ConnectSend
  <2> QED
    BY <2>2, <2>3, <2>4, <2>5, <2>6
<1>2. ASSUME NEW t \in Trackers, ConnectNoSocket(t)
      PROVE  TypeOK'
  BY <1>2 DEF ConnectNoSocket, Return, network
<1>3. ASSUME NEW t \in Trackers, ConnectExits(t)
      PROVE  TypeOK'
  BY <1>3 DEF ConnectExits, control, tracker, socket, network
<1>4. ASSUME NEW t \in Trackers, NEW a \in answers, ConnectAccept(t, a)
      PROVE  TypeOK'
  <2>1. IssuedId(a) \in Nat
    BY <1>4 DEF IssuedId, Answers, Requests
  <2> QED
    BY <1>4, <2>1 DEF ConnectAccept, Return, socket, network
<1>5. ASSUME NEW t \in Trackers, NEW a \in answers, ConnectReject(t, a)
      PROVE  TypeOK'
  BY <1>5 DEF ConnectReject, Return, Receivable, Matches, socket, network
<1>6. ASSUME NEW t \in Trackers, ConnectTimeout(t)
      PROVE  TypeOK'
  BY <1>6 DEF ConnectTimeout, AttemptLeft, socket, network
<1>7. ASSUME NEW t \in Trackers, ConnectGiveUp(t)
      PROVE  TypeOK'
  BY <1>7 DEF ConnectGiveUp, AttemptLeft, Return, socket, network
<1>8. ASSUME NEW t \in Trackers, AnnounceSkip(t)
      PROVE  TypeOK'
  BY <1>8 DEF AnnounceSkip, Return, tracker, socket, network
<1>9. ASSUME NEW t \in Trackers, NEW id \in TransIds, AnnounceSend(t, id)
      PROVE  TypeOK'
  <2>1. requests' \in SUBSET Requests
    BY <1>9 DEF AnnounceSend, Requests
  <2> QED
    BY <1>9, <2>1 DEF AnnounceSend, socket
<1>10. ASSUME NEW t \in Trackers, NEW a \in answers, AnnounceAccept(t, a)
      PROVE  TypeOK'
  <2>1. a.peers \in 0..MaxPeers
    BY <1>10 DEF Answers
  <2> QED
    BY <1>10, <2>1 DEF AnnounceAccept, socket, network
<1>11. ASSUME NEW t \in Trackers, NEW a \in answers, AnnounceReject(t, a)
      PROVE  TypeOK'
  BY <1>11 DEF AnnounceReject, AnnounceResult, Return, socket, network
<1>12. ASSUME NEW t \in Trackers, AnnounceTimeout(t)
      PROVE  TypeOK'
  BY <1>12 DEF AnnounceTimeout, AttemptLeft, socket, network
<1>13. ASSUME NEW t \in Trackers, AnnounceGiveUp(t)
      PROVE  TypeOK'
  BY <1>13 DEF AnnounceGiveUp, AttemptLeft, Return, tracker, socket, network
<1>14. ASSUME NEW t \in Trackers, PeerSession(t)
      PROVE  TypeOK'
  BY <1>14 DEF PeerSession, control, tracker, socket, network
<1>15. ASSUME NEW t \in Trackers, PeerCrashes(t)
      PROVE  TypeOK'
  BY <1>15 DEF PeerCrashes, control, tracker, socket, network
<1>16. ASSUME NEW t \in Trackers, AnnounceReturns(t)
      PROVE  TypeOK'
  BY <1>16 DEF AnnounceReturns, Return, tracker, socket, network
<1>17. ASSUME NEW t \in Trackers, Destroy(t)
      PROVE  TypeOK'
  BY <1>17 DEF Destroy, tracker, network
<1>18. ASSUME NEW r \in requests, NEW action \in {0, 1, 3}, NEW n \in 0..MaxPeers,
             TrackerAnswers(r, action, n)
      PROVE  TypeOK'
  <2>1. answers' \in SUBSET Answers
    BY <1>18 DEF TrackerAnswers, Answers
  <2> QED
    BY <1>18, <2>1 DEF TrackerAnswers, control, tracker, socket
<1>19. CASE UNCHANGED vars
  BY <1>19 DEF vars, control, tracker, socket, network
<1> HIDE DEF TypeOK, PcValues, Outcomes, Kinds, NoDesc
<1> QED
  BY <1>1, <1>2, <1>3, <1>4, <1>5, <1>6, <1>7, <1>8, <1>9, <1>10, <1>11,
     <1>12, <1>13, <1>14, <1>15, <1>16, <1>17, <1>18, <1>19 DEF Next,
     ConnectStep, AnnounceStep, PeerStep, NetworkStep

-----------------------------------------------------------------------------
(* The inductive invariant.  Each part holds of every reachable state and is
   preserved given the parts before it.                                      *)

(* The counter follows the recursion, and connected follows the exchange. *)
CounterInv ==
  \A u \in Trackers :
    /\ Waiting(u) => frames[u] = attempts[u] + 1
    /\ pc[u] \in {"connect_retry", "announce_retry"} => frames[u] = attempts[u]
    /\ pc[u] \in {"created", "idle"} => attempts[u] = 0 /\ frames[u] = 0
    /\ pc[u] \in {"created", "connect_wait", "connect_retry"} => ~connected[u]
    /\ pc[u] \in {"announce_wait", "announce_retry", "peers"} => connected[u]

(* Each attempt to connect has the descriptor it made; the last one stays. *)
SocketInv ==
  \A u \in Trackers :
    /\ open[u] \subseteq 1..(MaxAttempts + 1)
    /\ pc[u] = "connect_wait" => sock_desc[u] = frames[u]
    /\ Waiting(u) \/ (connected[u] /\ pc[u] # "destroyed") =>
         sock_desc[u] \in open[u]
    /\ pc[u] = "destroyed" => sock_desc[u] = NoDesc

(* Which requests there are at which point of the two functions. *)
RequestInv ==
  /\ \A r \in requests : /\ r.frame \in 1..(MaxAttempts + 1)
                         /\ r.kind = "connect" => r.sock = r.frame
  /\ \A u \in Trackers :
       /\ pc[u] = "created" => RequestsOf(u, "connect") = {}
       /\ pc[u] \in {"created", "connect_wait", "connect_retry", "idle"} =>
            RequestsOf(u, "announce") = {}
       /\ pc[u] \in {"connect_wait", "connect_retry"} =>
            \A r \in RequestsOf(u, "connect") : r.frame <= frames[u]
       /\ pc[u] \in {"announce_wait", "announce_retry"} =>
            \A r \in RequestsOf(u, "announce") : r.frame <= frames[u]
       /\ \A r \in RequestsOf(u, "announce") : r.cid = connection_id[u]

(* A waiting client has one request of each attempt, and the last of them is
   the one its transaction id and its socket belong to.                      *)
AttemptInv ==
  \A u \in Trackers :
    /\ pc[u] \in {"connect_wait", "connect_retry"} =>
         \A n \in 1..frames[u] : \E r \in RequestsOf(u, "connect") : r.frame = n
    /\ pc[u] \in {"announce_wait", "announce_retry"} =>
         \A n \in 1..frames[u] : \E r \in RequestsOf(u, "announce") : r.frame = n
    /\ pc[u] = "connect_wait" =>
         \A r \in RequestsOf(u, "connect") :
           r.frame = frames[u] => r.tid = last_transaction_id[u]
    /\ pc[u] = "announce_wait" =>
         \A r \in RequestsOf(u, "announce") :
           r.frame = frames[u] => r.tid = last_transaction_id[u]

(* Trackers answer requests they got, each in its kind. *)
AnswerInv ==
  \A a \in answers : /\ a.re \in requests
                     /\ a.action = 0 => a.re.kind = "connect"
                     /\ a.action = 1 => a.re.kind = "announce"

(* No answer to an announce is accepted before the announce is over. *)
AcceptedInv ==
  \A u \in Trackers : \A a \in accepted[u] :
    a.re.kind = "announce" => pc[u] \in {"peers", "done", "destroyed"}

LEMMA InvInit ==
  Init => /\ CounterInv /\ SocketInv /\ RequestInv
          /\ AttemptInv /\ AnswerInv /\ AcceptedInv
  BY ConstantsAssumption
  DEF Init, CounterInv, SocketInv, RequestInv, AttemptInv, AnswerInv,
      AcceptedInv, Waiting, RequestsOf, NoDesc

(* The counter and the recursion. *)
LEMMA CounterNext ==
  ASSUME TypeOK, TypeOK', CounterInv, [Next]_vars
  PROVE  CounterInv'
<1> USE ConstantsAssumption DEF TypeOK, CounterInv, Waiting
<1>1. ASSUME NEW t \in Trackers, NEW id \in TransIds, ConnectSend(t, id)
      PROVE  CounterInv'
  BY <1>1 DEF ConnectSend, NewDesc, OpenWith
<1>2. ASSUME NEW t \in Trackers, ConnectNoSocket(t)
      PROVE  CounterInv'
  BY <1>2 DEF ConnectNoSocket, Return, network
<1>3. ASSUME NEW t \in Trackers, ConnectExits(t)
      PROVE  CounterInv'
  BY <1>3 DEF ConnectExits, control, tracker, socket, network
<1>4. ASSUME NEW t \in Trackers, NEW a \in answers, ConnectAccept(t, a)
      PROVE  CounterInv'
  BY <1>4 DEF ConnectAccept, Return, Receivable, Matches, IssuedId, socket, network
<1>5. ASSUME NEW t \in Trackers, NEW a \in answers, ConnectReject(t, a)
      PROVE  CounterInv'
  BY <1>5 DEF ConnectReject, Return, Receivable, Matches, socket, network
<1>6. ASSUME NEW t \in Trackers, ConnectTimeout(t)
      PROVE  CounterInv'
  BY <1>6 DEF ConnectTimeout, AttemptLeft, socket, network
<1>7. ASSUME NEW t \in Trackers, ConnectGiveUp(t)
      PROVE  CounterInv'
  BY <1>7 DEF ConnectGiveUp, AttemptLeft, Return, socket, network
<1>8. ASSUME NEW t \in Trackers, AnnounceSkip(t)
      PROVE  CounterInv'
  BY <1>8 DEF AnnounceSkip, Return, tracker, socket, network
<1>9. ASSUME NEW t \in Trackers, NEW id \in TransIds, AnnounceSend(t, id)
      PROVE  CounterInv'
  BY <1>9 DEF AnnounceSend, MayAnnounce, socket
<1>10. ASSUME NEW t \in Trackers, NEW a \in answers, AnnounceAccept(t, a)
      PROVE  CounterInv'
  BY <1>10 DEF AnnounceAccept, Receivable, Matches, socket, network
<1>11. ASSUME NEW t \in Trackers, NEW a \in answers, AnnounceReject(t, a)
      PROVE  CounterInv'
  BY <1>11 DEF AnnounceReject, AnnounceResult, Return, socket, network
<1>12. ASSUME NEW t \in Trackers, AnnounceTimeout(t)
      PROVE  CounterInv'
  BY <1>12 DEF AnnounceTimeout, AttemptLeft, socket, network
<1>13. ASSUME NEW t \in Trackers, AnnounceGiveUp(t)
      PROVE  CounterInv'
  BY <1>13 DEF AnnounceGiveUp, AttemptLeft, Return, tracker, socket, network
<1>14. ASSUME NEW t \in Trackers, PeerSession(t)
      PROVE  CounterInv'
  BY <1>14 DEF PeerSession, control, tracker, socket, network
<1>15. ASSUME NEW t \in Trackers, PeerCrashes(t)
      PROVE  CounterInv'
  BY <1>15 DEF PeerCrashes, control, tracker, socket, network
<1>16. ASSUME NEW t \in Trackers, AnnounceReturns(t)
      PROVE  CounterInv'
  BY <1>16 DEF AnnounceReturns, Return, tracker, socket, network
<1>17. ASSUME NEW t \in Trackers, Destroy(t)
      PROVE  CounterInv'
  BY <1>17 DEF Destroy, tracker, network
<1>18. ASSUME NEW r \in requests, NEW action \in {0, 1, 3}, NEW n \in 0..MaxPeers,
             TrackerAnswers(r, action, n)
      PROVE  CounterInv'
  BY <1>18 DEF TrackerAnswers, control, tracker, socket
<1>19. CASE UNCHANGED vars
  BY <1>19 DEF vars, control, tracker, socket, network
<1> HIDE DEF TypeOK, CounterInv, Waiting
<1> QED
  BY <1>1, <1>2, <1>3, <1>4, <1>5, <1>6, <1>7, <1>8, <1>9, <1>10, <1>11,
     <1>12, <1>13, <1>14, <1>15, <1>16, <1>17, <1>18, <1>19 DEF Next,
     ConnectStep, AnnounceStep, PeerStep, NetworkStep

(* Descriptors. *)
LEMMA SocketNext ==
  ASSUME TypeOK, TypeOK', CounterInv, SocketInv, [Next]_vars
  PROVE  SocketInv'
<1> USE ConstantsAssumption DEF TypeOK, CounterInv, SocketInv, Waiting
<1>1. ASSUME NEW t \in Trackers, NEW id \in TransIds, ConnectSend(t, id)
      PROVE  SocketInv'
  BY <1>1 DEF ConnectSend, NewDesc, OpenWith
<1>2. ASSUME NEW t \in Trackers, ConnectNoSocket(t)
      PROVE  SocketInv'
  BY <1>2 DEF ConnectNoSocket, Return, network
<1>3. ASSUME NEW t \in Trackers, ConnectExits(t)
      PROVE  SocketInv'
  BY <1>3 DEF ConnectExits, control, tracker, socket, network
<1>4. ASSUME NEW t \in Trackers, NEW a \in answers, ConnectAccept(t, a)
      PROVE  SocketInv'
  BY <1>4 DEF ConnectAccept, Return, Receivable, Matches, IssuedId, socket, network
<1>5. ASSUME NEW t \in Trackers, NEW a \in answers, ConnectReject(t, a)
      PROVE  SocketInv'
  BY <1>5 DEF ConnectReject, Return, Receivable, Matches, socket, network
<1>6. ASSUME NEW t \in Trackers, ConnectTimeout(t)
      PROVE  SocketInv'
  BY <1>6 DEF ConnectTimeout, AttemptLeft, socket, network
<1>7. ASSUME NEW t \in Trackers, ConnectGiveUp(t)
      PROVE  SocketInv'
  BY <1>7 DEF ConnectGiveUp, AttemptLeft, Return, socket, network
<1>8. ASSUME NEW t \in Trackers, AnnounceSkip(t)
      PROVE  SocketInv'
  BY <1>8 DEF AnnounceSkip, Return, tracker, socket, network
<1>9. ASSUME NEW t \in Trackers, NEW id \in TransIds, AnnounceSend(t, id)
      PROVE  SocketInv'
  BY <1>9 DEF AnnounceSend, MayAnnounce, socket
<1>10. ASSUME NEW t \in Trackers, NEW a \in answers, AnnounceAccept(t, a)
      PROVE  SocketInv'
  BY <1>10 DEF AnnounceAccept, Receivable, Matches, socket, network
<1>11. ASSUME NEW t \in Trackers, NEW a \in answers, AnnounceReject(t, a)
      PROVE  SocketInv'
  BY <1>11 DEF AnnounceReject, AnnounceResult, Return, socket, network
<1>12. ASSUME NEW t \in Trackers, AnnounceTimeout(t)
      PROVE  SocketInv'
  BY <1>12 DEF AnnounceTimeout, AttemptLeft, socket, network
<1>13. ASSUME NEW t \in Trackers, AnnounceGiveUp(t)
      PROVE  SocketInv'
  BY <1>13 DEF AnnounceGiveUp, AttemptLeft, Return, tracker, socket, network
<1>14. ASSUME NEW t \in Trackers, PeerSession(t)
      PROVE  SocketInv'
  BY <1>14 DEF PeerSession, control, tracker, socket, network
<1>15. ASSUME NEW t \in Trackers, PeerCrashes(t)
      PROVE  SocketInv'
  BY <1>15 DEF PeerCrashes, control, tracker, socket, network
<1>16. ASSUME NEW t \in Trackers, AnnounceReturns(t)
      PROVE  SocketInv'
  BY <1>16 DEF AnnounceReturns, Return, tracker, socket, network
<1>17. ASSUME NEW t \in Trackers, Destroy(t)
      PROVE  SocketInv'
  BY <1>17 DEF Destroy, tracker, network
<1>18. ASSUME NEW r \in requests, NEW action \in {0, 1, 3}, NEW n \in 0..MaxPeers,
             TrackerAnswers(r, action, n)
      PROVE  SocketInv'
  BY <1>18 DEF TrackerAnswers, control, tracker, socket
<1>19. CASE UNCHANGED vars
  BY <1>19 DEF vars, control, tracker, socket, network
<1> HIDE DEF TypeOK, CounterInv, SocketInv, Waiting
<1> QED
  BY <1>1, <1>2, <1>3, <1>4, <1>5, <1>6, <1>7, <1>8, <1>9, <1>10, <1>11,
     <1>12, <1>13, <1>14, <1>15, <1>16, <1>17, <1>18, <1>19 DEF Next,
     ConnectStep, AnnounceStep, PeerStep, NetworkStep

(* Requests against the place in the two functions. *)
LEMMA RequestNext ==
  ASSUME TypeOK, TypeOK', CounterInv, RequestInv, [Next]_vars
  PROVE  RequestInv'
<1> USE ConstantsAssumption DEF TypeOK, CounterInv, RequestInv, RequestsOf, Waiting
<1>1. ASSUME NEW t \in Trackers, NEW id \in TransIds, ConnectSend(t, id)
      PROVE  RequestInv'
  BY <1>1 DEF ConnectSend, NewDesc, OpenWith
<1>2. ASSUME NEW t \in Trackers, ConnectNoSocket(t)
      PROVE  RequestInv'
  BY <1>2 DEF ConnectNoSocket, Return, network
<1>3. ASSUME NEW t \in Trackers, ConnectExits(t)
      PROVE  RequestInv'
  BY <1>3 DEF ConnectExits, control, tracker, socket, network
<1>4. ASSUME NEW t \in Trackers, NEW a \in answers, ConnectAccept(t, a)
      PROVE  RequestInv'
  BY <1>4 DEF ConnectAccept, Return, Receivable, Matches, IssuedId, socket, network
<1>5. ASSUME NEW t \in Trackers, NEW a \in answers, ConnectReject(t, a)
      PROVE  RequestInv'
  BY <1>5 DEF ConnectReject, Return, Receivable, Matches, socket, network
<1>6. ASSUME NEW t \in Trackers, ConnectTimeout(t)
      PROVE  RequestInv'
  BY <1>6 DEF ConnectTimeout, AttemptLeft, socket, network
<1>7. ASSUME NEW t \in Trackers, ConnectGiveUp(t)
      PROVE  RequestInv'
  BY <1>7 DEF ConnectGiveUp, AttemptLeft, Return, socket, network
<1>8. ASSUME NEW t \in Trackers, AnnounceSkip(t)
      PROVE  RequestInv'
  BY <1>8 DEF AnnounceSkip, Return, tracker, socket, network
<1>9. ASSUME NEW t \in Trackers, NEW id \in TransIds, AnnounceSend(t, id)
      PROVE  RequestInv'
  BY <1>9 DEF AnnounceSend, MayAnnounce, socket
<1>10. ASSUME NEW t \in Trackers, NEW a \in answers, AnnounceAccept(t, a)
      PROVE  RequestInv'
  BY <1>10 DEF AnnounceAccept, Receivable, Matches, socket, network
<1>11. ASSUME NEW t \in Trackers, NEW a \in answers, AnnounceReject(t, a)
      PROVE  RequestInv'
  BY <1>11 DEF AnnounceReject, AnnounceResult, Return, socket, network
<1>12. ASSUME NEW t \in Trackers, AnnounceTimeout(t)
      PROVE  RequestInv'
  BY <1>12 DEF AnnounceTimeout, AttemptLeft, socket, network
<1>13. ASSUME NEW t \in Trackers, AnnounceGiveUp(t)
      PROVE  RequestInv'
  BY <1>13 DEF AnnounceGiveUp, AttemptLeft, Return, tracker, socket, network
<1>14. ASSUME NEW t \in Trackers, PeerSession(t)
      PROVE  RequestInv'
  BY <1>14 DEF PeerSession, control, tracker, socket, network
<1>15. ASSUME NEW t \in Trackers, PeerCrashes(t)
      PROVE  RequestInv'
  BY <1>15 DEF PeerCrashes, control, tracker, socket, network
<1>16. ASSUME NEW t \in Trackers, AnnounceReturns(t)
      PROVE  RequestInv'
  BY <1>16 DEF AnnounceReturns, Return, tracker, socket, network
<1>17. ASSUME NEW t \in Trackers, Destroy(t)
      PROVE  RequestInv'
  BY <1>17 DEF Destroy, tracker, network
<1>18. ASSUME NEW r \in requests, NEW action \in {0, 1, 3}, NEW n \in 0..MaxPeers,
             TrackerAnswers(r, action, n)
      PROVE  RequestInv'
  BY <1>18 DEF TrackerAnswers, control, tracker, socket
<1>19. CASE UNCHANGED vars
  BY <1>19 DEF vars, control, tracker, socket, network
<1> HIDE DEF TypeOK, CounterInv, RequestInv, RequestsOf, Waiting
<1> QED
  BY <1>1, <1>2, <1>3, <1>4, <1>5, <1>6, <1>7, <1>8, <1>9, <1>10, <1>11,
     <1>12, <1>13, <1>14, <1>15, <1>16, <1>17, <1>18, <1>19 DEF Next,
     ConnectStep, AnnounceStep, PeerStep, NetworkStep

(* The step of a call that sends nothing and waits for nothing afterwards. *)
LEMMA AttemptFrame ==
  ASSUME AttemptInv, NEW t \in Trackers,
         requests' = requests, last_transaction_id' = last_transaction_id,
         pc'[t] \notin {"connect_wait", "connect_retry", "announce_wait", "announce_retry"},
         \A u \in Trackers : u # t => pc'[u] = pc[u] /\ frames'[u] = frames[u]
  PROVE  AttemptInv'
  BY DEF AttemptInv, RequestsOf

(* One request of each attempt. *)
LEMMA AttemptNext ==
  ASSUME TypeOK, TypeOK', CounterInv, RequestInv, AttemptInv, [Next]_vars
  PROVE  AttemptInv'
<1> USE ConstantsAssumption DEF TypeOK, CounterInv, RequestInv, AttemptInv, RequestsOf, Waiting
<1>1. ASSUME NEW t \in Trackers, NEW id \in TransIds, ConnectSend(t, id)
      PROVE  AttemptInv'
  <2> DEFINE new == [tracker |-> t, kind |-> "connect", frame |-> frames[t] + 1,
                    sock |-> NewDesc(t), tid |-> id, cid |-> 0]
  <2>1. /\ requests' = requests \cup {new}
        /\ new.tracker = t /\ new.kind = "connect"
        /\ new.frame = frames[t] + 1 /\ new.tid = id
    BY <1>1 DEF ConnectSend, NewDesc
  <2>2. /\ frames' = [frames EXCEPT ![t] = frames[t] + 1]
        /\ pc' = [pc EXCEPT ![t] = "connect_wait"]
        /\ last_transaction_id' = [last_transaction_id EXCEPT ![t] = id]
        /\ DOMAIN frames = Trackers /\ DOMAIN pc = Trackers
        /\ DOMAIN last_transaction_id = Trackers
        /\ frames[t] \in Nat
    BY <1>1 DEF ConnectSend, NewDesc
  <2>3. \A n \in 1..frames[t] : \E r \in RequestsOf(t, "connect") : r.frame = n
    BY <1>1 DEF ConnectSend, NewDesc
  <2>4. \A r \in RequestsOf(t, "connect") : r.frame # frames[t] + 1
    <3>1. CASE pc[t] = "created"
      BY <3>1
    <3>2. CASE pc[t] = "connect_retry"
      <4>1. \A r \in RequestsOf(t, "connect") : r.frame \in Nat /\ r.frame <= frames[t]
        BY <3>2 DEF Requests
      <4> QED
        BY <2>2, <4>1
    <3> QED
      BY <1>1, <3>1, <3>2 DEF ConnectSend, NewDesc
  <2> HIDE DEF new, TypeOK, CounterInv, RequestInv, AttemptInv
  <2>5. RequestsOf(t, "connect")' = RequestsOf(t, "connect") \cup {new}
    BY <2>1
  <2>6. \A n \in 1..frames'[t] : \E r \in RequestsOf(t, "connect")' : r.frame = n
    BY <2>1, <2>2, <2>3, <2>5
  <2>7. \A r \in RequestsOf(t, "connect")' :
          r.frame = frames'[t] => r.tid = last_transaction_id'[t]
    BY <2>1, <2>2, <2>4, <2>5
  <2>8. ASSUME NEW u \in Trackers, u # t
        PROVE  /\ RequestsOf(u, "connect")' = RequestsOf(u, "connect")
               /\ RequestsOf(u, "announce")' = RequestsOf(u, "announce")
               /\ pc'[u] = pc[u] /\ frames'[u] = frames[u]
               /\ last_transaction_id'[u] = last_transaction_id[u]
    BY <2>1, <2>2, <2>8
  <2>9. pc'[t] = "connect_wait"
    BY <2>2
  <2> HIDE DEF RequestsOf
  <2> QED
    BY <2>6, <2>7, <2>8, <2>9 DEF AttemptInv
<1>2. ASSUME NEW t \in Trackers, ConnectNoSocket(t)
      PROVE  AttemptInv'
  <2>1. /\ requests' = requests /\ last_transaction_id' = last_transaction_id
        /\ pc'[t] \notin {"connect_wait", "connect_retry", "announce_wait", "announce_retry"}
        /\ \A u \in Trackers : u # t => pc'[u] = pc[u] /\ frames'[u] = frames[u]
    BY <1>2 DEF ConnectNoSocket, Return, network
  <2> HIDE DEF TypeOK, CounterInv, RequestInv, AttemptInv, RequestsOf, Waiting
  <2> QED
    BY <2>1, AttemptFrame
<1>3. ASSUME NEW t \in Trackers, ConnectExits(t)
      PROVE  AttemptInv'
  BY <1>3 DEF ConnectExits, control, tracker, socket, network
<1>4. ASSUME NEW t \in Trackers, NEW a \in answers, ConnectAccept(t, a)
      PROVE  AttemptInv'
  <2>1. /\ requests' = requests /\ last_transaction_id' = last_transaction_id
        /\ pc'[t] \notin {"connect_wait", "connect_retry", "announce_wait", "announce_retry"}
        /\ \A u \in Trackers : u # t => pc'[u] = pc[u] /\ frames'[u] = frames[u]
    BY <1>4 DEF ConnectAccept, Return, network
  <2> HIDE DEF TypeOK, CounterInv, RequestInv, AttemptInv, RequestsOf, Waiting
  <2> QED
    BY <2>1, AttemptFrame
<1>5. ASSUME NEW t \in Trackers, NEW a \in answers, ConnectReject(t, a)
      PROVE  AttemptInv'
  <2>1. /\ requests' = requests /\ last_transaction_id' = last_transaction_id
        /\ pc'[t] \notin {"connect_wait", "connect_retry", "announce_wait", "announce_retry"}
        /\ \A u \in Trackers : u # t => pc'[u] = pc[u] /\ frames'[u] = frames[u]
    BY <1>5 DEF ConnectReject, Return, network
  <2> HIDE DEF TypeOK, CounterInv, RequestInv, AttemptInv, RequestsOf, Waiting
  <2> QED
    BY <2>1, AttemptFrame
<1>6. ASSUME NEW t \in Trackers, ConnectTimeout(t)
      PROVE  AttemptInv'
  BY <1>6 DEF ConnectTimeout, AttemptLeft, socket, network
<1>7. ASSUME NEW t \in Trackers, ConnectGiveUp(t)
      PROVE  AttemptInv'
  <2>1. /\ requests' = requests /\ last_transaction_id' = last_transaction_id
        /\ pc'[t] \notin {"connect_wait", "connect_retry", "announce_wait", "announce_retry"}
        /\ \A u \in Trackers : u # t => pc'[u] = pc[u] /\ frames'[u] = frames[u]
    BY <1>7 DEF ConnectGiveUp, Return, network
  <2> HIDE DEF TypeOK, CounterInv, RequestInv, AttemptInv, RequestsOf, Waiting
  <2> QED
    BY <2>1, AttemptFrame
<1>8. ASSUME NEW t \in Trackers, AnnounceSkip(t)
      PROVE  AttemptInv'
  <2>1. /\ requests' = requests /\ last_transaction_id' = last_transaction_id
        /\ pc'[t] \notin {"connect_wait", "connect_retry", "announce_wait", "announce_retry"}
        /\ \A u \in Trackers : u # t => pc'[u] = pc[u] /\ frames'[u] = frames[u]
    BY <1>8 DEF AnnounceSkip, Return, tracker, network
  <2> HIDE DEF TypeOK, CounterInv, RequestInv, AttemptInv, RequestsOf, Waiting
  <2> QED
    BY <2>1, AttemptFrame
<1>9. ASSUME NEW t \in Trackers, NEW id \in TransIds, AnnounceSend(t, id)
      PROVE  AttemptInv'
  <2> DEFINE new == [tracker |-> t, kind |-> "announce", frame |-> frames[t] + 1,
                    sock |-> sock_desc[t], tid |-> id, cid |-> connection_id[t]]
  <2>1. /\ requests' = requests \cup {new}
        /\ new.tracker = t /\ new.kind = "announce"
        /\ new.frame = frames[t] + 1 /\ new.tid = id
    BY <1>9 DEF AnnounceSend, MayAnnounce
  <2>2. /\ frames' = [frames EXCEPT ![t] = frames[t] + 1]
        /\ pc' = [pc EXCEPT ![t] = "announce_wait"]
        /\ last_transaction_id' = [last_transaction_id EXCEPT ![t] = id]
        /\ DOMAIN frames = Trackers /\ DOMAIN pc = Trackers
        /\ DOMAIN last_transaction_id = Trackers
        /\ frames[t] \in Nat
    BY <1>9 DEF AnnounceSend, MayAnnounce
  <2>3. \A n \in 1..frames[t] : \E r \in RequestsOf(t, "announce") : r.frame = n
    BY <1>9 DEF AnnounceSend, MayAnnounce
  <2>4. \A r \in RequestsOf(t, "announce") : r.frame # frames[t] + 1
    <3>1. CASE pc[t] = "idle"
      BY <3>1
    <3>2. CASE pc[t] = "announce_retry"
      <4>1. \A r \in RequestsOf(t, "announce") : r.frame \in Nat /\ r.frame <= frames[t]
        BY <3>2 DEF Requests
      <4> QED
        BY <2>2, <4>1
    <3> QED
      BY <1>9, <3>1, <3>2 DEF AnnounceSend, MayAnnounce
  <2> HIDE DEF new, TypeOK, CounterInv, RequestInv, AttemptInv
  <2>5. RequestsOf(t, "announce")' = RequestsOf(t, "announce") \cup {new}
    BY <2>1
  <2>6. \A n \in 1..frames'[t] : \E r \in RequestsOf(t, "announce")' : r.frame = n
    BY <2>1, <2>2, <2>3, <2>5
  <2>7. \A r \in RequestsOf(t, "announce")' :
          r.frame = frames'[t] => r.tid = last_transaction_id'[t]
    BY <2>1, <2>2, <2>4, <2>5
  <2>8. ASSUME NEW u \in Trackers, u # t
        PROVE  /\ RequestsOf(u, "connect")' = RequestsOf(u, "connect")
               /\ RequestsOf(u, "announce")' = RequestsOf(u, "announce")
               /\ pc'[u] = pc[u] /\ frames'[u] = frames[u]
               /\ last_transaction_id'[u] = last_transaction_id[u]
    BY <2>1, <2>2, <2>8
  <2>9. pc'[t] = "announce_wait"
    BY <2>2
  <2> HIDE DEF RequestsOf
  <2> QED
    BY <2>6, <2>7, <2>8, <2>9 DEF AttemptInv
<1>10. ASSUME NEW t \in Trackers, NEW a \in answers, AnnounceAccept(t, a)
      PROVE  AttemptInv'
  <2>1. /\ requests' = requests /\ last_transaction_id' = last_transaction_id
        /\ pc'[t] \notin {"connect_wait", "connect_retry", "announce_wait", "announce_retry"}
        /\ \A u \in Trackers : u # t => pc'[u] = pc[u] /\ frames'[u] = frames[u]
    BY <1>10 DEF AnnounceAccept, network
  <2> HIDE DEF TypeOK, CounterInv, RequestInv, AttemptInv, RequestsOf, Waiting
  <2> QED
    BY <2>1, AttemptFrame
<1>11. ASSUME NEW t \in Trackers, NEW a \in answers, AnnounceReject(t, a)
      PROVE  AttemptInv'
  <2>1. /\ requests' = requests /\ last_transaction_id' = last_transaction_id
        /\ pc'[t] \notin {"connect_wait", "connect_retry", "announce_wait", "announce_retry"}
        /\ \A u \in Trackers : u # t => pc'[u] = pc[u] /\ frames'[u] = frames[u]
    BY <1>11 DEF AnnounceReject, Return, network
  <2> HIDE DEF TypeOK, CounterInv, RequestInv, AttemptInv, RequestsOf, Waiting
  <2> QED
    BY <2>1, AttemptFrame
<1>12. ASSUME NEW t \in Trackers, AnnounceTimeout(t)
      PROVE  AttemptInv'
  BY <1>12 DEF AnnounceTimeout, AttemptLeft, socket, network
<1>13. ASSUME NEW t \in Trackers, AnnounceGiveUp(t)
      PROVE  AttemptInv'
  <2>1. /\ requests' = requests /\ last_transaction_id' = last_transaction_id
        /\ pc'[t] \notin {"connect_wait", "connect_retry", "announce_wait", "announce_retry"}
        /\ \A u \in Trackers : u # t => pc'[u] = pc[u] /\ frames'[u] = frames[u]
    BY <1>13 DEF AnnounceGiveUp, Return, tracker, network
  <2> HIDE DEF TypeOK, CounterInv, RequestInv, AttemptInv, RequestsOf, Waiting
  <2> QED
    BY <2>1, AttemptFrame
<1>14. ASSUME NEW t \in Trackers, PeerSession(t)
      PROVE  AttemptInv'
  BY <1>14 DEF PeerSession, control, tracker, socket, network
<1>15. ASSUME NEW t \in Trackers, PeerCrashes(t)
      PROVE  AttemptInv'
  BY <1>15 DEF PeerCrashes, control, tracker, socket, network
<1>16. ASSUME NEW t \in Trackers, AnnounceReturns(t)
      PROVE  AttemptInv'
  <2>1. /\ requests' = requests /\ last_transaction_id' = last_transaction_id
        /\ pc'[t] \notin {"connect_wait", "connect_retry", "announce_wait", "announce_retry"}
        /\ \A u \in Trackers : u # t => pc'[u] = pc[u] /\ frames'[u] = frames[u]
    BY <1>16 DEF AnnounceReturns, Return, tracker, network
  <2> HIDE DEF TypeOK, CounterInv, RequestInv, AttemptInv, RequestsOf, Waiting
  <2> QED
    BY <2>1, AttemptFrame
<1>17. ASSUME NEW t \in Trackers, Destroy(t)
      PROVE  AttemptInv'
  <2>1. /\ requests' = requests /\ last_transaction_id' = last_transaction_id
        /\ pc'[t] \notin {"connect_wait", "connect_retry", "announce_wait", "announce_retry"}
        /\ \A u \in Trackers : u # t => pc'[u] = pc[u] /\ frames'[u] = frames[u]
    BY <1>17 DEF Destroy, tracker, network
  <2> HIDE DEF TypeOK, CounterInv, RequestInv, AttemptInv, RequestsOf, Waiting
  <2> QED
    BY <2>1, AttemptFrame
<1>18. ASSUME NEW r \in requests, NEW action \in {0, 1, 3}, NEW n \in 0..MaxPeers,
             TrackerAnswers(r, action, n)
      PROVE  AttemptInv'
  BY <1>18 DEF TrackerAnswers, control, tracker, socket
<1>19. CASE UNCHANGED vars
  BY <1>19 DEF vars, control, tracker, socket, network
<1> HIDE DEF TypeOK, CounterInv, RequestInv, AttemptInv, RequestsOf, Waiting
<1> QED
  BY <1>1, <1>2, <1>3, <1>4, <1>5, <1>6, <1>7, <1>8, <1>9, <1>10, <1>11,
     <1>12, <1>13, <1>14, <1>15, <1>16, <1>17, <1>18, <1>19 DEF Next,
     ConnectStep, AnnounceStep, PeerStep, NetworkStep

(* Answers of the network. *)
LEMMA AnswerNext ==
  ASSUME TypeOK, TypeOK', AnswerInv, [Next]_vars
  PROVE  AnswerInv'
<1> USE DEF TypeOK, AnswerInv
<1>1. ASSUME NEW t \in Trackers, NEW id \in TransIds, ConnectSend(t, id)
      PROVE  AnswerInv'
  BY <1>1 DEF ConnectSend, NewDesc, OpenWith
<1>2. ASSUME NEW t \in Trackers, ConnectNoSocket(t)
      PROVE  AnswerInv'
  BY <1>2 DEF ConnectNoSocket, Return, network
<1>3. ASSUME NEW t \in Trackers, ConnectExits(t)
      PROVE  AnswerInv'
  BY <1>3 DEF ConnectExits, control, tracker, socket, network
<1>4. ASSUME NEW t \in Trackers, NEW a \in answers, ConnectAccept(t, a)
      PROVE  AnswerInv'
  BY <1>4 DEF ConnectAccept, Return, Receivable, Matches, IssuedId, socket, network
<1>5. ASSUME NEW t \in Trackers, NEW a \in answers, ConnectReject(t, a)
      PROVE  AnswerInv'
  BY <1>5 DEF ConnectReject, Return, Receivable, Matches, socket, network
<1>6. ASSUME NEW t \in Trackers, ConnectTimeout(t)
      PROVE  AnswerInv'
  BY <1>6 DEF ConnectTimeout, AttemptLeft, socket, network
<1>7. ASSUME NEW t \in Trackers, ConnectGiveUp(t)
      PROVE  AnswerInv'
  BY <1>7 DEF ConnectGiveUp, AttemptLeft, Return, socket, network
<1>8. ASSUME NEW t \in Trackers, AnnounceSkip(t)
      PROVE  AnswerInv'
  BY <1>8 DEF AnnounceSkip, Return, tracker, socket, network
<1>9. ASSUME NEW t \in Trackers, NEW id \in TransIds, AnnounceSend(t, id)
      PROVE  AnswerInv'
  BY <1>9 DEF AnnounceSend, MayAnnounce, socket
<1>10. ASSUME NEW t \in Trackers, NEW a \in answers, AnnounceAccept(t, a)
      PROVE  AnswerInv'
  BY <1>10 DEF AnnounceAccept, Receivable, Matches, socket, network
<1>11. ASSUME NEW t \in Trackers, NEW a \in answers, AnnounceReject(t, a)
      PROVE  AnswerInv'
  BY <1>11 DEF AnnounceReject, AnnounceResult, Return, socket, network
<1>12. ASSUME NEW t \in Trackers, AnnounceTimeout(t)
      PROVE  AnswerInv'
  BY <1>12 DEF AnnounceTimeout, AttemptLeft, socket, network
<1>13. ASSUME NEW t \in Trackers, AnnounceGiveUp(t)
      PROVE  AnswerInv'
  BY <1>13 DEF AnnounceGiveUp, AttemptLeft, Return, tracker, socket, network
<1>14. ASSUME NEW t \in Trackers, PeerSession(t)
      PROVE  AnswerInv'
  BY <1>14 DEF PeerSession, control, tracker, socket, network
<1>15. ASSUME NEW t \in Trackers, PeerCrashes(t)
      PROVE  AnswerInv'
  BY <1>15 DEF PeerCrashes, control, tracker, socket, network
<1>16. ASSUME NEW t \in Trackers, AnnounceReturns(t)
      PROVE  AnswerInv'
  BY <1>16 DEF AnnounceReturns, Return, tracker, socket, network
<1>17. ASSUME NEW t \in Trackers, Destroy(t)
      PROVE  AnswerInv'
  BY <1>17 DEF Destroy, tracker, network
<1>18. ASSUME NEW r \in requests, NEW action \in {0, 1, 3}, NEW n \in 0..MaxPeers,
             TrackerAnswers(r, action, n)
      PROVE  AnswerInv'
  BY <1>18 DEF TrackerAnswers, control, tracker, socket
<1>19. CASE UNCHANGED vars
  BY <1>19 DEF vars, control, tracker, socket, network
<1> HIDE DEF TypeOK, AnswerInv
<1> QED
  BY <1>1, <1>2, <1>3, <1>4, <1>5, <1>6, <1>7, <1>8, <1>9, <1>10, <1>11,
     <1>12, <1>13, <1>14, <1>15, <1>16, <1>17, <1>18, <1>19 DEF Next,
     ConnectStep, AnnounceStep, PeerStep, NetworkStep

(* Answers accepted. *)
LEMMA AcceptedNext ==
  ASSUME TypeOK, TypeOK', AnswerInv, AcceptedInv, [Next]_vars
  PROVE  AcceptedInv'
<1> USE DEF TypeOK, AnswerInv, AcceptedInv
<1>1. ASSUME NEW t \in Trackers, NEW id \in TransIds, ConnectSend(t, id)
      PROVE  AcceptedInv'
  BY <1>1 DEF ConnectSend, NewDesc, OpenWith
<1>2. ASSUME NEW t \in Trackers, ConnectNoSocket(t)
      PROVE  AcceptedInv'
  BY <1>2 DEF ConnectNoSocket, Return, network
<1>3. ASSUME NEW t \in Trackers, ConnectExits(t)
      PROVE  AcceptedInv'
  BY <1>3 DEF ConnectExits, control, tracker, socket, network
<1>4. ASSUME NEW t \in Trackers, NEW a \in answers, ConnectAccept(t, a)
      PROVE  AcceptedInv'
  BY <1>4 DEF ConnectAccept, Return, Receivable, Matches, IssuedId, socket, network
<1>5. ASSUME NEW t \in Trackers, NEW a \in answers, ConnectReject(t, a)
      PROVE  AcceptedInv'
  BY <1>5 DEF ConnectReject, Return, Receivable, Matches, socket, network
<1>6. ASSUME NEW t \in Trackers, ConnectTimeout(t)
      PROVE  AcceptedInv'
  BY <1>6 DEF ConnectTimeout, AttemptLeft, socket, network
<1>7. ASSUME NEW t \in Trackers, ConnectGiveUp(t)
      PROVE  AcceptedInv'
  BY <1>7 DEF ConnectGiveUp, AttemptLeft, Return, socket, network
<1>8. ASSUME NEW t \in Trackers, AnnounceSkip(t)
      PROVE  AcceptedInv'
  BY <1>8 DEF AnnounceSkip, Return, tracker, socket, network
<1>9. ASSUME NEW t \in Trackers, NEW id \in TransIds, AnnounceSend(t, id)
      PROVE  AcceptedInv'
  BY <1>9 DEF AnnounceSend, MayAnnounce, socket
<1>10. ASSUME NEW t \in Trackers, NEW a \in answers, AnnounceAccept(t, a)
      PROVE  AcceptedInv'
  BY <1>10 DEF AnnounceAccept, Receivable, Matches, socket, network
<1>11. ASSUME NEW t \in Trackers, NEW a \in answers, AnnounceReject(t, a)
      PROVE  AcceptedInv'
  BY <1>11 DEF AnnounceReject, AnnounceResult, Return, socket, network
<1>12. ASSUME NEW t \in Trackers, AnnounceTimeout(t)
      PROVE  AcceptedInv'
  BY <1>12 DEF AnnounceTimeout, AttemptLeft, socket, network
<1>13. ASSUME NEW t \in Trackers, AnnounceGiveUp(t)
      PROVE  AcceptedInv'
  BY <1>13 DEF AnnounceGiveUp, AttemptLeft, Return, tracker, socket, network
<1>14. ASSUME NEW t \in Trackers, PeerSession(t)
      PROVE  AcceptedInv'
  BY <1>14 DEF PeerSession, control, tracker, socket, network
<1>15. ASSUME NEW t \in Trackers, PeerCrashes(t)
      PROVE  AcceptedInv'
  BY <1>15 DEF PeerCrashes, control, tracker, socket, network
<1>16. ASSUME NEW t \in Trackers, AnnounceReturns(t)
      PROVE  AcceptedInv'
  BY <1>16 DEF AnnounceReturns, Return, tracker, socket, network
<1>17. ASSUME NEW t \in Trackers, Destroy(t)
      PROVE  AcceptedInv'
  BY <1>17 DEF Destroy, tracker, network
<1>18. ASSUME NEW r \in requests, NEW action \in {0, 1, 3}, NEW n \in 0..MaxPeers,
             TrackerAnswers(r, action, n)
      PROVE  AcceptedInv'
  BY <1>18 DEF TrackerAnswers, control, tracker, socket
<1>19. CASE UNCHANGED vars
  BY <1>19 DEF vars, control, tracker, socket, network
<1> HIDE DEF TypeOK, AnswerInv, AcceptedInv
<1> QED
  BY <1>1, <1>2, <1>3, <1>4, <1>5, <1>6, <1>7, <1>8, <1>9, <1>10, <1>11,
     <1>12, <1>13, <1>14, <1>15, <1>16, <1>17, <1>18, <1>19 DEF Next,
     ConnectStep, AnnounceStep, PeerStep, NetworkStep

(* Together. *)
IInv ==
  /\ TypeOK /\ CounterInv /\ SocketInv /\ RequestInv
  /\ AttemptInv /\ AnswerInv /\ AcceptedInv

LEMMA Inductive == Spec => []IInv
<1>1. Init => IInv
  BY TypeInit, InvInit DEF IInv
<1>2. IInv /\ [Next]_vars => IInv'
  <2> SUFFICES ASSUME IInv, [Next]_vars
               PROVE  IInv'
    OBVIOUS
  <2> USE DEF IInv
  <2>1. TypeOK'
    BY TypeNext
  <2>2. CounterInv'
    BY <2>1, CounterNext
  <2>3. SocketInv'
    BY <2>1, SocketNext
  <2>4. RequestInv'
    BY <2>1, RequestNext
  <2>5. AttemptInv'
    BY <2>1, AttemptNext
  <2>6. AnswerInv'
    BY <2>1, AnswerNext
  <2>7. AcceptedInv'
    BY <2>1, AcceptedNext
  <2> QED
    BY <2>1, <2>2, <2>3, <2>4, <2>5, <2>6, <2>7
<1> QED
  BY <1>1, <1>2, PTL DEF Spec

-----------------------------------------------------------------------------
(* What follows from the invariant *)

(* The variables of Tracker stay in their types; attempts never leaves
   0..max_attempts (tracker.c:68-70, 171, 281).                        *)
THEOREM TypeCorrect == Spec => []TypeOK
<1>1. IInv => TypeOK
  BY DEF IInv
<1> QED
  BY <1>1, Inductive, PTL

(* However many attempts are allowed and whatever the network does, a waiting
   call is attempt attempts + 1 and has sent one request of each attempt, and
   no exchange sends more than max_attempts + 1 (tracker.c:170-180, 280-285). *)
THEOREM BudgetKept == Spec => []RetryBudget
<1>1. IInv => RetryBudget
  <2> SUFFICES ASSUME IInv
               PROVE  RetryBudget
    OBVIOUS
  <2> USE DEF IInv
  <2>1. ASSUME NEW t \in Trackers, Waiting(t)
        PROVE  /\ frames[t] = attempts[t] + 1
               /\ {r.frame : r \in RequestsOf(t, Phase(t))} = 1..frames[t]
    <3>1. frames[t] = attempts[t] + 1 /\ frames[t] \in Nat
      BY <2>1 DEF CounterInv, TypeOK
    <3>2. \A r \in RequestsOf(t, Phase(t)) : r.frame \in 1..frames[t]
      BY <2>1, <3>1, ConstantsAssumption DEF RequestInv, TypeOK, Requests, RequestsOf, Waiting, Phase
    <3>3. \A n \in 1..frames[t] : \E r \in RequestsOf(t, Phase(t)) : r.frame = n
      BY <2>1 DEF AttemptInv, Waiting, Phase
    <3> QED
      BY <3>1, <3>2, <3>3
  <2>2. ASSUME NEW t \in Trackers, pc[t] \in {"created", "idle"}
        PROVE  attempts[t] = 0
    BY <2>2 DEF CounterInv
  <2>3. ASSUME NEW r \in requests
        PROVE  r.frame <= MaxAttempts + 1
    BY <2>3, ConstantsAssumption DEF RequestInv
  <2> QED
    BY <2>1, <2>2, <2>3 DEF RetryBudget
<1> QED
  BY <1>1, Inductive, PTL

(* The client only waits on a descriptor it holds, and the descriptors the
   retries leave open are never more than max_attempts + 1 (socket.c:189-191). *)
THEOREM DescriptorsAreBounded == Spec => []DescriptorsBounded
<1>1. IInv => DescriptorsBounded
  BY DEF IInv, SocketInv, DescriptorsBounded
<1> QED
  BY <1>1, Inductive, PTL

-----------------------------------------------------------------------------
(* The answers the client believes *)

(* A datagram that reaches a waiting connect answers its last request. *)
LEMMA AnswerToConnect ==
  ASSUME IInv, NEW t \in Trackers, pc[t] = "connect_wait", NEW a \in Receivable(t)
  PROVE  /\ a \in answers /\ a.action # 1
         /\ LastRequest(t, "connect", a.re)
         /\ a.re.sock = sock_desc[t]
         /\ a.re.tid = last_transaction_id[t]
<1>1. a \in answers /\ a.re.tracker = t /\ a.re.sock = sock_desc[t]
  BY DEF Receivable
<1>2. a.re \in requests /\ a.re.kind \in {"connect", "announce"}
  BY <1>1 DEF IInv, AnswerInv, TypeOK, Requests, Kinds
<1>3. a.re.kind # "announce" /\ a.re \in RequestsOf(t, "connect")
  BY <1>1, <1>2 DEF IInv, RequestInv, RequestsOf
<1>4. a.re.frame = frames[t] /\ a.re.tid = last_transaction_id[t]
  BY <1>1, <1>2, <1>3 DEF IInv, RequestInv, SocketInv, AttemptInv, RequestsOf
<1>5. \A q \in RequestsOf(t, "connect") : q.frame <= a.re.frame
  BY <1>4 DEF IInv, RequestInv
<1>6. a.action # 1
  BY <1>1, <1>3 DEF IInv, AnswerInv
<1> QED
  BY <1>1, <1>3, <1>4, <1>5, <1>6 DEF LastRequest

(* An answer an announce believes was asked for with the id it has now. *)
LEMMA AnswerToAnnounce ==
  ASSUME IInv, NEW t \in Trackers, pc[t] = "announce_wait", NEW a \in Receivable(t),
         Matches(t, a, 1)
  PROVE  /\ a \in answers /\ a.action = 1 /\ a.re.kind = "announce"
         /\ a.re.cid = connection_id[t]
         /\ \E r \in requests : LastRequest(t, "announce", r) /\ r.tid = a.re.tid
<1>1. a \in answers /\ a.re.tracker = t /\ a.action = 1
      /\ a.re.tid = last_transaction_id[t]
  BY DEF Receivable, Matches
<1>2. a.re \in RequestsOf(t, "announce") /\ a.re.kind = "announce"
  BY <1>1 DEF IInv, AnswerInv, RequestsOf
<1>3. a.re.cid = connection_id[t]
  BY <1>2 DEF IInv, RequestInv
<1>4. frames[t] \in 1..frames[t]
  BY ConstantsAssumption DEF IInv, TypeOK, CounterInv, Waiting
<1>5. PICK r \in RequestsOf(t, "announce") : r.frame = frames[t]
  BY <1>4 DEF IInv, AttemptInv
<1>6. r.tid = a.re.tid
  BY <1>1, <1>5 DEF IInv, AttemptInv
<1>7. LastRequest(t, "announce", r)
  BY <1>5 DEF IInv, RequestInv, LastRequest
<1> QED
  BY <1>1, <1>2, <1>3, <1>6, <1>7, <1>5 DEF RequestsOf

(* When no attempt is left, the last one allowed has been sent. *)
LEMMA BudgetSpent ==
  ASSUME IInv, NEW t \in Trackers, Waiting(t), ~AttemptLeft(t)
  PROVE  \E r \in RequestsOf(t, Phase(t)) : r.frame = MaxAttempts + 1
<1>1. frames[t] = MaxAttempts + 1 /\ MaxAttempts + 1 \in 1..frames[t]
  BY ConstantsAssumption DEF IInv, TypeOK, CounterInv, AttemptLeft
<1> QED
  BY <1>1 DEF IInv, AttemptInv, Waiting, Phase

LEMMA GenuineNext ==
  ASSUME IInv, IInv', ConnectedGenuine, [Next]_vars
  PROVE  ConnectedGenuine'
<1> USE DEF IInv, TypeOK, CounterInv, ConnectedGenuine, LastRequest, RequestsOf
<1>1. ASSUME NEW t \in Trackers, NEW id \in TransIds, ConnectSend(t, id)
      PROVE  ConnectedGenuine'
  BY <1>1 DEF ConnectSend, NewDesc, OpenWith
<1>2. ASSUME NEW t \in Trackers, ConnectNoSocket(t)
      PROVE  ConnectedGenuine'
  BY <1>2 DEF ConnectNoSocket, Return, network
<1>3. ASSUME NEW t \in Trackers, ConnectExits(t)
      PROVE  ConnectedGenuine'
  BY <1>3 DEF ConnectExits, control, tracker, socket, network
<1>4. ASSUME NEW t \in Trackers, NEW a \in answers, ConnectAccept(t, a)
      PROVE  ConnectedGenuine'
  <2>1. /\ a \in answers /\ a.action = 0
        /\ LastRequest(t, "connect", a.re)
        /\ a.re.sock = sock_desc[t]
    BY <1>4, AnswerToConnect DEF ConnectAccept, Matches
  <2>2. sock_desc[t] \in open[t]
    BY <1>4 DEF ConnectAccept, SocketInv, Waiting
  <2>3. /\ UNCHANGED <<requests, answers, sock_desc, open>>
        /\ connection_id' = [connection_id EXCEPT ![t] = IssuedId(a)]
        /\ connected' = [connected EXCEPT ![t] = TRUE]
        /\ pc' = [pc EXCEPT ![t] = "idle"]
    BY <1>4 DEF ConnectAccept, Return, socket, network
  <2>4. ASSUME NEW u \in Trackers, u # t
        PROVE  connected'[u] = connected[u] /\ connection_id'[u] = connection_id[u]
               /\ pc'[u] = pc[u]
    BY <2>3, <2>4
  <2>5. connection_id'[t] = IssuedId(a)
    BY <2>3
  <2> HIDE DEF TypeOK, CounterInv, IInv
  <2> QED
    BY <2>1, <2>2, <2>3, <2>4, <2>5 DEF IssuedId
<1>5. ASSUME NEW t \in Trackers, NEW a \in answers, ConnectReject(t, a)
      PROVE  ConnectedGenuine'
  BY <1>5 DEF ConnectReject, Return, Receivable, Matches, socket, network
<1>6. ASSUME NEW t \in Trackers, ConnectTimeout(t)
      PROVE  ConnectedGenuine'
  BY <1>6 DEF ConnectTimeout, AttemptLeft, socket, network
<1>7. ASSUME NEW t \in Trackers, ConnectGiveUp(t)
      PROVE  ConnectedGenuine'
  BY <1>7 DEF ConnectGiveUp, AttemptLeft, Return, socket, network
<1>8. ASSUME NEW t \in Trackers, AnnounceSkip(t)
      PROVE  ConnectedGenuine'
  BY <1>8 DEF AnnounceSkip, Return, tracker, socket, network
<1>9. ASSUME NEW t \in Trackers, NEW id \in TransIds, AnnounceSend(t, id)
      PROVE  ConnectedGenuine'
  <2>1. ASSUME NEW u \in Trackers
        PROVE  RequestsOf(u, "connect")' = RequestsOf(u, "connect")
    BY <1>9 DEF AnnounceSend
  <2>2. /\ UNCHANGED <<connected, connection_id, sock_desc, open, answers>>
        /\ \A u \in Trackers : pc'[u] # "destroyed" => pc[u] # "destroyed"
    BY <1>9 DEF AnnounceSend, MayAnnounce, socket
  <2> HIDE DEF TypeOK, CounterInv, IInv, RequestsOf
  <2> QED
    BY <2>1, <2>2 DEF IssuedId
<1>10. ASSUME NEW t \in Trackers, NEW a \in answers, AnnounceAccept(t, a)
      PROVE  ConnectedGenuine'
  BY <1>10 DEF AnnounceAccept, Receivable, Matches, socket, network
<1>11. ASSUME NEW t \in Trackers, NEW a \in answers, AnnounceReject(t, a)
      PROVE  ConnectedGenuine'
  BY <1>11 DEF AnnounceReject, AnnounceResult, Return, socket, network
<1>12. ASSUME NEW t \in Trackers, AnnounceTimeout(t)
      PROVE  ConnectedGenuine'
  BY <1>12 DEF AnnounceTimeout, AttemptLeft, socket, network
<1>13. ASSUME NEW t \in Trackers, AnnounceGiveUp(t)
      PROVE  ConnectedGenuine'
  BY <1>13 DEF AnnounceGiveUp, AttemptLeft, Return, tracker, socket, network
<1>14. ASSUME NEW t \in Trackers, PeerSession(t)
      PROVE  ConnectedGenuine'
  BY <1>14 DEF PeerSession, control, tracker, socket, network
<1>15. ASSUME NEW t \in Trackers, PeerCrashes(t)
      PROVE  ConnectedGenuine'
  BY <1>15 DEF PeerCrashes, control, tracker, socket, network
<1>16. ASSUME NEW t \in Trackers, AnnounceReturns(t)
      PROVE  ConnectedGenuine'
  BY <1>16 DEF AnnounceReturns, Return, tracker, socket, network
<1>17. ASSUME NEW t \in Trackers, Destroy(t)
      PROVE  ConnectedGenuine'
  BY <1>17 DEF Destroy, tracker, network
<1>18. ASSUME NEW r \in requests, NEW action \in {0, 1, 3}, NEW n \in 0..MaxPeers,
             TrackerAnswers(r, action, n)
      PROVE  ConnectedGenuine'
  BY <1>18 DEF TrackerAnswers, control, tracker, socket
<1>19. CASE UNCHANGED vars
  BY <1>19 DEF vars, control, tracker, socket, network
<1> HIDE DEF IInv, TypeOK, CounterInv, ConnectedGenuine, LastRequest, RequestsOf
<1> QED
  BY <1>1, <1>2, <1>3, <1>4, <1>5, <1>6, <1>7, <1>8, <1>9, <1>10, <1>11,
     <1>12, <1>13, <1>14, <1>15, <1>16, <1>17, <1>18, <1>19 DEF Next,
     ConnectStep, AnnounceStep, PeerStep, NetworkStep

(* For any number of attempts and transaction ids that repeat as they like,
   the connection id in use was issued in answer to the last connect request
   and came in on the descriptor still open (tracker.c:155-159).             *)
THEOREM ConnectionIsGenuine == Spec => []ConnectedGenuine
<1>1. Init => ConnectedGenuine
  BY DEF Init, ConnectedGenuine
<1>2. IInv /\ IInv' /\ ConnectedGenuine /\ [Next]_vars => ConnectedGenuine'
  BY GenuineNext
<1> QED
  BY <1>1, <1>2, Inductive, PTL DEF Spec

LEMMA RejectedNext ==
  ASSUME IInv, IInv', ConnectRejectedByTracker, [Next]_vars
  PROVE  ConnectRejectedByTracker'
<1> USE DEF IInv, TypeOK, ConnectRejectedByTracker, LastRequest, RequestsOf
<1>1. ASSUME NEW t \in Trackers, NEW id \in TransIds, ConnectSend(t, id)
      PROVE  ConnectRejectedByTracker'
  BY <1>1 DEF ConnectSend, NewDesc, OpenWith
<1>2. ASSUME NEW t \in Trackers, ConnectNoSocket(t)
      PROVE  ConnectRejectedByTracker'
  BY <1>2 DEF ConnectNoSocket, Return, network
<1>3. ASSUME NEW t \in Trackers, ConnectExits(t)
      PROVE  ConnectRejectedByTracker'
  BY <1>3 DEF ConnectExits, control, tracker, socket, network
<1>4. ASSUME NEW t \in Trackers, NEW a \in answers, ConnectAccept(t, a)
      PROVE  ConnectRejectedByTracker'
  BY <1>4 DEF ConnectAccept, Return, Receivable, Matches, IssuedId, socket, network
<1>5. ASSUME NEW t \in Trackers, NEW a \in answers, ConnectReject(t, a)
      PROVE  ConnectRejectedByTracker'
  <2>1. /\ a \in answers /\ LastRequest(t, "connect", a.re)
        /\ a.re.tid = last_transaction_id[t] /\ a.action # 1
    BY <1>5, AnswerToConnect DEF ConnectReject
  <2>2. a.action = 3
    BY <1>5, <2>1 DEF ConnectReject, Matches, Answers
  <2>3. UNCHANGED <<requests, answers>>
    BY <1>5 DEF ConnectReject, network
  <2>4. ASSUME NEW u \in Trackers, u # t
        PROVE  pc'[u] = pc[u] /\ outcome'[u] = outcome[u]
    BY <1>5, <2>4 DEF ConnectReject, Return
  <2> HIDE DEF TypeOK, IInv
  <2> QED
    BY <2>1, <2>2, <2>3, <2>4
<1>6. ASSUME NEW t \in Trackers, ConnectTimeout(t)
      PROVE  ConnectRejectedByTracker'
  BY <1>6 DEF ConnectTimeout, AttemptLeft, socket, network
<1>7. ASSUME NEW t \in Trackers, ConnectGiveUp(t)
      PROVE  ConnectRejectedByTracker'
  BY <1>7 DEF ConnectGiveUp, AttemptLeft, Return, socket, network
<1>8. ASSUME NEW t \in Trackers, AnnounceSkip(t)
      PROVE  ConnectRejectedByTracker'
  BY <1>8 DEF AnnounceSkip, Return, tracker, socket, network
<1>9. ASSUME NEW t \in Trackers, NEW id \in TransIds, AnnounceSend(t, id)
      PROVE  ConnectRejectedByTracker'
  BY <1>9 DEF AnnounceSend, MayAnnounce, socket
<1>10. ASSUME NEW t \in Trackers, NEW a \in answers, AnnounceAccept(t, a)
      PROVE  ConnectRejectedByTracker'
  BY <1>10 DEF AnnounceAccept, Receivable, Matches, socket, network
<1>11. ASSUME NEW t \in Trackers, NEW a \in answers, AnnounceReject(t, a)
      PROVE  ConnectRejectedByTracker'
  BY <1>11 DEF AnnounceReject, AnnounceResult, Return, socket, network
<1>12. ASSUME NEW t \in Trackers, AnnounceTimeout(t)
      PROVE  ConnectRejectedByTracker'
  BY <1>12 DEF AnnounceTimeout, AttemptLeft, socket, network
<1>13. ASSUME NEW t \in Trackers, AnnounceGiveUp(t)
      PROVE  ConnectRejectedByTracker'
  BY <1>13 DEF AnnounceGiveUp, AttemptLeft, Return, tracker, socket, network
<1>14. ASSUME NEW t \in Trackers, PeerSession(t)
      PROVE  ConnectRejectedByTracker'
  BY <1>14 DEF PeerSession, control, tracker, socket, network
<1>15. ASSUME NEW t \in Trackers, PeerCrashes(t)
      PROVE  ConnectRejectedByTracker'
  BY <1>15 DEF PeerCrashes, control, tracker, socket, network
<1>16. ASSUME NEW t \in Trackers, AnnounceReturns(t)
      PROVE  ConnectRejectedByTracker'
  BY <1>16 DEF AnnounceReturns, Return, tracker, socket, network
<1>17. ASSUME NEW t \in Trackers, Destroy(t)
      PROVE  ConnectRejectedByTracker'
  BY <1>17 DEF Destroy, tracker, network
<1>18. ASSUME NEW r \in requests, NEW action \in {0, 1, 3}, NEW n \in 0..MaxPeers,
             TrackerAnswers(r, action, n)
      PROVE  ConnectRejectedByTracker'
  BY <1>18 DEF TrackerAnswers, control, tracker, socket
<1>19. CASE UNCHANGED vars
  BY <1>19 DEF vars, control, tracker, socket, network
<1> HIDE DEF IInv, TypeOK, ConnectRejectedByTracker, LastRequest, RequestsOf
<1> QED
  BY <1>1, <1>2, <1>3, <1>4, <1>5, <1>6, <1>7, <1>8, <1>9, <1>10, <1>11,
     <1>12, <1>13, <1>14, <1>15, <1>16, <1>17, <1>18, <1>19 DEF Next,
     ConnectStep, AnnounceStep, PeerStep, NetworkStep

(* A connect is only given up for a datagram when the tracker refused its last
   request (tracker.c:166-169): no late answer can end it.                    *)
THEOREM RejectionIsGenuine == Spec => []ConnectRejectedByTracker
<1>1. Init => ConnectRejectedByTracker
  BY DEF Init, ConnectRejectedByTracker
<1>2. IInv /\ IInv' /\ ConnectRejectedByTracker /\ [Next]_vars => ConnectRejectedByTracker'
  BY RejectedNext
<1> QED
  BY <1>1, <1>2, Inductive, PTL DEF Spec

LEMMA IssuedNext ==
  ASSUME IInv, IInv', ConnectedGenuine, AnnounceUsesIssuedId, [Next]_vars
  PROVE  AnnounceUsesIssuedId'
<1> USE DEF IInv, TypeOK, AnnounceUsesIssuedId
<1>1. ASSUME NEW t \in Trackers, NEW id \in TransIds, ConnectSend(t, id)
      PROVE  AnnounceUsesIssuedId'
  BY <1>1 DEF ConnectSend, NewDesc, OpenWith
<1>2. ASSUME NEW t \in Trackers, ConnectNoSocket(t)
      PROVE  AnnounceUsesIssuedId'
  BY <1>2 DEF ConnectNoSocket, Return, network
<1>3. ASSUME NEW t \in Trackers, ConnectExits(t)
      PROVE  AnnounceUsesIssuedId'
  BY <1>3 DEF ConnectExits, control, tracker, socket, network
<1>4. ASSUME NEW t \in Trackers, NEW a \in answers, ConnectAccept(t, a)
      PROVE  AnnounceUsesIssuedId'
  BY <1>4 DEF ConnectAccept, Return, Receivable, Matches, IssuedId, socket, network
<1>5. ASSUME NEW t \in Trackers, NEW a \in answers, ConnectReject(t, a)
      PROVE  AnnounceUsesIssuedId'
  BY <1>5 DEF ConnectReject, Return, Receivable, Matches, socket, network
<1>6. ASSUME NEW t \in Trackers, ConnectTimeout(t)
      PROVE  AnnounceUsesIssuedId'
  BY <1>6 DEF ConnectTimeout, AttemptLeft, socket, network
<1>7. ASSUME NEW t \in Trackers, ConnectGiveUp(t)
      PROVE  AnnounceUsesIssuedId'
  BY <1>7 DEF ConnectGiveUp, AttemptLeft, Return, socket, network
<1>8. ASSUME NEW t \in Trackers, AnnounceSkip(t)
      PROVE  AnnounceUsesIssuedId'
  BY <1>8 DEF AnnounceSkip, Return, tracker, socket, network
<1>9. ASSUME NEW t \in Trackers, NEW id \in TransIds, AnnounceSend(t, id)
      PROVE  AnnounceUsesIssuedId'
  <2>1. connected[t] /\ pc[t] # "destroyed"
    BY <1>9 DEF AnnounceSend, MayAnnounce
  <2>2. PICK b \in answers : /\ b.action = 0
                            /\ LastRequest(t, "connect", b.re)
                            /\ b.re.sock = sock_desc[t]
                            /\ connection_id[t] = IssuedId(b)
    BY <2>1 DEF ConnectedGenuine
  <2>3. b.re.tracker = t
    BY <2>2 DEF LastRequest, RequestsOf
  <2>4. answers' = answers
    BY <1>9 DEF AnnounceSend
  <2> DEFINE new == [tracker |-> t, kind |-> "announce", frame |-> frames[t] + 1,
                     sock |-> sock_desc[t], tid |-> id, cid |-> connection_id[t]]
  <2>5. requests' = requests \cup {new}
    BY <1>9 DEF AnnounceSend
  <2>6. new.tracker = t /\ new.sock = sock_desc[t] /\ new.cid = connection_id[t]
    OBVIOUS
  <2> HIDE DEF new, TypeOK, IInv
  <2> QED
    BY <2>2, <2>3, <2>4, <2>5, <2>6 DEF IssuedId
<1>10. ASSUME NEW t \in Trackers, NEW a \in answers, AnnounceAccept(t, a)
      PROVE  AnnounceUsesIssuedId'
  BY <1>10 DEF AnnounceAccept, Receivable, Matches, socket, network
<1>11. ASSUME NEW t \in Trackers, NEW a \in answers, AnnounceReject(t, a)
      PROVE  AnnounceUsesIssuedId'
  BY <1>11 DEF AnnounceReject, AnnounceResult, Return, socket, network
<1>12. ASSUME NEW t \in Trackers, AnnounceTimeout(t)
      PROVE  AnnounceUsesIssuedId'
  BY <1>12 DEF AnnounceTimeout, AttemptLeft, socket, network
<1>13. ASSUME NEW t \in Trackers, AnnounceGiveUp(t)
      PROVE  AnnounceUsesIssuedId'
  BY <1>13 DEF AnnounceGiveUp, AttemptLeft, Return, tracker, socket, network
<1>14. ASSUME NEW t \in Trackers, PeerSession(t)
      PROVE  AnnounceUsesIssuedId'
  BY <1>14 DEF PeerSession, control, tracker, socket, network
<1>15. ASSUME NEW t \in Trackers, PeerCrashes(t)
      PROVE  AnnounceUsesIssuedId'
  BY <1>15 DEF PeerCrashes, control, tracker, socket, network
<1>16. ASSUME NEW t \in Trackers, AnnounceReturns(t)
      PROVE  AnnounceUsesIssuedId'
  BY <1>16 DEF AnnounceReturns, Return, tracker, socket, network
<1>17. ASSUME NEW t \in Trackers, Destroy(t)
      PROVE  AnnounceUsesIssuedId'
  BY <1>17 DEF Destroy, tracker, network
<1>18. ASSUME NEW r \in requests, NEW action \in {0, 1, 3}, NEW n \in 0..MaxPeers,
             TrackerAnswers(r, action, n)
      PROVE  AnnounceUsesIssuedId'
  BY <1>18 DEF TrackerAnswers, control, tracker, socket
<1>19. CASE UNCHANGED vars
  BY <1>19 DEF vars, control, tracker, socket, network
<1> HIDE DEF IInv, TypeOK, AnnounceUsesIssuedId
<1> QED
  BY <1>1, <1>2, <1>3, <1>4, <1>5, <1>6, <1>7, <1>8, <1>9, <1>10, <1>11,
     <1>12, <1>13, <1>14, <1>15, <1>16, <1>17, <1>18, <1>19 DEF Next,
     ConnectStep, AnnounceStep, PeerStep, NetworkStep

(* Every announce sent carries an id the tracker issued on that socket. *)
THEOREM IssuedIdIsUsed == Spec => []AnnounceUsesIssuedId
<1>1. Init => AnnounceUsesIssuedId
  BY DEF Init, AnnounceUsesIssuedId
<1>2. IInv /\ IInv' /\ ConnectedGenuine /\ AnnounceUsesIssuedId /\ [Next]_vars => AnnounceUsesIssuedId'
  BY IssuedNext
<1> QED
  BY <1>1, <1>2, Inductive, ConnectionIsGenuine, PTL DEF Spec

LEMMA AnsweredNext ==
  ASSUME IInv, IInv', AnnounceAnswered, [Next]_vars
  PROVE  AnnounceAnswered'
<1> USE DEF IInv, TypeOK, AnnounceAnswered, LastRequest, RequestsOf
<1>1. ASSUME NEW t \in Trackers, NEW id \in TransIds, ConnectSend(t, id)
      PROVE  AnnounceAnswered'
  BY <1>1 DEF ConnectSend, NewDesc, OpenWith
<1>2. ASSUME NEW t \in Trackers, ConnectNoSocket(t)
      PROVE  AnnounceAnswered'
  BY <1>2 DEF ConnectNoSocket, Return, network
<1>3. ASSUME NEW t \in Trackers, ConnectExits(t)
      PROVE  AnnounceAnswered'
  BY <1>3 DEF ConnectExits, control, tracker, socket, network
<1>4. ASSUME NEW t \in Trackers, NEW a \in answers, ConnectAccept(t, a)
      PROVE  AnnounceAnswered'
  <2>1. a.re.kind = "connect" /\ UNCHANGED <<requests, answers>>
    BY <1>4 DEF ConnectAccept, Matches, AnswerInv, network
  <2>2. accepted' = [accepted EXCEPT ![t] = accepted[t] \cup {a}]
    BY <1>4 DEF ConnectAccept
  <2>3. \A b \in accepted[t] : b.re.kind # "announce"
    BY <1>4 DEF ConnectAccept, AcceptedInv
  <2>4. ASSUME NEW u \in Trackers, u # t
        PROVE  connection_id'[u] = connection_id[u] /\ accepted'[u] = accepted[u]
    BY <1>4, <2>2, <2>4 DEF ConnectAccept
  <2>5. accepted'[t] = accepted[t] \cup {a}
    BY <2>2
  <2> HIDE DEF TypeOK, IInv
  <2> QED
    BY <2>1, <2>3, <2>4, <2>5
<1>5. ASSUME NEW t \in Trackers, NEW a \in answers, ConnectReject(t, a)
      PROVE  AnnounceAnswered'
  BY <1>5 DEF ConnectReject, Return, Receivable, Matches, socket, network
<1>6. ASSUME NEW t \in Trackers, ConnectTimeout(t)
      PROVE  AnnounceAnswered'
  BY <1>6 DEF ConnectTimeout, AttemptLeft, socket, network
<1>7. ASSUME NEW t \in Trackers, ConnectGiveUp(t)
      PROVE  AnnounceAnswered'
  BY <1>7 DEF ConnectGiveUp, AttemptLeft, Return, socket, network
<1>8. ASSUME NEW t \in Trackers, AnnounceSkip(t)
      PROVE  AnnounceAnswered'
  BY <1>8 DEF AnnounceSkip, Return, tracker, socket, network
<1>9. ASSUME NEW t \in Trackers, NEW id \in TransIds, AnnounceSend(t, id)
      PROVE  AnnounceAnswered'
  <2>1. \A b \in accepted[t] : b.re.kind # "announce"
    BY <1>9 DEF AnnounceSend, MayAnnounce, AcceptedInv
  <2>2. UNCHANGED <<accepted, answers, connection_id>>
    BY <1>9 DEF AnnounceSend
  <2>3. /\ requests \subseteq requests'
        /\ \A u \in Trackers : u # t => RequestsOf(u, "announce")' = RequestsOf(u, "announce")
    BY <1>9 DEF AnnounceSend
  <2> HIDE DEF TypeOK, IInv, RequestsOf
  <2> QED
    BY <2>1, <2>2, <2>3
<1>10. ASSUME NEW t \in Trackers, NEW a \in answers, AnnounceAccept(t, a)
      PROVE  AnnounceAnswered'
  <2>1. /\ a \in answers /\ a.action = 1
        /\ a.re.cid = connection_id[t]
        /\ \E r \in requests : LastRequest(t, "announce", r) /\ r.tid = a.re.tid
    BY <1>10, AnswerToAnnounce DEF AnnounceAccept
  <2>2. UNCHANGED <<requests, answers, connection_id>>
    BY <1>10 DEF AnnounceAccept, network
  <2>3. accepted' = [accepted EXCEPT ![t] = accepted[t] \cup {a}]
    BY <1>10 DEF AnnounceAccept
  <2>4. /\ accepted'[t] = accepted[t] \cup {a}
        /\ \A u \in Trackers : u # t => accepted'[u] = accepted[u]
    BY <2>3
  <2> HIDE DEF TypeOK, IInv
  <2> QED
    BY <2>1, <2>2, <2>4
<1>11. ASSUME NEW t \in Trackers, NEW a \in answers, AnnounceReject(t, a)
      PROVE  AnnounceAnswered'
  BY <1>11 DEF AnnounceReject, AnnounceResult, Return, socket, network
<1>12. ASSUME NEW t \in Trackers, AnnounceTimeout(t)
      PROVE  AnnounceAnswered'
  BY <1>12 DEF AnnounceTimeout, AttemptLeft, socket, network
<1>13. ASSUME NEW t \in Trackers, AnnounceGiveUp(t)
      PROVE  AnnounceAnswered'
  BY <1>13 DEF AnnounceGiveUp, AttemptLeft, Return, tracker, socket, network
<1>14. ASSUME NEW t \in Trackers, PeerSession(t)
      PROVE  AnnounceAnswered'
  BY <1>14 DEF PeerSession, control, tracker, socket, network
<1>15. ASSUME NEW t \in Trackers, PeerCrashes(t)
      PROVE  AnnounceAnswered'
  BY <1>15 DEF PeerCrashes, control, tracker, socket, network
<1>16. ASSUME NEW t \in Trackers, AnnounceReturns(t)
      PROVE  AnnounceAnswered'
  BY <1>16 DEF AnnounceReturns, Return, tracker, socket, network
<1>17. ASSUME NEW t \in Trackers, Destroy(t)
      PROVE  AnnounceAnswered'
  BY <1>17 DEF Destroy, tracker, network
<1>18. ASSUME NEW r \in requests, NEW action \in {0, 1, 3}, NEW n \in 0..MaxPeers,
             TrackerAnswers(r, action, n)
      PROVE  AnnounceAnswered'
  BY <1>18 DEF TrackerAnswers, control, tracker, socket
<1>19. CASE UNCHANGED vars
  BY <1>19 DEF vars, control, tracker, socket, network
<1> HIDE DEF IInv, TypeOK, AnnounceAnswered, LastRequest, RequestsOf
<1> QED
  BY <1>1, <1>2, <1>3, <1>4, <1>5, <1>6, <1>7, <1>8, <1>9, <1>10, <1>11,
     <1>12, <1>13, <1>14, <1>15, <1>16, <1>17, <1>18, <1>19 DEF Next,
     ConnectStep, AnnounceStep, PeerStep, NetworkStep

(* Every announce answer the client believes was served under the id it holds
   and echoes the transaction id of its last announce (tracker.c:241).        *)
THEOREM AnswerIsToAnnounce == Spec => []AnnounceAnswered
<1>1. Init => AnnounceAnswered
  BY DEF Init, AnnounceAnswered
<1>2. IInv /\ IInv' /\ AnnounceAnswered /\ [Next]_vars => AnnounceAnswered'
  BY AnsweredNext
<1> QED
  BY <1>1, <1>2, Inductive, PTL DEF Spec

LEMMA GivesUpNext ==
  ASSUME IInv, IInv', GivesUpAfterBudget, [Next]_vars
  PROVE  GivesUpAfterBudget'
<1> USE DEF IInv, TypeOK, GivesUpAfterBudget, Phase, RequestsOf
<1>1. ASSUME NEW t \in Trackers, NEW id \in TransIds, ConnectSend(t, id)
      PROVE  GivesUpAfterBudget'
  BY <1>1 DEF ConnectSend, NewDesc, OpenWith
<1>2. ASSUME NEW t \in Trackers, ConnectNoSocket(t)
      PROVE  GivesUpAfterBudget'
  BY <1>2 DEF ConnectNoSocket, Return, network
<1>3. ASSUME NEW t \in Trackers, ConnectExits(t)
      PROVE  GivesUpAfterBudget'
  BY <1>3 DEF ConnectExits, control, tracker, socket, network
<1>4. ASSUME NEW t \in Trackers, NEW a \in answers, ConnectAccept(t, a)
      PROVE  GivesUpAfterBudget'
  BY <1>4 DEF ConnectAccept, Return, Receivable, Matches, IssuedId, socket, network
<1>5. ASSUME NEW t \in Trackers, NEW a \in answers, ConnectReject(t, a)
      PROVE  GivesUpAfterBudget'
  BY <1>5 DEF ConnectReject, Return, Receivable, Matches, socket, network
<1>6. ASSUME NEW t \in Trackers, ConnectTimeout(t)
      PROVE  GivesUpAfterBudget'
  BY <1>6 DEF ConnectTimeout, AttemptLeft, socket, network
<1>7. ASSUME NEW t \in Trackers, ConnectGiveUp(t)
      PROVE  GivesUpAfterBudget'
  <2>1. \E r \in RequestsOf(t, "connect") : r.frame = MaxAttempts + 1
    BY <1>7, BudgetSpent DEF ConnectGiveUp, TimesOut
  <2>2. UNCHANGED requests
    BY <1>7 DEF ConnectGiveUp, network
  <2>3. pc' = [pc EXCEPT ![t] = "idle"] /\ outcome' = [outcome EXCEPT ![t] = "timed_out"]
    BY <1>7 DEF ConnectGiveUp, Return
  <2>4. /\ pc'[t] = "idle"
        /\ \A u \in Trackers : u # t => pc'[u] = pc[u] /\ outcome'[u] = outcome[u]
    BY <2>3
  <2> HIDE DEF TypeOK, IInv
  <2> QED
    BY <2>1, <2>2, <2>4
<1>8. ASSUME NEW t \in Trackers, AnnounceSkip(t)
      PROVE  GivesUpAfterBudget'
  BY <1>8 DEF AnnounceSkip, Return, tracker, socket, network
<1>9. ASSUME NEW t \in Trackers, NEW id \in TransIds, AnnounceSend(t, id)
      PROVE  GivesUpAfterBudget'
  BY <1>9 DEF AnnounceSend, MayAnnounce, socket
<1>10. ASSUME NEW t \in Trackers, NEW a \in answers, AnnounceAccept(t, a)
      PROVE  GivesUpAfterBudget'
  BY <1>10 DEF AnnounceAccept, Receivable, Matches, socket, network
<1>11. ASSUME NEW t \in Trackers, NEW a \in answers, AnnounceReject(t, a)
      PROVE  GivesUpAfterBudget'
  BY <1>11 DEF AnnounceReject, AnnounceResult, Return, socket, network
<1>12. ASSUME NEW t \in Trackers, AnnounceTimeout(t)
      PROVE  GivesUpAfterBudget'
  BY <1>12 DEF AnnounceTimeout, AttemptLeft, socket, network
<1>13. ASSUME NEW t \in Trackers, AnnounceGiveUp(t)
      PROVE  GivesUpAfterBudget'
  <2>1. \E r \in RequestsOf(t, "announce") : r.frame = MaxAttempts + 1
    BY <1>13, BudgetSpent DEF AnnounceGiveUp, TimesOut
  <2>2. UNCHANGED requests
    BY <1>13 DEF AnnounceGiveUp, network
  <2>3. pc' = [pc EXCEPT ![t] = "done"] /\ outcome' = [outcome EXCEPT ![t] = "timed_out"]
    BY <1>13 DEF AnnounceGiveUp, Return
  <2>4. /\ pc'[t] = "done"
        /\ \A u \in Trackers : u # t => pc'[u] = pc[u] /\ outcome'[u] = outcome[u]
    BY <2>3
  <2> HIDE DEF TypeOK, IInv
  <2> QED
    BY <2>1, <2>2, <2>4
<1>14. ASSUME NEW t \in Trackers, PeerSession(t)
      PROVE  GivesUpAfterBudget'
  BY <1>14 DEF PeerSession, control, tracker, socket, network
<1>15. ASSUME NEW t \in Trackers, PeerCrashes(t)
      PROVE  GivesUpAfterBudget'
  BY <1>15 DEF PeerCrashes, control, tracker, socket, network
<1>16. ASSUME NEW t \in Trackers, AnnounceReturns(t)
      PROVE  GivesUpAfterBudget'
  BY <1>16 DEF AnnounceReturns, Return, tracker, socket, network
<1>17. ASSUME NEW t \in Trackers, Destroy(t)
      PROVE  GivesUpAfterBudget'
  BY <1>17 DEF Destroy, tracker, network
<1>18. ASSUME NEW r \in requests, NEW action \in {0, 1, 3}, NEW n \in 0..MaxPeers,
             TrackerAnswers(r, action, n)
      PROVE  GivesUpAfterBudget'
  BY <1>18 DEF TrackerAnswers, control, tracker, socket
<1>19. CASE UNCHANGED vars
  BY <1>19 DEF vars, control, tracker, socket, network
<1> HIDE DEF IInv, TypeOK, GivesUpAfterBudget, Phase, RequestsOf
<1> QED
  BY <1>1, <1>2, <1>3, <1>4, <1>5, <1>6, <1>7, <1>8, <1>9, <1>10, <1>11,
     <1>12, <1>13, <1>14, <1>15, <1>16, <1>17, <1>18, <1>19 DEF Next,
     ConnectStep, AnnounceStep, PeerStep, NetworkStep

(* No exchange ends by timeout before all its requests were sent. *)
THEOREM GivesUpLate == Spec => []GivesUpAfterBudget
<1>1. Init => GivesUpAfterBudget
  BY DEF Init, GivesUpAfterBudget
<1>2. IInv /\ IInv' /\ GivesUpAfterBudget /\ [Next]_vars => GivesUpAfterBudget'
  BY GivesUpNext
<1> QED
  BY <1>1, <1>2, Inductive, PTL DEF Spec

-----------------------------------------------------------------------------
(* The torrent *)

(* No tracker is on the list twice, and while main connects it has counted only
   trackers it has left behind.                                                 *)
LoopInv ==
  /\ TorrentTypeOK
  /\ \A i, j \in DOMAIN trackers : trackers[i] = trackers[j] => i = j
  /\ phase = "parse" => connected_trackers = 0
  /\ phase = "connect" => connected_trackers < curr

LEMMA LinksAreLists ==
  ASSUME NEW s \in Links
  PROVE  /\ s \in Seq(Trackers)
         /\ \A i, j \in DOMAIN s : s[i] = s[j] => i = j
<1>1. s \in {t \in Seq(Trackers) :
              \A i, j \in DOMAIN t : t[i] = t[j] => i = j}
  BY LinksAssumption, Zenon
<1> QED
  BY <1>1, Zenon

(* What has been parsed when the map is full is the beginning of such a list. *)
LEMMA PrefixesAreLists ==
  ASSUME NEW s \in Links, NEW n \in 0..Len(s)
  PROVE  /\ SubSeq(s, 1, n) \in Seq(Trackers)
         /\ Len(SubSeq(s, 1, n)) = n
         /\ \A i, j \in DOMAIN SubSeq(s, 1, n) :
              SubSeq(s, 1, n)[i] = SubSeq(s, 1, n)[j] => i = j
<1>1. s \in Seq(Trackers) /\ \A i, j \in DOMAIN s : s[i] = s[j] => i = j
  BY LinksAreLists
<1>2. Len(SubSeq(s, 1, n)) = n /\ \A i \in 1..n : SubSeq(s, 1, n)[i] = s[i]
  BY <1>1
<1>3. DOMAIN SubSeq(s, 1, n) = 1..n /\ 1..n \subseteq DOMAIN s
  BY <1>1, <1>2
<1> QED
  BY <1>1, <1>2, <1>3

LEMMA LoopInvInit == TorrentInit => LoopInv
<1> SUFFICES ASSUME TorrentInit
             PROVE  LoopInv
  OBVIOUS
<1>1. trackers = <<>> /\ Len(trackers) = 0 /\ DOMAIN trackers = {}
  BY DEF TorrentInit
<1> QED
  BY <1>1 DEF TorrentInit, LoopInv, TorrentTypeOK, Phases

(* What the counted trackers, the position and the phase become. *)
LEMMA LoopInvMain ==
  ASSUME LoopInv, MainStep
  PROVE  LoopInv'
<1> USE DEF LoopInv, TorrentTypeOK, Phases, AtEnd, Enter
<1>1. ASSUME NEW link \in Links, Parse(link)
      PROVE  LoopInv'
  <2>1. Len(link) \in Nat
    BY LinksAreLists
  <2> QED
    BY <1>1, <2>1, LinksAreLists DEF Parse
<1>r. ASSUME NEW link \in Links, ParseRefused(link)
      PROVE  LoopInv'
  <2>1. PICK n \in 0..Len(link) : trackers' = SubSeq(link, 1, n)
    BY <1>r DEF ParseRefused
  <2>2. /\ connected_trackers' = 0 /\ phase' = "destroy" /\ curr' = 1
        /\ success' = success
    BY <1>r DEF ParseRefused
  <2> QED
    BY <2>1, <2>2, PrefixesAreLists
<1>2. Len(trackers) \in Nat
  OBVIOUS
<1>3. CASE InConnect
  BY <1>3 DEF InConnect, torrent
<1>4. CASE ConnectNext
  <2>1. Counts(trackers[curr]) \in {0, 1}
    BY DEF Counts
  <2> QED
    BY <1>2, <1>4, <2>1 DEF ConnectNext
<1>5. CASE ConnectReturns
  BY <1>2, <1>5 DEF ConnectReturns
<1>6. CASE InAnnounce
  BY <1>6 DEF InAnnounce, torrent
<1>7. CASE AnnounceNext
  BY <1>2, <1>7 DEF AnnounceNext
<1>8. CASE TorrentAnnounceReturns
  BY <1>2, <1>8 DEF TorrentAnnounceReturns
<1>9. CASE TorrentDestroy
  BY <1>2, <1>9 DEF TorrentDestroy
<1>10. CASE Exit
  BY <1>2, <1>10 DEF Exit
<1> QED
  BY <1>1, <1>r, <1>3, <1>4, <1>5, <1>6, <1>7, <1>8, <1>9, <1>10 DEF MainStep

LEMMA LoopInvNext == LoopInv /\ [TorrentNext]_allvars => LoopInv'
<1> SUFFICES ASSUME LoopInv, [TorrentNext]_allvars
             PROVE  LoopInv'
  OBVIOUS
<1> USE DEF LoopInv, TorrentTypeOK, Phases
<1>1. CASE MainStep
  BY <1>1, LoopInvMain
<1>2. CASE ParseFails
  BY <1>2 DEF ParseFails
<1>3. CASE UNCHANGED torrent
  BY <1>3 DEF torrent
<1> QED
  BY <1>1, <1>2, <1>3 DEF TorrentNext, InPeer, Network, allvars

LEMMA LoopInvInvariant == TorrentSpec => []LoopInv
  BY LoopInvInit, LoopInvNext, PTL DEF TorrentSpec

(* The three loops of torrent.c stay on the list they walk, and never count
   more trackers than it has (torrent.c:81-87, 252-259, 275-281).           *)
THEOREM TorrentTypeCorrect == TorrentSpec => []TorrentTypeOK
<1>1. LoopInv => TorrentTypeOK
  BY DEF LoopInv
<1> QED
  BY <1>1, LoopInvInvariant, PTL

-----------------------------------------------------------------------------
(* A step of the client is a step of one of the trackers, of the network, or
   leaves all of them as they are.                                           *)
LEMMA StepDrives ==
  ASSUME LoopInv, [TorrentNext]_allvars
  PROVE  [Next]_vars
<1>1. ~AtEnd => trackers[curr] \in Trackers
  BY DEF LoopInv, TorrentTypeOK, AtEnd
<1>2. CASE InConnect
  BY <1>1, <1>2 DEF InConnect, Next
<1>3. CASE InAnnounce
  BY <1>1, <1>3 DEF InAnnounce, Next
<1>4. CASE InPeer
  BY <1>1, <1>4 DEF InPeer, Next
<1>5. CASE TorrentDestroy
  BY <1>1, <1>5 DEF TorrentDestroy, DestroysTracker, Next
<1>6. CASE Network
  BY <1>6 DEF Network, Next
<1>7. CASE \/ \E link \in Links : Parse(link) \/ ParseRefused(link)
           \/ ParseFails \/ ConnectNext \/ ConnectReturns \/ AnnounceNext
           \/ TorrentAnnounceReturns \/ Exit \/ UNCHANGED allvars
  BY <1>7 DEF Parse, ParseRefused, ParseFails, ConnectNext, ConnectReturns, AnnounceNext,
              TorrentAnnounceReturns, Exit, allvars
<1> QED
  BY <1>2, <1>3, <1>4, <1>5, <1>6, <1>7 DEF TorrentNext, MainStep

(* So the invariants of the trackers hold while torrent.c drives them. *)
LEMMA TrackerInvariant == TorrentSpec => []IInv
<1>1. TorrentInit => Init
  BY DEF TorrentInit
<1>2. LoopInv /\ [TorrentNext]_allvars => [Next]_vars
  BY StepDrives
<1>3. TorrentSpec => Spec
  BY <1>1, <1>2, LoopInvInvariant, PTL DEF TorrentSpec, Spec
<1> QED
  BY <1>3, Inductive, PTL

-----------------------------------------------------------------------------
(* What a tracker keeps of the answers it took: they came in on the socket that
   is still in use, and a connect that returned has its result in connected.   *)
HeldInv ==
  \A u \in Trackers :
    /\ pc[u] \in {"created", "connect_wait", "connect_retry"} => accepted[u] = {}
    /\ \A a \in accepted[u] :
         IF pc[u] = "destroyed" THEN a.re.sock \notin open[u]
         ELSE a.re.sock = sock_desc[u]
    /\ pc[u] = "idle" => (result[u] = "EXIT_SUCCESS" <=> connected[u])

LEMMA HeldNext ==
  ASSUME IInv, IInv', HeldInv, [Next]_vars
  PROVE  HeldInv'
<1> USE DEF IInv, TypeOK, CounterInv, HeldInv
<1>1. ASSUME NEW t \in Trackers, NEW id \in TransIds, ConnectSend(t, id)
      PROVE  HeldInv'
  BY <1>1 DEF ConnectSend
<1>2. ASSUME NEW t \in Trackers, ConnectNoSocket(t)
      PROVE  HeldInv'
  BY <1>2 DEF ConnectNoSocket, Return
<1>3. ASSUME NEW t \in Trackers, ConnectExits(t)
      PROVE  HeldInv'
  BY <1>3 DEF ConnectExits, control, tracker, socket
<1>4. ASSUME NEW t \in Trackers, NEW a \in answers, ConnectAccept(t, a)
      PROVE  HeldInv'
  BY <1>4 DEF ConnectAccept, Return, Receivable, socket
<1>5. ASSUME NEW t \in Trackers, NEW a \in answers, ConnectReject(t, a)
      PROVE  HeldInv'
  BY <1>5 DEF ConnectReject, Return, socket
<1>6. ASSUME NEW t \in Trackers, ConnectTimeout(t)
      PROVE  HeldInv'
  BY <1>6 DEF ConnectTimeout, socket
<1>7. ASSUME NEW t \in Trackers, ConnectGiveUp(t)
      PROVE  HeldInv'
  BY <1>7 DEF ConnectGiveUp, Return, socket
<1>8. ASSUME NEW t \in Trackers, AnnounceSkip(t)
      PROVE  HeldInv'
  BY <1>8 DEF AnnounceSkip, Return, tracker, socket
<1>9. ASSUME NEW t \in Trackers, NEW id \in TransIds, AnnounceSend(t, id)
      PROVE  HeldInv'
  BY <1>9 DEF AnnounceSend, MayAnnounce, socket
<1>10. ASSUME NEW t \in Trackers, NEW a \in answers, AnnounceAccept(t, a)
      PROVE  HeldInv'
  BY <1>10 DEF AnnounceAccept, Receivable, socket
<1>11. ASSUME NEW t \in Trackers, NEW a \in answers, AnnounceReject(t, a)
      PROVE  HeldInv'
  BY <1>11 DEF AnnounceReject, AnnounceResult, Return, socket
<1>12. ASSUME NEW t \in Trackers, AnnounceTimeout(t)
      PROVE  HeldInv'
  BY <1>12 DEF AnnounceTimeout, socket
<1>13. ASSUME NEW t \in Trackers, AnnounceGiveUp(t)
      PROVE  HeldInv'
  BY <1>13 DEF AnnounceGiveUp, Return, tracker, socket
<1>14. ASSUME NEW t \in Trackers, PeerSession(t)
      PROVE  HeldInv'
  BY <1>14 DEF PeerSession, control, tracker, socket
<1>15. ASSUME NEW t \in Trackers, PeerCrashes(t)
      PROVE  HeldInv'
  BY <1>15 DEF PeerCrashes, control, tracker, socket
<1>16. ASSUME NEW t \in Trackers, AnnounceReturns(t)
      PROVE  HeldInv'
  BY <1>16 DEF AnnounceReturns, Return, tracker, socket
<1>17. ASSUME NEW t \in Trackers, Destroy(t)
      PROVE  HeldInv'
  BY <1>17 DEF Destroy, tracker
<1>18. CASE NetworkStep \/ UNCHANGED vars
  BY <1>18 DEF NetworkStep, TrackerAnswers, vars, control, tracker, socket
<1> HIDE DEF IInv, TypeOK, CounterInv, HeldInv
<1> QED
  BY <1>1, <1>2, <1>3, <1>4, <1>5, <1>6, <1>7, <1>8, <1>9, <1>10, <1>11, <1>12,
     <1>13, <1>14, <1>15, <1>16, <1>17, <1>18
  DEF Next, ConnectStep, AnnounceStep, PeerStep

-----------------------------------------------------------------------------
(* Where the trackers of the list stand, in front of the loop's position, at it
   and behind it.                                                              *)
Connecting == {"created", "connect_wait", "connect_retry", "idle"}
Announcing == {"idle", "announce_wait", "announce_retry", "peers", "done"}

TourInv ==
  /\ phase \in {"parse", "crash"} =>
       requests = {} /\ \A t \in Trackers : pc[t] = "created" /\ ~connected[t]
  /\ phase = "connect" =>
       /\ \A r \in requests : r.kind = "connect"
       /\ \A i \in DOMAIN trackers :
            /\ i < curr => pc[trackers[i]] = "idle"
            /\ i = curr => pc[trackers[i]] \in Connecting
            /\ i > curr => pc[trackers[i]] = "created"
  /\ phase = "announce" =>
       \A i \in DOMAIN trackers :
         /\ i < curr => pc[trackers[i]] = "done"
         /\ i = curr => pc[trackers[i]] \in Announcing
         /\ i > curr => pc[trackers[i]] = "idle"
  /\ phase = "destroy" =>
       \A i \in DOMAIN trackers :
         /\ i < curr => pc[trackers[i]] = "destroyed"
         /\ i >= curr => /\ pc[trackers[i]] \in {"created", "idle", "done"}
                         /\ requests # {} => pc[trackers[i]] # "created"
  /\ phase = "exit" => \A i \in DOMAIN trackers : pc[trackers[i]] = "destroyed"

LEMMA ListOfTrackers ==
  ASSUME LoopInv
  PROVE  /\ Len(trackers) \in Nat /\ curr \in Nat
         /\ DOMAIN trackers = 1..Len(trackers)
         /\ \A i \in DOMAIN trackers : trackers[i] \in Trackers
         /\ \A i, j \in DOMAIN trackers : trackers[i] = trackers[j] => i = j
  BY DEF LoopInv, TorrentTypeOK

(* What a step inside one tracker's call leaves alone. *)
LEMMA ConnectStepEffect ==
  ASSUME IInv, NEW t \in Trackers, ConnectStep(t)
  PROVE  /\ pc[t] # "idle"
         /\ pc'[t] \in Connecting
         /\ \A u \in Trackers \ {t} : pc'[u] = pc[u] /\ connected'[u] = connected[u]
         /\ \A r \in requests' : r \in requests \/ r.kind = "connect"
  BY DEF ConnectStep, ConnectSend, ConnectNoSocket, ConnectExits, ConnectAccept,
         ConnectReject, ConnectTimeout, ConnectGiveUp, Return, Connecting, IInv, TypeOK,
         PcValues, control, tracker, socket, network, TimesOut, Waiting

LEMMA AnnounceStepEffect ==
  ASSUME IInv, NEW t \in Trackers, AnnounceStep(t)
  PROVE  /\ pc'[t] \in Announcing
         /\ \A u \in Trackers \ {t} : pc'[u] = pc[u]
         /\ UNCHANGED connected
  BY DEF AnnounceStep, AnnounceSkip, AnnounceSend, AnnounceAccept, AnnounceReject,
         AnnounceTimeout, AnnounceGiveUp, AnnounceReturns, Return, Announcing, IInv, TypeOK,
         PcValues, control, tracker, socket, network

LEMMA OtherStepEffect ==
  ASSUME IInv
  PROVE  /\ \A t \in Trackers : PeerStep(t) => UNCHANGED <<pc, connected, requests>>
         /\ NetworkStep => UNCHANGED <<pc, connected, requests>>
         /\ UNCHANGED vars => UNCHANGED <<pc, connected, requests>>
         /\ \A t \in Trackers : Destroy(t) =>
              /\ pc'[t] = "destroyed" /\ UNCHANGED requests
              /\ \A u \in Trackers \ {t} : pc'[u] = pc[u]
  BY DEF PeerStep, PeerSession, PeerCrashes, NetworkStep, TrackerAnswers, Destroy, vars,
         control, tracker, socket, network, IInv, TypeOK

LEMMA TourInit == TorrentInit => TourInv
  BY DEF TorrentInit, Init, TourInv

LEMMA TourNext ==
  ASSUME IInv, LoopInv, LoopInv', TourInv, [TorrentNext]_allvars
  PROVE  TourInv'
<1> USE ListOfTrackers DEF TourInv, AtEnd
<1>1. ASSUME NEW link \in Links, Parse(link)
      PROVE  TourInv'
  <2>1. DOMAIN link = 1..Len(link) /\ \A i \in DOMAIN link : link[i] \in Trackers
    BY LinksAreLists
  <2>2. /\ requests = {} /\ \A t \in Trackers : pc[t] = "created"
        /\ UNCHANGED <<pc, requests>>
    BY <1>1, OtherStepEffect DEF Parse
  <2>3. phase' = "connect" /\ trackers' = link /\ curr' = 1
    BY <1>1 DEF Parse, Enter
  <2> QED
    BY <2>1, <2>2, <2>3 DEF Connecting
<1>r. ASSUME NEW link \in Links, ParseRefused(link)
      PROVE  TourInv'
  <2>1. \A i \in DOMAIN trackers' : i \in Nat /\ i >= 1 /\ trackers'[i] \in Trackers
    BY DEF LoopInv, TorrentTypeOK
  <2>2. requests = {} /\ (\A t \in Trackers : pc[t] = "created")
        /\ UNCHANGED <<pc, requests>>
    BY <1>r, OtherStepEffect DEF ParseRefused
  <2>3. phase' = "destroy" /\ curr' = 1
    BY <1>r DEF ParseRefused, Enter
  <2> QED
    BY <2>1, <2>2, <2>3
<1>2. CASE InConnect
  <2> DEFINE t == trackers[curr]
  <2>1. curr \in DOMAIN trackers /\ t \in Trackers
    BY <1>2 DEF InConnect, LoopInv, TorrentTypeOK
  <2>2. UNCHANGED torrent /\ phase = "connect" /\ ConnectStep(t)
    BY <1>2 DEF InConnect
  <2>3. \A r \in requests' : r.kind = "connect"
    BY <2>1, <2>2, ConnectStepEffect
  <2>4. \A i \in DOMAIN trackers : i # curr => pc'[trackers[i]] = pc[trackers[i]]
    BY <2>1, <2>2, ConnectStepEffect
  <2>5. pc'[t] \in Connecting
    BY <2>1, <2>2, ConnectStepEffect
  <2> QED
    BY <2>2, <2>3, <2>4, <2>5 DEF torrent
<1>3. CASE ConnectNext
  BY <1>3, OtherStepEffect DEF ConnectNext, Connecting
<1>4. CASE ConnectReturns
  BY <1>4, OtherStepEffect DEF ConnectReturns, Enter, Announcing, LoopInv, TorrentTypeOK
<1>5. CASE InAnnounce
  <2> DEFINE t == trackers[curr]
  <2>1. curr \in DOMAIN trackers /\ t \in Trackers
    BY <1>5 DEF InAnnounce, LoopInv, TorrentTypeOK
  <2>2. UNCHANGED torrent /\ phase = "announce" /\ AnnounceStep(t)
    BY <1>5 DEF InAnnounce
  <2>3. \A i \in DOMAIN trackers : i # curr => pc'[trackers[i]] = pc[trackers[i]]
    BY <2>1, <2>2, AnnounceStepEffect
  <2>4. pc'[t] \in Announcing
    BY <2>1, <2>2, AnnounceStepEffect
  <2> QED
    BY <2>2, <2>3, <2>4 DEF torrent
<1>6. CASE AnnounceNext
  BY <1>6, OtherStepEffect DEF AnnounceNext, Announcing
<1>7. CASE TorrentAnnounceReturns
  BY <1>7, OtherStepEffect DEF TorrentAnnounceReturns, Enter, LoopInv, TorrentTypeOK
<1>8. CASE TorrentDestroy
  <2> DEFINE t == trackers[curr]
  <2>1. curr \in DOMAIN trackers /\ t \in Trackers
    BY <1>8 DEF TorrentDestroy, LoopInv, TorrentTypeOK
  <2>2. /\ Destroy(t) /\ phase = "destroy" /\ phase' = "destroy"
        /\ curr' = curr + 1 /\ UNCHANGED trackers
    BY <1>8 DEF TorrentDestroy, DestroysTracker
  <2>3. \A i \in DOMAIN trackers : i # curr => pc'[trackers[i]] = pc[trackers[i]]
    BY <2>1, <2>2, OtherStepEffect
  <2>4. pc'[t] = "destroyed" /\ UNCHANGED requests
    BY <2>1, <2>2, OtherStepEffect
  <2> QED
    BY <2>2, <2>3, <2>4
<1>9. CASE Exit
  BY <1>9, OtherStepEffect DEF Exit, LoopInv, TorrentTypeOK
<1>10. CASE ParseFails
  BY <1>10, OtherStepEffect DEF ParseFails
<1>11. CASE InPeer
  <2>1. trackers[curr] \in Trackers
    BY <1>11 DEF InPeer, LoopInv, TorrentTypeOK
  <2> QED
    BY <1>11, <2>1, OtherStepEffect DEF InPeer, torrent
<1>12. CASE Network \/ UNCHANGED allvars
  BY <1>12, OtherStepEffect DEF Network, torrent, allvars
<1> HIDE DEF TourInv
<1> QED
  BY <1>1, <1>r, <1>2, <1>3, <1>4, <1>5, <1>6, <1>7, <1>8, <1>9, <1>10, <1>11, <1>12
  DEF TorrentNext, MainStep

LEMMA TourInvariant == TorrentSpec => [](IInv /\ LoopInv /\ TourInv /\ HeldInv)
<1>1. TorrentInit => TourInv /\ HeldInv
  BY TourInit DEF TorrentInit, Init, HeldInv
<1>2. /\ IInv /\ IInv' /\ LoopInv /\ LoopInv' /\ TourInv /\ HeldInv
      /\ [TorrentNext]_allvars
      => TourInv' /\ HeldInv'
  BY TourNext, HeldNext, StepDrives
<1> QED
  BY <1>1, <1>2, LoopInvInvariant, TrackerInvariant, PTL DEF TorrentSpec

-----------------------------------------------------------------------------
(* However many trackers a magnet link names, none is announced to before the
   connect of each of them has returned (uvgTorrent.c:28-34).                 *)
THEOREM ConnectsComeFirst == TorrentSpec => []AnnounceAfterConnects
<1>1. IInv /\ LoopInv /\ TourInv => AnnounceAfterConnects
  <2> SUFFICES ASSUME IInv, LoopInv, TourInv,
                      NEW r \in requests, r.kind = "announce",
                      NEW i \in DOMAIN trackers
               PROVE  pc[trackers[i]] \notin {"created", "connect_wait", "connect_retry"}
    BY DEF AnnounceAfterConnects, Listed
  <2>1. phase \in {"announce", "destroy", "exit"}
    BY DEF TourInv, LoopInv, TorrentTypeOK, Phases
  <2> QED
    BY <2>1, ListOfTrackers DEF TourInv, Announcing
<1> QED
  BY <1>1, TourInvariant, PTL

(* When main ends by itself, every tracker of the list has been destroyed and
   each descriptor on which an answer was taken is closed (torrent.c:81-87).   *)
THEOREM ConnectionsReleased == TorrentSpec => []ExitReleasesConnections
<1>1. LoopInv /\ TourInv /\ HeldInv => ExitReleasesConnections
  BY ListOfTrackers DEF TourInv, HeldInv, ExitReleasesConnections, Listed
<1> QED
  BY <1>1, TourInvariant, PTL

-----------------------------------------------------------------------------
(* The positions whose trackers connected_trackers has counted. *)
Counted ==
  {i \in DOMAIN trackers : (phase = "connect" => i < curr) /\ connected[trackers[i]]}

LEMMA CountNext ==
  ASSUME IInv, LoopInv, LoopInv', TourInv, TourInv', HeldInv, CountsConnected,
         [TorrentNext]_allvars
  PROVE  CountsConnected'
<1> USE ListOfTrackers
<1> DEFINE Now == phase \in {"connect", "announce"}
<1>0. CountsConnected <=> (Now => connected_trackers = Cardinality(Counted))
  BY DEF CountsConnected, Counted
<1>1. CountsConnected' <=> (Now' => connected_trackers' = Cardinality(Counted'))
  BY DEF CountsConnected, Counted
<1>2. ASSUME Now => UNCHANGED connected_trackers /\ Counted' = Counted, Now' => Now
      PROVE  CountsConnected'
  BY <1>0, <1>1, <1>2
<1>3. ASSUME NEW link \in Links, Parse(link)
      PROVE  CountsConnected'
  <2>1. phase' = "connect" /\ trackers' = link /\ curr' = 1 /\ connected_trackers' = 0
    BY <1>3 DEF Parse, Enter
  <2>2. \A i \in DOMAIN trackers' : ~ (i < 1)
    BY <2>1, LinksAreLists
  <2>3. Counted' = {}
    BY <2>1, <2>2 DEF Counted
  <2> QED
    BY <1>1, <2>1, <2>3, FS_EmptySet
<1>r. ASSUME NEW link \in Links, ParseRefused(link)
      PROVE  CountsConnected'
  BY <1>1, <1>r DEF ParseRefused, Enter
<1>4. CASE InConnect
  <2>1. curr \in DOMAIN trackers /\ trackers[curr] \in Trackers
    BY <1>4 DEF InConnect, LoopInv, TorrentTypeOK, AtEnd
  <2>2. UNCHANGED torrent /\ phase = "connect" /\ ConnectStep(trackers[curr])
    BY <1>4 DEF InConnect
  <2>3. \A i \in DOMAIN trackers :
          i # curr => connected'[trackers[i]] = connected[trackers[i]]
    BY <2>1, <2>2, ConnectStepEffect
  <2>4. Counted' = Counted
    BY <2>2, <2>3 DEF Counted, torrent
  <2> QED
    BY <1>2, <2>2, <2>4 DEF torrent
<1>5. CASE ConnectNext
  <2> DEFINE t == trackers[curr]
  <2>1. curr \in DOMAIN trackers /\ t \in Trackers
    BY <1>5 DEF ConnectNext, LoopInv, TorrentTypeOK, AtEnd
  <2>2. /\ phase = "connect" /\ phase' = "connect" /\ UNCHANGED <<trackers, connected>>
        /\ curr' = curr + 1 /\ pc[t] = "idle"
        /\ connected_trackers' = connected_trackers + Counts(t)
    BY <1>5, OtherStepEffect DEF ConnectNext
  <2>3. Counts(t) = IF connected[t] THEN 1 ELSE 0
    BY <2>1, <2>2 DEF HeldInv, Counts, Status
  <2>4. IsFiniteSet(Counted) /\ curr \notin Counted
    <3>1. IsFiniteSet(1..Len(trackers))
      BY FS_Interval
    <3> QED
      BY <2>2, <3>1, FS_Subset DEF Counted
  <2>5. Counted' = IF connected[t] THEN Counted \cup {curr} ELSE Counted
    BY <2>1, <2>2 DEF Counted
  <2>6. connected_trackers = Cardinality(Counted) /\ Cardinality(Counted) \in Nat
    BY <1>0, <2>2, <2>4, FS_CardinalityType
  <2>7. CASE connected[t]
    BY <1>1, <2>2, <2>3, <2>4, <2>5, <2>6, <2>7, FS_AddElement
  <2>8. CASE ~connected[t]
    BY <1>1, <2>2, <2>3, <2>5, <2>6, <2>8
  <2> QED
    BY <2>7, <2>8
<1>6. CASE ConnectReturns
  <2>1. /\ phase = "connect" /\ phase' \in {"announce", "destroy"}
        /\ UNCHANGED <<trackers, connected, connected_trackers>>
        /\ \A i \in DOMAIN trackers : i < curr
    BY <1>6, OtherStepEffect DEF ConnectReturns, Enter, AtEnd
  <2>2. phase' = "announce" => Counted' = Counted
    BY <2>1 DEF Counted
  <2> QED
    BY <1>0, <1>1, <2>1, <2>2
<1>7. CASE InAnnounce
  <2>1. trackers[curr] \in Trackers
    BY <1>7 DEF InAnnounce, LoopInv, TorrentTypeOK, AtEnd
  <2>2. UNCHANGED <<torrent, connected>>
    BY <1>7, <2>1, AnnounceStepEffect DEF InAnnounce
  <2>3. Counted' = Counted
    BY <2>2 DEF Counted, torrent
  <2> QED
    BY <1>2, <2>2, <2>3 DEF torrent
<1>8. CASE AnnounceNext
  <2>1. /\ phase = "announce" /\ phase' = "announce"
        /\ UNCHANGED <<trackers, connected, connected_trackers>>
    BY <1>8, OtherStepEffect DEF AnnounceNext
  <2>2. Counted' = Counted
    BY <2>1 DEF Counted
  <2> QED
    BY <1>2, <2>1, <2>2
<1>9. CASE TorrentAnnounceReturns \/ TorrentDestroy \/ Exit \/ ParseFails
  BY <1>1, <1>9 DEF TorrentAnnounceReturns, TorrentDestroy, Exit, ParseFails, Enter
<1>10. CASE InPeer \/ Network \/ UNCHANGED allvars
  <2>1. InPeer => trackers[curr] \in Trackers
    BY DEF InPeer, LoopInv, TorrentTypeOK, AtEnd
  <2>2. UNCHANGED <<torrent, connected>>
    BY <1>10, <2>1, OtherStepEffect DEF InPeer, Network, allvars
  <2>3. Counted' = Counted
    BY <2>2 DEF Counted, torrent
  <2> QED
    BY <1>2, <2>2, <2>3 DEF torrent
<1> QED
  BY <1>3, <1>r, <1>4, <1>5, <1>6, <1>7, <1>8, <1>9, <1>10 DEF TorrentNext, MainStep

(* The number of trackers Torrent_connect reports is that of the trackers that
   hold a connection id, for any list (torrent.c:252-263).                     *)
THEOREM CountIsConnected == TorrentSpec => []CountsConnected
<1>1. TorrentInit => CountsConnected
  BY DEF TorrentInit, CountsConnected
<1>2. /\ IInv /\ LoopInv /\ LoopInv' /\ TourInv /\ TourInv' /\ HeldInv
      /\ CountsConnected /\ [TorrentNext]_allvars
      => CountsConnected'
  BY CountNext
<1> QED
  BY <1>1, <1>2, TourInvariant, PTL DEF TorrentSpec
=============================================================================
