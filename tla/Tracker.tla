------------------------------ MODULE Tracker ------------------------------
(***************************************************************************)
(* The UDP tracker client of src/tracker/tracker.c, together with the part *)
(* of utils/sock/socket.c it drives and the datagrams of tracker/packets.  *)
(*                                                                         *)
(* A tracker is connected to (Tracker_connect), announced to               *)
(* (Tracker_announce) and destroyed (Tracker_destroy).  Both exchanges     *)
(* send one datagram, block in recvfrom for at most a second and, when     *)
(* nothing came, call themselves again until max_attempts is used up.      *)
(*                                                                         *)
(* Datagrams may be lost, duplicated, delayed and reordered: requests and  *)
(* answers only ever grow, an answer may be received any number of times   *)
(* or never, and a request may stay without an answer.  The order in which *)
(* the trackers of a torrent are driven is left open here (Torrent fixes   *)
(* it), so the steps of different trackers interleave freely.              *)
(***************************************************************************)
EXTENDS Naturals, FiniteSets

CONSTANTS
  Trackers,     \* the Tracker objects, one per tr= key of the magnet link
  TransIds,     \* what rand() % 1000000 may return
  MaxAttempts,  \* max_attempts (5 in the code)
  MaxPeers      \* bound: peers listed in one announce response

ASSUME ConstantsAssumption ==
  /\ TransIds \subseteq Nat /\ TransIds # {}
  /\ MaxAttempts \in Nat
  /\ MaxPeers \in Nat

VARIABLES
  proc,                 \* the client process: running, exited or crashed
  pc,                   \* per tracker: where the client is in its functions
  resolved,             \* per tracker: hostname_to_ip found an address
  connected,            \* this->connected
  attempts,             \* this->attempts
  connection_id,        \* this->connection_id
  last_transaction_id,  \* this->last_transaction_id
  sock_desc,            \* *this->tracker_socket->sock_desc, NoDesc when NULL
  open,                 \* descriptors of this tracker the kernel holds open
  frames,               \* activations of connect/announce on the call stack
  peers,                \* peers of the accepted response not yet visited
  result,               \* what the last call of connect/announce returned
  outcome,              \* history: why that call came to an end
  accepted,             \* history: the answers that passed the checks
  requests,             \* network: every datagram handed to sendto
  answers               \* network: every datagram the trackers sent back

control  == <<pc, frames, result, outcome>>
tracker  == <<connected, attempts, connection_id, last_transaction_id>>
socket   == <<sock_desc, open>>
network  == <<requests, answers>>
vars     == <<proc, resolved, control, tracker, socket, peers, accepted, network>>

(* A descriptor is named by the attempt that created it; 0 is no descriptor. *)
NoDesc == 0

Kinds == {"connect", "announce"}

Requests == [tracker : Trackers, kind : Kinds, frame : Nat, sock : Nat,
             tid : TransIds, cid : Nat]

(* Action codes of a datagram from a tracker: 0 connect, 1 announce, 3 error. *)
Answers == [re : Requests, action : {0, 1, 3}, peers : 0..MaxPeers]

(* The connection id in a connect response: a tracker issues a fresh one for
   each request it answers, named here by the attempt that asked for it.     *)
IssuedId(a) == a.re.frame

PcValues == {"created", "connect_wait", "connect_retry", "idle", "announce_wait",
             "announce_retry", "peers", "done", "destroyed"}

Outcomes == {"none", "accepted", "rejected", "timed_out", "skipped", "no_socket"}

Waiting(t) == pc[t] \in {"connect_wait", "announce_wait"}

-----------------------------------------------------------------------------
(* Tracker_init.  The result of hostname_to_ip is ignored: an unresolved
   host leaves this->ip as malloc returned it.                             *)
Init ==
  /\ proc = "running"
  /\ pc = [t \in Trackers |-> "created"]
  /\ resolved \in [Trackers -> BOOLEAN]
  /\ connected = [t \in Trackers |-> FALSE]
  /\ attempts = [t \in Trackers |-> 0]
  /\ connection_id = [t \in Trackers |-> 0]
  /\ last_transaction_id = [t \in Trackers |-> 0]
  /\ sock_desc = [t \in Trackers |-> NoDesc]
  /\ open = [t \in Trackers |-> {}]
  /\ frames = [t \in Trackers |-> 0]
  /\ peers = [t \in Trackers |-> 0]
  /\ result = [t \in Trackers |-> "none"]
  /\ outcome = [t \in Trackers |-> "none"]
  /\ accepted = [t \in Trackers |-> {}]
  /\ requests = {}
  /\ answers = {}

(* A call of connect or announce returns to the torrent. *)
Return(t, to, res, why) ==
  /\ pc' = [pc EXCEPT ![t] = to]
  /\ frames' = [frames EXCEPT ![t] = 0]
  /\ result' = [result EXCEPT ![t] = res]
  /\ outcome' = [outcome EXCEPT ![t] = why]

-----------------------------------------------------------------------------
(* Tracker_connect *)

(* Variants used to test the properties: a socket that is kept for the next
   attempt, a retry that closes the descriptor it has just made.           *)
KeptDesc(t) == IF sock_desc[t] = NoDesc THEN frames[t] + 1 ELSE sock_desc[t]
ClosesNew(t, d) == open[t]

NewDesc(t) == frames[t] + 1

(* What the kernel holds open once Socket_connect has made d. *)
OpenWith(t, d) == open[t] \cup {d}

(* Socket_connect succeeds: a new descriptor overwrites the old one, which
   nobody closes.  Then a new transaction id, and the request is sent.     *)
ConnectSend(t, id) ==
  /\ proc = "running"
  /\ pc[t] \in {"created", "connect_retry"}
  /\ sock_desc' = [sock_desc EXCEPT ![t] = NewDesc(t)]
  /\ open' = [open EXCEPT ![t] = OpenWith(t, NewDesc(t))]
  /\ last_transaction_id' = [last_transaction_id EXCEPT ![t] = id]
  /\ requests' = requests \cup {[tracker |-> t, kind |-> "connect",
       frame |-> frames[t] + 1, sock |-> NewDesc(t), tid |-> id, cid |-> 0]}
  /\ frames' = [frames EXCEPT ![t] = @ + 1]
  /\ pc' = [pc EXCEPT ![t] = "connect_wait"]
  /\ UNCHANGED <<proc, resolved, connected, attempts, connection_id, peers,
                 result, outcome, accepted, answers>>

(* socket, bind or getsockname failed: Socket_connect closes what it made and
   frees sock_desc, Tracker_connect gives up without another attempt.        *)
ConnectNoSocket(t) ==
  /\ proc = "running"
  /\ pc[t] \in {"created", "connect_retry"}
  /\ sock_desc' = [sock_desc EXCEPT ![t] = NoDesc]
  /\ attempts' = [attempts EXCEPT ![t] = 0]
  /\ Return(t, "idle", "EXIT_FAILURE", "no_socket")
  /\ UNCHANGED <<proc, resolved, connected, connection_id, last_transaction_id,
                 open, peers, accepted, network>>

(* gethostbyname does not know this->ip: exit(1). *)
ConnectExits(t) ==
  /\ proc = "running"
  /\ pc[t] \in {"created", "connect_retry"}
  /\ ~resolved[t]
  /\ proc' = "exited"
  /\ UNCHANGED <<resolved, control, tracker, socket, peers, accepted, network>>

(* The datagrams recvfrom can return: those sent to the socket in use. *)
Receivable(t) == {a \in answers : a.re.tracker = t /\ a.re.sock = sock_desc[t]}

(* Variant: the transaction id is not compared. *)
MatchesAction(t, a, action) == a.action = action

(* The test both functions make on the datagram they received. *)
Matches(t, a, action) == a.action = action /\ a.re.tid = last_transaction_id[t]

ConnectAccept(t, a) ==
  /\ proc = "running"
  /\ pc[t] = "connect_wait"
  /\ a \in Receivable(t)
  /\ Matches(t, a, 0)
  /\ connected' = [connected EXCEPT ![t] = TRUE]
  /\ attempts' = [attempts EXCEPT ![t] = 0]
  /\ connection_id' = [connection_id EXCEPT ![t] = IssuedId(a)]
  /\ accepted' = [accepted EXCEPT ![t] = @ \cup {a}]
  /\ Return(t, "idle", "EXIT_SUCCESS", "accepted")
  /\ UNCHANGED <<proc, resolved, last_transaction_id, socket, peers, network>>

(* Any other datagram ends the call: there is no second receive. *)
ConnectReject(t, a) ==
  /\ proc = "running"
  /\ pc[t] = "connect_wait"
  /\ a \in Receivable(t)
  /\ ~Matches(t, a, 0)
  /\ attempts' = [attempts EXCEPT ![t] = 0]
  /\ Return(t, "idle", "EXIT_FAILURE", "rejected")
  /\ UNCHANGED <<proc, resolved, connected, connection_id, last_transaction_id,
                 socket, peers, accepted, network>>

(* Variants: no SO_RCVTIMEO; one attempt too many; one attempt too few. *)
NoTimeOut(t) == FALSE
AttemptLeftTooMany(t) == attempts[t] <= MaxAttempts
AttemptLeftTooFew(t) == attempts[t] + 1 < MaxAttempts

(* recvfrom came back with -1: nothing arrived within SO_RCVTIMEO. *)
TimesOut(t) == proc = "running" /\ Waiting(t)

AttemptLeft(t) == attempts[t] < MaxAttempts

(* An answer may already be on its way when the timeout fires. *)
ConnectTimeout(t) ==
  /\ TimesOut(t)
  /\ pc[t] = "connect_wait"
  /\ AttemptLeft(t)
  /\ attempts' = [attempts EXCEPT ![t] = @ + 1]
  /\ pc' = [pc EXCEPT ![t] = "connect_retry"]
  /\ UNCHANGED <<proc, resolved, connected, connection_id, last_transaction_id,
                 socket, frames, peers, result, outcome, accepted, network>>

ConnectGiveUp(t) ==
  /\ TimesOut(t)
  /\ pc[t] = "connect_wait"
  /\ ~AttemptLeft(t)
  /\ attempts' = [attempts EXCEPT ![t] = 0]
  /\ Return(t, "idle", "EXIT_FAILURE", "timed_out")
  /\ UNCHANGED <<proc, resolved, connected, connection_id, last_transaction_id,
                 socket, peers, accepted, network>>

-----------------------------------------------------------------------------
(* Tracker_announce *)

(* What the torrent sees: an activation that was called by a retry returns
   into one that ignores its result and answers EXIT_SUCCESS.              *)
AnnounceResult(t, res) == IF frames[t] > 1 THEN "EXIT_SUCCESS" ELSE res

AnnounceSkip(t) ==
  /\ proc = "running"
  /\ pc[t] = "idle"
  /\ ~connected[t]
  /\ Return(t, "done", "EXIT_SUCCESS", "skipped")
  /\ UNCHANGED <<proc, resolved, tracker, socket, peers, accepted, network>>

(* Variant: the flag connected is not looked at. *)
AnyTracker(t) == pc[t] \in {"idle", "announce_retry"}

MayAnnounce(t) == pc[t] \in {"idle", "announce_retry"} /\ connected[t]

(* A new transaction id on the socket that was connected last. *)
AnnounceSend(t, id) ==
  /\ proc = "running"
  /\ MayAnnounce(t)
  /\ last_transaction_id' = [last_transaction_id EXCEPT ![t] = id]
  /\ requests' = requests \cup {[tracker |-> t, kind |-> "announce",
       frame |-> frames[t] + 1, sock |-> sock_desc[t], tid |-> id,
       cid |-> connection_id[t]]}
  /\ frames' = [frames EXCEPT ![t] = @ + 1]
  /\ pc' = [pc EXCEPT ![t] = "announce_wait"]
  /\ UNCHANGED <<proc, resolved, connected, attempts, connection_id, socket,
                 peers, result, outcome, accepted, answers>>

AnnounceAccept(t, a) ==
  /\ proc = "running"
  /\ pc[t] = "announce_wait"
  /\ a \in Receivable(t)
  /\ Matches(t, a, 1)
  /\ attempts' = [attempts EXCEPT ![t] = 0]
  /\ peers' = [peers EXCEPT ![t] = a.peers]
  /\ accepted' = [accepted EXCEPT ![t] = @ \cup {a}]
  /\ pc' = [pc EXCEPT ![t] = "peers"]
  /\ UNCHANGED <<proc, resolved, connected, connection_id, last_transaction_id,
                 socket, frames, result, outcome, network>>

AnnounceReject(t, a) ==
  /\ proc = "running"
  /\ pc[t] = "announce_wait"
  /\ a \in Receivable(t)
  /\ ~Matches(t, a, 1)
  /\ attempts' = [attempts EXCEPT ![t] = 0]
  /\ Return(t, "done", AnnounceResult(t, "EXIT_FAILURE"), "rejected")
  /\ UNCHANGED <<proc, resolved, connected, connection_id, last_transaction_id,
                 socket, peers, accepted, network>>

AnnounceTimeout(t) ==
  /\ TimesOut(t)
  /\ pc[t] = "announce_wait"
  /\ AttemptLeft(t)
  /\ attempts' = [attempts EXCEPT ![t] = @ + 1]
  /\ pc' = [pc EXCEPT ![t] = "announce_retry"]
  /\ UNCHANGED <<proc, resolved, connected, connection_id, last_transaction_id,
                 socket, frames, peers, result, outcome, accepted, network>>

(* Out of attempts: falls through to EXIT_SUCCESS, attempts is left as is. *)
AnnounceGiveUp(t) ==
  /\ TimesOut(t)
  /\ pc[t] = "announce_wait"
  /\ ~AttemptLeft(t)
  /\ Return(t, "done", "EXIT_SUCCESS", "timed_out")
  /\ UNCHANGED <<proc, resolved, tracker, socket, peers, accepted, network>>

(* The loop over the peers of the response: the session with one peer is a
   single step here, and need not end.                                     *)
PeerSession(t) ==
  /\ proc = "running"
  /\ pc[t] = "peers"
  /\ peers[t] > 0
  /\ peers' = [peers EXCEPT ![t] = @ - 1]
  /\ UNCHANGED <<proc, resolved, control, tracker, socket, accepted, network>>

(* The session kills the process.  One way: the peer refuses the connection,
   the handshake fails, and get_piece, called all the same, dereferences the
   sock_desc Socket_connect has set to NULL.                                *)
PeerCrashes(t) ==
  /\ proc = "running"
  /\ pc[t] = "peers"
  /\ peers[t] > 0
  /\ proc' = "crashed"
  /\ UNCHANGED <<resolved, control, tracker, socket, peers, accepted, network>>

AnnounceReturns(t) ==
  /\ proc = "running"
  /\ pc[t] = "peers"
  /\ peers[t] = 0
  /\ Return(t, "done", "EXIT_SUCCESS", "accepted")
  /\ UNCHANGED <<proc, resolved, tracker, socket, peers, accepted, network>>

-----------------------------------------------------------------------------
(* Tracker_destroy: closes the descriptor in use, and only that one. *)
Destroy(t) ==
  /\ proc = "running"
  /\ pc[t] \in {"created", "idle", "done"}
  /\ open' = [open EXCEPT ![t] = @ \ {sock_desc[t]}]
  /\ sock_desc' = [sock_desc EXCEPT ![t] = NoDesc]
  /\ pc' = [pc EXCEPT ![t] = "destroyed"]
  /\ UNCHANGED <<proc, resolved, frames, result, outcome, tracker, peers,
                 accepted, network>>

(* External: a tracker answers a request it got, echoing the transaction id.
   It may refuse (action 3), and serves an announce only under a connection
   id it has issued.  Nobody answers for a host that did not resolve.        *)
Issued(t) == {IssuedId(a) : a \in {b \in answers : b.re.tracker = t /\ b.action = 0}}

TrackerAnswers(r, action, n) ==
  /\ proc = "running"
  /\ resolved[r.tracker]
  /\ \/ action = 0 /\ r.kind = "connect" /\ n = 0
     \/ action = 1 /\ r.kind = "announce" /\ r.cid \in Issued(r.tracker)
     \/ action = 3 /\ n = 0
  /\ answers' = answers \cup {[re |-> r, action |-> action, peers |-> n]}
  /\ UNCHANGED <<proc, resolved, control, tracker, socket, peers, accepted, requests>>

-----------------------------------------------------------------------------
ConnectStep(t) ==
  \/ \E id \in TransIds : ConnectSend(t, id)
  \/ ConnectNoSocket(t)
  \/ ConnectExits(t)
  \/ \E a \in answers : ConnectAccept(t, a) \/ ConnectReject(t, a)
  \/ ConnectTimeout(t)
  \/ ConnectGiveUp(t)

AnnounceStep(t) ==
  \/ AnnounceSkip(t)
  \/ \E id \in TransIds : AnnounceSend(t, id)
  \/ \E a \in answers : AnnounceAccept(t, a) \/ AnnounceReject(t, a)
  \/ AnnounceTimeout(t)
  \/ AnnounceGiveUp(t)
  \/ AnnounceReturns(t)

PeerStep(t) == PeerSession(t) \/ PeerCrashes(t)

NetworkStep ==
  \E r \in requests, action \in {0, 1, 3}, n \in 0..MaxPeers :
    TrackerAnswers(r, action, n)

Next ==
  \/ \E t \in Trackers : ConnectStep(t) \/ AnnounceStep(t) \/ PeerStep(t) \/ Destroy(t)
  \/ NetworkStep

Spec == Init /\ [][Next]_vars

(* The client is one thread that never sleeps but in recvfrom, which the
   one-second SO_RCVTIMEO always ends; trackers and peers owe it nothing. *)
Fairness == \A t \in Trackers : WF_vars(ConnectStep(t)) /\ WF_vars(AnnounceStep(t))

FairSpec == Spec /\ Fairness
-----------------------------------------------------------------------------
(* Properties *)

RequestsOf(t, k) == {r \in requests : r.tracker = t /\ r.kind = k}

(* The exchange the client is in, or was in last. *)
Phase(t) == IF pc[t] \in {"created", "connect_wait", "connect_retry", "idle"}
            THEN "connect" ELSE "announce"

LastRequest(t, k, r) ==
  r \in RequestsOf(t, k) /\ \A q \in RequestsOf(t, k) : q.frame <= r.frame

(* Every variable has its type (a descriptor, a frame and a connection id are
   natural numbers; the counters have no tighter bound by themselves).       *)
TypeOK ==
  /\ proc \in {"running", "exited", "crashed"}
  /\ pc \in [Trackers -> PcValues]
  /\ resolved \in [Trackers -> BOOLEAN]
  /\ connected \in [Trackers -> BOOLEAN]
  /\ attempts \in [Trackers -> 0..MaxAttempts]
  /\ connection_id \in [Trackers -> Nat]
  /\ last_transaction_id \in [Trackers -> TransIds \cup {0}]
  /\ sock_desc \in [Trackers -> Nat]
  /\ open \in [Trackers -> SUBSET (Nat \ {NoDesc})]
  /\ frames \in [Trackers -> Nat]
  /\ peers \in [Trackers -> 0..MaxPeers]
  /\ result \in [Trackers -> {"none", "EXIT_SUCCESS", "EXIT_FAILURE"}]
  /\ outcome \in [Trackers -> Outcomes]
  /\ accepted \in [Trackers -> SUBSET Answers]
  /\ requests \in SUBSET Requests
  /\ answers \in SUBSET Answers

(* The counter attempts, the depth of the recursion and the datagrams sent
   agree at every moment: a waiting call is attempt number attempts + 1, it
   has sent exactly that many requests, and there are never more than
   max_attempts + 1 of them (tracker.c:167-172, 281-285).  Between the two
   exchanges the counter is back to zero, so an announce never starts with a
   part of its budget spent by the connect (tracker.c:155, 187).            *)
RetryBudget ==
  \A t \in Trackers :
    /\ Waiting(t) => /\ frames[t] = attempts[t] + 1
                     /\ {r.frame : r \in RequestsOf(t, Phase(t))} = 1..frames[t]
    /\ pc[t] \in {"created", "idle"} => attempts[t] = 0
    /\ \A r \in requests : r.frame <= MaxAttempts + 1

(* A call ends by timeout only after it has sent max_attempts + 1 requests. *)
GivesUpAfterBudget ==
  \A t \in Trackers :
    outcome[t] = "timed_out" /\ pc[t] \in {"idle", "done"} =>
      \E r \in RequestsOf(t, Phase(t)) : r.frame = MaxAttempts + 1

(* While connected, the connection id is one the tracker issued in answer to
   the last connect request, the one sent from the descriptor still in use
   and still open; a late answer to an earlier attempt is never taken for
   it, although transaction ids may repeat (tracker.c:145, 153-158).        *)
ConnectedGenuine ==
  \A t \in Trackers :
    connected[t] /\ pc[t] # "destroyed" =>
      /\ sock_desc[t] \in open[t]
      /\ \E a \in answers :
           /\ a.action = 0
           /\ LastRequest(t, "connect", a.re)
           /\ a.re.sock = sock_desc[t]
           /\ connection_id[t] = IssuedId(a)

(* A connect fails on a datagram only if the tracker refused this very
   attempt: since every attempt has a socket of its own, an answer to an
   attempt that timed out cannot abort the one that followed.  (An announce
   keeps its socket and has no such guarantee.)                             *)
ConnectRejectedByTracker ==
  \A t \in Trackers :
    pc[t] = "idle" /\ outcome[t] = "rejected" =>
      \E a \in answers : a.action = 3 /\ LastRequest(t, "connect", a.re)

(* An answer an announce was accepted on carries the transaction id of the
   last announce request and was served under the connection id this client
   holds; it answers an earlier attempt only when rand() repeated that
   attempt's id (tracker.c:234-240, note at 308-309).                       *)
AnnounceAnswered ==
  \A t \in Trackers : \A a \in accepted[t] :
    a.re.kind = "announce" =>
      /\ a.action = 1 /\ a \in answers
      /\ a.re.cid = connection_id[t]
      /\ \E r \in requests : LastRequest(t, "announce", r) /\ r.tid = a.re.tid

(* Every announce that was ever sent carries a connection id its tracker had
   issued before, and leaves through the socket that id came in on.         *)
AnnounceUsesIssuedId ==
  \A r \in requests :
    r.kind = "announce" =>
      \E a \in answers : /\ a.action = 0 /\ a.re.tracker = r.tracker
                          /\ a.re.sock = r.sock /\ IssuedId(a) = r.cid

(* The client never sends or receives on a descriptor it does not hold, and
   a tracker never costs the process more than max_attempts + 1 descriptors,
   the ones the retries leave open included (socket.c:190 overwrites).       *)
DescriptorsBounded ==
  \A t \in Trackers :
    /\ Waiting(t) => sock_desc[t] \in open[t]
    /\ pc[t] = "destroyed" => sock_desc[t] = NoDesc
    /\ open[t] \subseteq 1..(MaxAttempts + 1)

(* A connect that was sent returns, whatever the network does, unless the
   process ends; an announce leaves its retry loop.                         *)
ExchangesEnd ==
  \A t \in Trackers :
    /\ pc[t] = "connect_wait" ~> (pc[t] = "idle" \/ proc # "running")
    /\ pc[t] = "announce_wait" ~> (pc[t] \in {"peers", "done"} \/ proc # "running")

(* Claims of the comments, each checked by a run of its own. *)

(* tracker.c:201-202: announce is to "send an announce request to the
   tracker, retreive peer information" and returns a "success bool".  Read:
   when it reports success the tracker has answered.                       *)
SuccessMeansAnswered ==
  \A t \in Trackers :
    pc[t] = "done" /\ result[t] = "EXIT_SUCCESS" => outcome[t] = "accepted"

(* tracker.c:126-128: connect "fails without throwing an error.  the torrent
   which is spawning will determine if all of the trackers have failed".
   Read: no failure of one tracker's connect ends the client.               *)
ConnectFailsQuietly == proc # "exited"
=============================================================================
