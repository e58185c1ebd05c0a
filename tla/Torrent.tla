------------------------------ MODULE Torrent ------------------------------
(***************************************************************************)
(* src/uvgTorrent.c (main) and src/torrent/torrent.c: one thread parses a  *)
(* magnet link into a list of trackers, connects to each of them in the    *)
(* order of the list, announces to each of them, and destroys everything.  *)
(*                                                                         *)
(* The trackers are those of module Tracker, whose steps are taken while   *)
(* the torrent's loop stands at that tracker: main is inside the call.     *)
(***************************************************************************)
EXTENDS Tracker, Sequences

CONSTANT Links  \* the tracker lists a magnet link may parse to

ASSUME LinksAssumption ==
  Links \subseteq {s \in Seq(Trackers) :
                     \A i, j \in DOMAIN s : s[i] = s[j] => i = j}

VARIABLES
  phase,               \* where main is: the call of the torrent it is in
  trackers,            \* this->trackers
  curr,                \* position of the loop over this->trackers
  success,             \* local variable of Torrent_connect
  connected_trackers   \* this->connected_trackers

torrent == <<phase, trackers, curr, success, connected_trackers>>
allvars == <<vars, torrent>>

(* "exit" is the end of main, "crash" a crash in the torrent's own code; a
   process that ends inside a tracker's function is recorded in proc.      *)
Phases == {"parse", "connect", "announce", "destroy", "exit", "crash"}

TorrentInit ==
  /\ Init
  /\ phase = "parse"
  /\ trackers = <<>>
  /\ curr = 1
  /\ success = 1
  /\ connected_trackers = 0

AtEnd == curr > Len(trackers)

(* main calls the next function of the torrent, which starts at the head. *)
Enter(p) == phase' = p /\ curr' = 1

-----------------------------------------------------------------------------
(* Torrent_parse fills the list; main prints it and calls Torrent_connect. *)
Parse(link) ==
  /\ proc = "running"
  /\ phase = "parse"
  /\ trackers' = link
  /\ Enter("connect")
  /\ success' = 1
  /\ connected_trackers' = 0
  /\ UNCHANGED vars

(* No file, or an empty one: parse returns before there is a list, and
   Torrent_destroy reads the head of this->trackers, which is NULL.    *)
ParseFails ==
  /\ proc = "running"
  /\ phase = "parse"
  /\ phase' = "crash"
  /\ UNCHANGED <<vars, trackers, curr, success, connected_trackers>>

(* The map of the link has no room for one of its pairs: the trackers in front
   of that pair are on the list, main passes connect and announce by.         *)
ParseRefused(link) ==
  /\ proc = "running"
  /\ phase = "parse"
  /\ \E n \in 0..Len(link) : trackers' = SubSeq(link, 1, n)
  /\ Enter("destroy")
  /\ UNCHANGED <<vars, success, connected_trackers>>

(* main is inside tracker->connect of the tracker the loop stands at. *)
InConnect ==
  /\ phase = "connect" /\ ~AtEnd
  /\ ConnectStep(trackers[curr])
  /\ UNCHANGED torrent

(* Variant: every call counts, whatever it returned. *)
CountsAll(t) == 1

(* EXIT_SUCCESS is 0 and EXIT_FAILURE is 1. *)
Status(t) == IF result[t] = "EXIT_SUCCESS" THEN 0 ELSE 1
Counts(t) == IF Status(t) = 0 THEN 1 ELSE 0

(* The call returned: success |= status, one more tracker counted or not. *)
ConnectNext ==
  /\ proc = "running"
  /\ phase = "connect" /\ ~AtEnd
  /\ pc[trackers[curr]] = "idle"
  /\ success' = IF success = 1 \/ Status(trackers[curr]) = 1 THEN 1 ELSE 0
  /\ connected_trackers' = connected_trackers + Counts(trackers[curr])
  /\ curr' = curr + 1
  /\ UNCHANGED <<vars, phase, trackers>>

(* assert(success == 1) decides whether main goes on to announce. *)
ConnectReturns ==
  /\ proc = "running"
  /\ phase = "connect" /\ AtEnd
  /\ Enter(IF success = 1 THEN "announce" ELSE "destroy")
  /\ UNCHANGED <<vars, trackers, success, connected_trackers>>

(* Variant: the two loops become one, each tracker is announced to as soon as
   it has been connected.                                                    *)
InAnnounceEarly ==
  /\ phase \in {"connect", "announce"} /\ ~AtEnd
  /\ AnnounceStep(trackers[curr])
  /\ UNCHANGED torrent

InAnnounce ==
  /\ phase = "announce" /\ ~AtEnd
  /\ AnnounceStep(trackers[curr])
  /\ UNCHANGED torrent

(* ... and, further inside, in the session with a peer of its answer. *)
InPeer ==
  /\ phase = "announce" /\ ~AtEnd
  /\ PeerStep(trackers[curr])
  /\ UNCHANGED torrent

(* The status of tracker->announce reaches nobody. *)
AnnounceNext ==
  /\ proc = "running"
  /\ phase = "announce" /\ ~AtEnd
  /\ pc[trackers[curr]] = "done"
  /\ curr' = curr + 1
  /\ UNCHANGED <<vars, phase, trackers, success, connected_trackers>>

TorrentAnnounceReturns ==
  /\ proc = "running"
  /\ phase = "announce" /\ AtEnd
  /\ Enter("destroy")
  /\ UNCHANGED <<vars, trackers, success, connected_trackers>>

(* Variant: the node is freed without tracker->destroy. *)
FreesNode(t) ==
  /\ pc' = [pc EXCEPT ![t] = "destroyed"]
  /\ UNCHANGED <<proc, resolved, frames, result, outcome, tracker, socket, peers,
                 accepted, network>>

DestroysTracker(t) == Destroy(t)

TorrentDestroy ==
  /\ phase = "destroy" /\ ~AtEnd
  /\ DestroysTracker(trackers[curr])
  /\ curr' = curr + 1
  /\ UNCHANGED <<phase, trackers, success, connected_trackers>>

Exit ==
  /\ proc = "running"
  /\ phase = "destroy" /\ AtEnd
  /\ phase' = "exit"
  /\ UNCHANGED <<vars, trackers, curr, success, connected_trackers>>

Network == NetworkStep /\ UNCHANGED torrent

MainStep ==
  \/ \E link \in Links : Parse(link) \/ ParseRefused(link)
  \/ InConnect \/ ConnectNext \/ ConnectReturns
  \/ InAnnounce \/ AnnounceNext \/ TorrentAnnounceReturns
  \/ TorrentDestroy \/ Exit

TorrentNext == MainStep \/ ParseFails \/ InPeer \/ Network

TorrentSpec == TorrentInit /\ [][TorrentNext]_allvars

(* main is scheduled; what a peer does is not main's to decide. *)
TorrentFairSpec == TorrentSpec /\ WF_allvars(MainStep)

-----------------------------------------------------------------------------
(* Properties *)

Listed == {trackers[i] : i \in DOMAIN trackers}

(* Every variable has its type; curr never leaves the list by more than one. *)
TorrentTypeOK ==
  /\ phase \in Phases
  /\ trackers \in Seq(Trackers)
  /\ curr \in 1..(Len(trackers) + 1)
  /\ success \in {0, 1}
  /\ connected_trackers \in 0..Len(trackers)

(* The number of trackers Torrent_connect reports (torrent.c:257, 263) is the
   number of those it went through that hold a connection id, after every
   turn of its loop and as long as the torrent lives.                       *)
CountsConnected ==
  phase \in {"connect", "announce"} =>
    connected_trackers =
      Cardinality({i \in DOMAIN trackers :
                     (phase = "connect" => i < curr) /\ connected[trackers[i]]})

(* No tracker is announced to before the connect of every tracker of the
   torrent has returned (uvgTorrent.c:28-34).                               *)
AnnounceAfterConnects ==
  (\E r \in requests : r.kind = "announce") =>
    \A t \in Listed : pc[t] \notin {"created", "connect_wait", "connect_retry"}

(* When main ends by itself every tracker was destroyed, and the descriptor
   each connection id came in on is closed: only those of attempts that got
   no answer are left open (torrent.c:81-87, socket.c:79-82, 190).          *)
ExitReleasesConnections ==
  phase = "exit" =>
    \A t \in Listed : /\ pc[t] = "destroyed"
                      /\ \A a \in accepted[t] : a.re.sock \notin open[t]

(* main comes to its end, whatever the trackers and the network do, unless
   the process dies or main is inside a session with a peer.               *)
MainEnds ==
  <>(\/ phase \in {"exit", "crash"}
     \/ proc # "running"
     \/ ~AtEnd /\ pc[trackers[curr]] = "peers")

(* The note at torrent.c:246: "if no trackers are available, throw and error".
   Read: main does not go on to announce with no tracker connected.           *)
ThrowsWithoutTrackers == phase = "announce" => connected_trackers > 0
=============================================================================
