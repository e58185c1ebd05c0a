----------------------------- MODULE MCTorrent -----------------------------
(* Magnet links with no tracker and with two. *)
EXTENDS Torrent

CONSTANTS t1, t2

MCLinks == {<<>>, <<t1, t2>>}

(* Bound: a tracker answers a request once, while the client waits on the
   socket the request came from.  An answer sent earlier would be found in the
   socket's queue by that wait, and one to a socket nobody reads changes
   nothing; every announce response lists MaxPeers peers.  (MCTracker keeps
   all of these cases.)                                                      *)
AnswersWhileAwaited ==
  \A a \in answers' \ answers :
    /\ Waiting(a.re.tracker) /\ a.re.sock = sock_desc[a.re.tracker]
    /\ \A b \in answers : b.re # a.re
    /\ a.action = 1 => a.peers = MaxPeers
=============================================================================
