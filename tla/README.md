# uvgTorrent in TLA+

A verification project for the client in `src/src`: TLA+ modules translated from
its C code, TLC runs that check them on small instances, and TLAPS proofs of what
matters most of the tracker client, the torrent, the thread pool, the session with
a peer, the linked list, the hashmap, the parser of magnet links, and the bytes that
trackers and peers exchange with the client.
`PROJECT.json` lists the components, the runs, which source lines each definition
stands for (`map`), the hazards of the code and the theorems.

## 1. The system

`main` parses a magnet link into a list of UDP trackers, connects to each tracker,
announces to each, runs a session with every peer an announce returned, and
destroys everything. All of this is one thread. The thread pool is a library of
the repository with a demonstration program (`example.c`); the client does not
use it yet. Objects are structs of function pointers; a method reports 0
(`EXIT_SUCCESS`) or 1 (`EXIT_FAILURE`).

| component | state it keeps | operations | talks to | what is hard |
|---|---|---|---|---|
| tracker client, `tracker/tracker.c` | `connected`, `attempts`, `connection_id`, `last_transaction_id`, its socket | init, connect, announce, destroy | socket, tracker packets, peer | one retry counter for two exchanges, retry by recursion, late and repeated answers |
| tracker packets, `tracker/packets` | one request, one response | new, send, receive, destroy | socket | byte layout, short datagrams |
| sockets, `utils/sock` | descriptor, addresses, timeouts | init, connect, send, receive, destroy | kernel | the descriptor is overwritten; `exit(1)`; recv's -1 and 0 |
| torrent and main, `torrent`, `uvgTorrent.c` | list of trackers, `connected_trackers` | parse, connect, announce, destroy | tracker, list, hashmap | results of many calls folded into one; cleanup after a failed parse |
| thread pool, `utils/thread_pool` | threads, list of jobs, one mutex | init, add_job, destroy; per thread start, run, destroy | list | interleaving, shutdown, freeing what a thread still uses |
| linked list, `data_structures/linkedlist` | head, end, count; nodes | append, pop, get, set, destroy | all of the above | ownership of popped nodes, the stale end pointer, bounds |
| hashmap, `data_structures/hashmap` | slots, chains of buckets, a counter | set, get, get_bucket, destroy | torrent, peer, bencode | keys that share a slot, a key set twice |
| peer session, `peer/peer.c`, `peer/packets` | socket, sizes, pieces | handshake, extended handshake, get_metadata, get_piece | socket, hashmap, bencode | framing over TCP, timeouts in the middle of a message, a peer that closes |
| peer packets, `peer/packets` | one request, one response | new, send, receive, destroy | socket | texts put together and searched, lengths |
| magnet parser, `torrent.c`, `tracker.c:72-77` | two buffers of 256, a map, the list of trackers | parse | hashmap, list, string utilities | the end of a buffer and of the link, what is missing |
| bencode, `utils/bencode` | a cursor: where it started, where it is, what is left | to_hashmap, has_next, get_next, values | hashmap, list, peer | text that is cut or goes on with other bytes |
| string utilities, `utils/str` | none | urldecode, urlencode, split | torrent, tracker | characters of every value, escapes cut in two |
| net utilities, `utils/net` | none | byte order of 2, 4 and 8 bytes, host lookup | packets, sockets | hosts of both byte orders |
| random utilities, macros, example | | | | unused, logging, demonstration |

What makes each correct:

* *tracker client*: every exchange ends; it sends at most `max_attempts + 1`
  requests and gives up only after sending them all; what it takes for an answer
  is one; an announce uses a connection id the tracker issued, over the socket it
  came in on; descriptors stay bounded;
* *torrent*: connects before announces, announces before destruction; the count it
  reports agrees with the trackers; the sockets in use are closed at the end;
* *thread pool*: the list is accessed by one thread at a time; no job is lost,
  doubled or left behind; nothing is freed while a thread uses it; destroy ends;
* *linked list*: it is a sequence; every node has one owner;
* *hashmap*: it is a map, as far as the code makes it one;
* *peer session*: the receive loop stays inside the message, the client stays on
  the borders of the messages, the metadata fits its array, and the session ends;
* *packets*: what one side reads is what the other meant, in either byte order;
* *magnet parser*: what is parsed is what is written; a proper link parses;
* *bencode*: what is decoded is what was sent, up to where it was cut; it ends.

`hazards` in `PROJECT.json` lists what a test would hardly reach, each at its line,
with the properties aimed at it, or the reason why none is.

## 2. The modules

| module | models | checked by | proofs |
|---|---|---|---|
| `Tracker` | tracker client, the UDP half of the sockets, tracker packets, the trackers and the network | `MCTracker` | `Torrent_proofs` |
| `Torrent` | main and torrent; EXTENDS `Tracker` and composes with it | `MCTorrent` | `Torrent_proofs` |
| `JobPool` | abstract: a pool of jobs without threads | as a property of `ThreadPool` | `ThreadPool_proofs` |
| `ThreadPool` | `Thread_Pool_*`, `Thread_*`, the list as a sequence | `MCThreadPool` | `ThreadPool_proofs` |
| `SeqList` | abstract: a list as a sequence of values | as a property of `Linkedlist` | `Linkedlist_proofs` |
| `Linkedlist` | the list with its pointers and its nodes in memory | `MCLinkedlist` | `Linkedlist_proofs` |
| `FirstMap` | abstract: a map that keeps the first value of a key | as a property of `Hashmap` | `Maps_proofs` |
| `Hashmap` | slots and chains of buckets | `MCHashmap` | `Maps_proofs` |
| `Peer` | one session with a peer, the TCP half of the sockets, the stream, the peer | `MCPeer` | `Peer_proofs` |
| `StringUtils` | operators: `urldecode`, `urlencode`, `split` | through `Magnet`, `Wire` | in `Magnet_proofs`: decoding, splitting |
| `ByteOrder` | operators: words in memory and their conversions | through `Wire`, `PeerWire` | in `Wire_proofs`, `PeerWire_proofs` |
| `Magnet` | `Torrent_parse` and the address of `Tracker_init`; composes with `Hashmap` | `MCMagnet` | `Magnet_proofs` |
| `Wire` | the datagrams of the tracker protocol, byte by byte | `MCWire` | `Wire_proofs` |
| `ExtendedHandshake` | operators: the numbers in an extended handshake | through `PeerWire` | in `PeerWire_proofs` |
| `PeerWire` | the messages to a peer, byte by byte, and what decides on them | `MCPeerWire` | `PeerWire_proofs` |
| `Bencode` | `bencode_to_hashmap`, the decoder under it, the loop over the files | `MCBencode` | `Maps_proofs` |

How they fit together: `Torrent` EXTENDS `Tracker`; `Magnet` has a `Hashmap` (INSTANCE)
for the map of the link. `Tracker`, `Peer` and `Torrent` speak of datagrams, messages
and links as records; `Wire`, `PeerWire` and `Magnet` show that their bytes carry
exactly those records. `Bencode` is what `Peer` has as one step behind the metadata.

### Tracker

`pc[t]` is where the client is in the functions of tracker `t`; `attempts`,
`connection_id`, `last_transaction_id`, `connected` are the fields of the struct.
The code retries by calling itself, so `frames` is the depth of that recursion and
matters for what is returned: an announce called by a retry returns into one that
drops its result (`AnnounceResult`). `ConnectSend` is the call up to `recvfrom`;
one of `ConnectAccept`, `ConnectReject`, `ConnectTimeout`, `ConnectGiveUp` is what
follows; the announce has the same shape. `sock_desc` is the descriptor in use and
`open` what the kernel holds: `Socket_connect` overwrites the descriptor with
every attempt and closes none, which is exactly why a late answer to an earlier
connect cannot be received any more.

The network is two sets that only grow, `requests` and `answers`: any answer may be
received any number of times, late, or never. A tracker answers a request it got,
with the transaction id of that request; it may refuse. The connection ids a
tracker issues are fresh, and named by the attempt that asked for them. A request
that `sendto` failed to send is one that nobody answers. `PeerSession` and
`PeerCrashes` stand for the session with one peer, the subject of `Peer`.

### Torrent

`phase` is the call `main` is in, `curr` the position of the loop over the list.
While the loop stands at a tracker, the steps of that tracker are the steps of
main (`InConnect`, `InAnnounce`, `InPeer`): by their definition these are steps of
`Tracker`, which is how the two modules are composed and is not claimed as a result.
`Parse` yields any list of `Links`. `ParseRefused` is a parse that fails when the map of the
link has no room for a pair (`torrent.c:190`): the trackers in front of that pair are on
the list, main passes connect and announce by and destroys them unused. `ParseFails` is a
file that is missing or empty: `Torrent_destroy` then reads the head of a list that was
never made.

### ThreadPool, JobPool

The steps are the accesses to what the threads share: the flag `running`, the
mutex, the head of the list; a pop is two steps (it reads the head, then advances
it). `KillSeesExit` is what `pthread_kill(t, 0)` returns for a detached thread that
has exited, which POSIX leaves open: an error in glibc before 2.34, 0 since. The
refinement maps `ThreadPool` to `JobPool`: a job is executing from the second half of
its pop until its function has returned.

### Linkedlist, SeqList

Nodes are addresses that are reused after they are freed. `get` and `set` walk step
by step, so that running off the list is a step (`WalkCrashes`). `order` is a history
variable: the nodes in the order of their append. The refinement maps the values
of those nodes to the sequence of `SeqList`.

### Hashmap, FirstMap

A slot is its chain of buckets, and one call is one step; `Hashmap_destroy` takes
the slots in turn. `frees` counts how often each bucket of a slot is freed:
`Bucket_destroy` frees the next bucket a second time. `FirstMap` is what the code
does promise: keys that share a slot do not disturb each other, and the first
value of a key stays (see the finding below); a bucket asked for by its key may be
another one.

### Peer

Bytes are units: a length prefix is two units, of which the first is zero (no
message is longer than 64 kB), a metadata piece is `PieceUnits`. The stream is a
sequence of units named by their message and place; a recv takes any number of
units off it, or returns -1 (nothing within the timeout) or 0 (closed). `length`,
`pos`, `bytes_received` and `out` are the locals of the receive functions. A failed
recv adds -1 to an `int` that is compared with a `uint32_t`: `Less` converts, modulo
`TwoTo32`. What is read from a place that is not the start of a message reads as any
length up to `MaxLength`, or overruns the buffer (`Overruns`). `cut` records that the
client lost the borders of the messages. The peer may send keep-alives and other
messages unasked, as many as it likes over a session, with `MaxOther` of them under way.

`SessionEnds` says what a session that does not end looks like: it stays in the loop that
receives the rest of one message (`peer_metadata_packet.c:204-208`), and either the peer has
closed, so that 0 is added for ever, or it goes on sending: each timeout takes one byte back,
so that a peer that sends a keep-alive every two minutes makes up for what four
timeouts have taken and holds `bytes_received` below `length` for ever.

An answer is a dictionary and a payload in one body. The code looks for the end of the
dictionary, strips it, and then copies as many bytes as the whole body has
(`peer_metadata_packet.c:108-116`): the payload, and behind it heap of the dictionary's
length (`Stripped`). `MetadataFits` is about `peer.c:195-215`: the array is not made for that
excess; that the last, shorter piece is never asked for leaves the room for it if there
are two pieces, or one and a rest longer than a dictionary. The property leaves out the sizes
from exactly one piece up to a piece, a dictionary and one unit: there the copy, or
the NUL put behind it, does not fit.

### Magnet, StringUtils

The text behind `magnet:?` is a sequence of symbols: characters are their codes, the
names of the parameters, hosts and ports are a symbol each. One pass of the loop of
`Torrent_parse` is one step: `ScanKey`, `KeyEnds`, `ScanValue`, and then, on the value's
last symbol, `StorePair` (or `StoreFails`, when the map is full) or `AppendTracker`. `i`,
`key` and the two buffers are the locals of the function; `this->trackers` is NULL until
the file is read. `Junk` is what lies behind a buffer without terminator
(`OverwriteCrashes`, when the last symbol of the link falls behind a full buffer).
`LookUp` to `NothingToCopy` are the copies of name and hash, with `strlen(NULL)`.

### Wire, ByteOrder

A word is a sequence of bytes, most significant first; `InMemory` is how the host
lays it out and `host` is big or little. `htonl_util`, `htonll_util` and the like are
the shifts of `net_utils.c` on such words. A request is the bytes its array is filled
with, an answer the bytes of a datagram put over what the buffer held before
(`Stale`), so that a field read behind a short answer reads something. The info hash
is taken from the third part of the link's hash by `sscanf`, pair by pair, over a
stack that held anything: of the bytes a short hash leaves as they were nothing is claimed.
`ReadsPeer` is the loop over the peers with its `while`. The address and the port of a
peer are read but only compared with 0.0.0.0: every session is made with 127.0.0.1:51413
(`LocalPeer`, `tracker_announce_packet.c:212`), the line that would use them being commented
out above it. `AnswersAsMeant` therefore says how many sessions there are, not with whom.

### PeerWire, ExtendedHandshake

`stream` is what the client has sent and the peer has not read: a handshake of 68
bytes and then messages after their length. Arrays are sent with their declared size
(`ArraySize`): a request is 31 bytes, whatever its text has. `Received(r)` of an
extended handshake is what one recv brought; `strstr` and `atoi` go on in what the
stack holds behind it. The two numbers decide how many pieces are asked for, and
under which extension.

### Bencode

A text is tokens: a character, or a number with all its digits. It is the encoding
of a value up to a cut, and then anything. A cursor is a `bencode_t`; `start`, `str`,
`len` are its fields. `stack` is the C stack, a frame for each call: one that reads
(`bencode_to_hashmap` and its loops over lists) or one that only looks for the end of a
value (`__iterate_to_next_string_pos`, which calls itself for what nests, mode `skip`).
The code looks for the end of a value first and reads the value then, so that what nests is
gone through once for every level above it; `Enter` starts the first, `Skipped` ends it
and starts the second, `Return` gives the value to the frame below. `PassLeaf` is a string
or an int, with its failures: NULL, and (`Aborts`) the asserts that end the process.
A map is the sequence of the calls of `hashmap->set` it took in (`With`): keys are cut at a NUL
(`CString`), and once the last slot is taken all later calls are refused, which nobody
notices (`Stored`). A get finds the head of the slot of its key (`HeadOf`) or nothing, and uses up
the stack behind a head with another key. What `Hashmap` has as chains is here what a
lookup and a destruction make of them; two keys in a slot (`Shares`) are freed twice.
`PrintFile` is the loop of `Peer_get_metadata` over the list of files, which may follow a NULL,
and may crash when it destroys the map of a file. The size of a file, a `long`, is read
through a pointer to `int` (`AsInt`). `MetadataIsRead` has two parts. What is decoded of a complete
text is what was sent, but for what maps and lists do not keep, whatever the keys are. That the
files are printed as sent and the process goes on is claimed of `ProperMetadata` only: a
little-endian host, maps whose keys have a slot each and hold no NUL, names without
one, sizes below 2^31. Of each premise but the host, the run has metadata that breaks it.
`dict_key[klen] = '\0'` (`bencode.c:42`) writes one byte past its array; that byte is on the stack
of the function and is left out.
`Encode` is what a peer sends, `Mapped` what `bencode_to_hashmap` keeps of a value;
both recur over `Contents`, a set that has with each value those inside it, none of them as
deep (`Depth`).

### Not modelled

Out-of-memory paths, failure of `pthread_create`, print functions and log lines are
left out everywhere. `hex_to_int8_t` and `rand_utils.c` are called by nobody; the building
of bencode text and the printing half of `bencode.c` neither. The macros of `debug.h`
and `macro.h` are the control flow of the functions that use them. `example.c` is a
demonstration. In `Torrent` the parse is one step, a link without `dn` or `xt` is left to
`Magnet`, and a session with a peer is one step, the subject of `Peer`. What the
compiler may make of the flag `running`, a plain int shared by threads, is left
out: every access of it is a step.

## 3. The runs

Passing runs. States are distinct states found by TLC.

| run | instance | states | shows |
|---|---|---|---|
| `tracker` | 1 tracker, 2 transaction ids, `MaxAttempts` 1 | 106,551 | retry budget, identity of answers, descriptors, exchanges end |
| `torrent` | links with no and with 2 trackers, 1 id, `MaxAttempts` 1 | 130,470 | order of the phases, count, release of sockets, main ends |
| `thread_pool` | 3 threads, 3 jobs | 14,781 | exclusion, jobs, freeing, refinement of `JobPool`, destroy ends |
| `linkedlist` | 3 nodes, 2 values, positions 0..4 | 13,072 | shape, ownership, refinement of `SeqList` |
| `peer` | metadata of 0 and 6 units in pieces of 3, unasked messages without end | 1,276,445 | framing, bounds, room for the metadata, silence, how a session may not end |
| `hashmap` | 2 slots, 3 keys of which 2 collide, 2 values | 2,468 | placement, counter, destruction, refinement of `FirstMap` |
| `magnet` | every link of up to 3 parameters of 14 forms, and of 4 of the 6 proper ones; names with every character encoded | 116,243 | what is parsed is what is written; a proper link parses |
| `wire` | both byte orders, 4 transaction ids, 3 connection ids, 8 hashes, up to 3 peers, 8 lengths of a refusal | 93,088 | requests and answers are read as they are meant |
| `peer_wire` | both byte orders, texts of two of three entries in any order, up to 12 pieces | 79,062 | messages keep their borders and their meaning; the numbers of a handshake |
| `bencode` | dictionaries two levels deep and 12 metadata of torrents in maps of 3 slots, cut anywhere, 5 tails | 224,888 | what is decoded is what was sent; decoding ends |

Each module has one type invariant more than its run lists (`TypeOK`,
`TorrentTypeOK`). TLC finds all of them to hold on the instances above, and all
of them are proved too.

Why the bounds are enough:

* *tracker*: two attempts per exchange make a retry, a late answer and the last
  attempt all happen; two transaction ids make both a repeated and a changed id
  happen. Trackers share nothing, and the theorems hold for any number of each.
* *torrent*: `AnswersWhileAwaited` lets a tracker answer once and only while the
  client waits for it. An answer sent before that wait is received in it, so this
  drops no behaviour of the loops, only repetitions `tracker` checks in full.
* *thread_pool*: two workers make every race of two, the third makes one that waits
  for both; jobs outnumbering workers is not needed since each is handled alone.
* *linkedlist*: with three nodes a list becomes empty and is filled again from freed
  memory; position 4 is beyond the longest list. `MaxChain`, 3, of *hashmap* holds two
  colliding keys and a repeated one.
* *peer*: the prefix has two units because a recv may cut it, a piece three, a
  dictionary one; the sizes are no metadata and two pieces. One message unasked under
  way (`MaxOther`) makes a segment that carries two messages, and, since it may be sent
  again whenever it was received, a peer that never stops. Metadata of one piece and a rest
  for which the array has room needs pieces of four units (`LeastOfOne` is seven of them);
  with sizes 1 and 7 TLC finds `MetadataFits` to hold in 330,333 states, but the run
  keeps to two pieces, and for other sizes the theorem stands. `TwoTo32` only has to
  be larger than every length.
* *magnet*: buffers of 8 symbols (`BufLen`) for 256: values and keys are shorter, just as
  long and longer. Three slots make names that collide with others and with each
  other. Three parameters have a first, a middle and a last, which differ.
* *wire*: a buffer of 32 bytes (`BufSize`) has room for two peers as 2048 have for 338,
  and a rest smaller than a peer in both; lists go one past it. Refusals are shorter
  than the words that are read, as long, and longer than the buffer.
* *peer_wire*: the text of a request grows a digit behind request 9, so 12 requests
  (`MaxPieces`) are three past that border. Numbers have no digit to ten.
* *bencode*: two entries give one to be kept and one to be lost by every cut; values
  two levels deep hold every kind in every kind. Three slots (`MapSlots`) hold "length",
  "path" and the rest, so that "name" and "n" collide with a key that is asked for, in
  front of it and behind it, and a map of three keys is full. `TwoTo32` is 4: a file of
  size 2 needs the sign bit of an int, one of size 5 more than an int has.

`CHECK_DEADLOCK FALSE` is set throughout: the client exits, the pool is destroyed,
the peer closes.

Two runs are expected to find a violation, each of one sentence of the repository that
the code contradicts:

| run | the text says | the code does |
|---|---|---|
| `no_tracker_no_error` | no tracker: throw an error (`torrent.c:246`) | `success` starts as 1 and is only or-ed (`torrent.c:250`) |
| `hashmap_get_lost` | get returns the value stored for the key (`hashmap.c:122-123`) | a bucket with another key calls the next one's function with itself, for ever (`bucket.c:141`) |

More such sentences are stated next to the properties of their modules. No run lists
them; give TLC the definition as an invariant of the module's configuration to see
the run that refutes it:

| definition | the text says | the code does |
|---|---|---|
| `Tracker.SuccessMeansAnswered` | announce asks the tracker and reports success (`tracker.c:201`) | success when skipped, out of attempts, or after any retry (`tracker.c:283`) |
| `Tracker.ConnectFailsQuietly` | connect fails quietly (`tracker.c:126`) | `exit(1)` for a host that does not resolve (`socket.c:155`) |
| `Linkedlist.OutOfBoundsIsThrown` | index out of bounds is thrown (`linkedlist.c:100`) | position `count` is let through and reads NULL; a tracker url without a port gets there (`tracker.c:76`) |
| `Hashmap.StoresValue` | set stores a value in a bucket if it exists (`hashmap.c:89`) | a second bucket is chained behind the first, and get finds the first (`bucket.c:101`) |
| `Magnet.ParseReturns` | parse returns success or not (`torrent.c:117-118`) | a link without `dn` or `xt` ends in `strlen(NULL)` (`torrent.c:209-217`), an address without a port in the list |
| `Bencode.StringsInBuffer` | the length is carried over so that the buffer is not exhausted (`bencode.c:105-107`), a string still fits (`bencode.c:420`) | the distance is taken from where the cursor stands, the length from where it started, so that `start + len` grows past the buffer (`bencode.c:114`) |
| `Peer.EveryPieceAsked` | each piece is requested, of `ceil(size / 16 kB)` (`testing/handshake/simMetadata.py:131-134`) | the number is rounded down (`peer_extended_handshake_packet.c:118`) |
| `ThreadPool.DestroyEnds` with `KillSeesExit = FALSE` | wait until the thread has exited (`thread.c:55`) | where `pthread_kill` keeps succeeding, waits for ever |

Seen while reading and not stated as properties: comments at `linkedlist.c:53` and `70`
speak of a count of -1 that starts as 0 (59); `Linkedlist_set` is never installed by
`Linkedlist_new`; the comment at `socket.c:132` says 30 seconds where the timeout is 1.

### Fairness

* *Tracker, Torrent*: weak fairness of the client's steps. The only place the client
  sleeps is `recvfrom`, which `SO_RCVTIMEO` of one second ends (`socket.c:132-135`);
  trackers and the network owe nothing. A session with a peer is not fair here:
  `MainEnds` and `ExchangesEnd` stop at it.
* *Peer*: weak fairness of the client's steps: recv and send return within 30 seconds
  (`socket.c:138-142`). The peer owes nothing. `SessionEnds` names the one loop that may not
  end and the two kinds of peer that keep the client there: one that has closed, and
  one that goes on sending.
* *ThreadPool*: weak fairness of each worker and of main inside a call; whether main
  ever calls is its choice, and a job's function is assumed to return. A mutex that
  is released infinitely often is given to each waiter only under `LocksAreFair`,
  which POSIX does not promise; it is a premise of `DestroyEnds` and of nothing else.
* *Bencode*: weak fairness of its steps: one thread, which computes and waits for
  nothing. `Magnet`, `Wire` and `PeerWire` state no liveness and no fairness.

## 4. The proofs

TLAPS proves, for every value of the constants:

* `Torrent_proofs`, on `Tracker` by itself: all eight safety properties of the run `tracker`, from
  `ConstantsAssumption` (transaction ids are numbers, `MaxAttempts` and `MaxPeers` are
  natural numbers). None is inductive alone. The inductive invariant `IInv` adds to
  the types: `CounterInv`, which ties the counter to the depth of the recursion and
  to `connected`; `SocketInv`, that each attempt has the descriptor it made and the
  last one is still open; `RequestInv` and `AttemptInv`, which requests have been sent
  at each point, one for each attempt so far; `AnswerInv`, that an answer is to
  a request that was sent, of the matching kind; `AcceptedInv`, when answers are
  accepted. `ConnectedGenuine`, `ConnectRejectedByTracker`, `AnnounceAnswered`,
  `AnnounceUsesIssuedId` and `GivesUpAfterBudget` are then each proved inductive
  relative to it. The heart of the argument: the descriptor of an attempt is new
  (`AnswerToConnect`), so what is received in a connect answers the last request.
* `Torrent_proofs`, on `Torrent`: type correctness, `AnnounceAfterConnects`,
  `ExitReleasesConnections` and `CountsConnected`, from
  `LinksAssumption` (a link is a list of distinct trackers). The inductive invariant
  `LoopInv` adds to the types that, while main connects, it has counted only trackers it
  has left behind; so `curr` stays on the list. Since `Torrent` takes the steps of its
  trackers from `Tracker`, the invariants of `Tracker` are invariants of it. On top of that, `HeldInv` (what a
  tracker keeps of the answers it took is on the socket in use) and `TourInv` (where the
  trackers in front of the loop, at it and behind it stand) give
  `AnnounceAfterConnects` and `ExitReleasesConnections`; `CountsConnected`, a statement
  about a cardinality, needs in addition that a tracker is counted once, which is
  where the distinctness in `LinksAssumption` is used.
* `ThreadPool_proofs`: type correctness, `ListExclusive`, `NoUseAfterFree`,
  `JobInOnePlace` and the refinement of `JobPool`, from `PoolAssumption`. The order
  of the invariants is the order of the argument: the mutex owner (`MutexInv`) makes
  a two-step pop atomic to everyone else; the life of the threads (`LifeInv`) shows
  that main frees a thread after it has exited and drains the list after all have;
  with both, every job is in one place (`JobInv`), and each step of the pool is a step
  of `JobPool` or none.

* `Peer_proofs`: type correctness, `ReadsInBounds`, `SilenceIsHarmless`, `FramingKept` and
  `MetadataFits`,
  from `PeerAssumption` (every length is below `TwoTo32`), for any sizes, any messages
  and any way TCP cuts the stream. `CountInv` ties `pos` and what is in `out` to
  `bytes_received`, which a failed recv takes down to -1 only where the conversion to
  unsigned ends the loop. `GreetInv` says how far a session with a silent peer gets.
  `FrameInv` has three parts: `StreamInv`, that messages lie in the stream whole and one
  after the other but for the first; `StartInv`, where the client stands before the handshake is read; `LoopInv`, that a
  client that lost no border is at the start of a message, or inside the one whose
  `length` it has read, with `out` its beginning. On top of it `PieceInv` bounds what was
  copied by a dictionary and a piece for each piece so far, and what remains is
  arithmetic: `n` dictionaries and pieces fit into `n` times the size of the metadata as
  soon as there are two pieces, or one and a rest longer than a dictionary.
* `Linkedlist_proofs`: type correctness, `WellFormed`, `OneOwner`, `FreedUntouched` and the
  refinement of `SeqList`, from `ListAssumption` (NULL is no node and no value), for any
  memory. The inductive invariant is `ListInv`: the types; `WalkInv`, where a walk of get or
  set stands; `ChainInv`, that the pointers spell `order`; `OwnerInv`, whose the nodes are,
  with the chain that destroy is still to free as its existential part.
* `Maps_proofs`, on `Hashmap`: type correctness, `Placed`, `FreedOnceIfAlone`, `SafeWithoutChains` and the
  refinement of `FirstMap`, from `MapAssumption`, for every hash function, number of
  slots and length of a chain. `MapInv` is the types, `Placed`, `FreeInv` (which slots
  the destruction has emptied, and what it freed of them) and `CrashInv` (a map that
  stopped the process has, or had, a chain).

* `Wire_proofs`: type correctness, `RequestsAreRead`, `AnswersAsMeant` and that nothing behind
  the receive buffer is ever read (`NeverBehindTheBuffer`), from `WireAssumption`: ids
  are words, the buffer has room for a header and a whole number of peers, and a hash
  says what it means (`SaysWhatItMeans`: each byte is written as two digits in the third
  part of the hash, small or capital; what else stands there is open). Three lemmas carry
  it: what is laid out one word behind the other is found again at its place (`Joined`,
  `Laid`, `Slice`); a conversion makes of a word what lies in memory with the most
  significant byte first, on a host of either order, the 64 bit ones included (`Converted`,
  `ConvertedLong`); and `sscanf` of two digits, small or capital, is the byte they are
  written for. `WireInv` says of each step what lies in the datagram and in the buffer: `RequestInv`, the
  fields of a request; `ConnectInv`, the id that was issued, or a refusal; `ListInv`, the
  peers that are laid out, how far the loop over them is, and that it has read nothing behind
  the datagram.
* `PeerWire_proofs`: type correctness, `NumbersAsSaid` and `HeardAsSaid`, from
  `PeerWireAssumption`: the hash has 20 bytes, at most 99 requests are followed, what lies
  on the stack ends with a NUL, and a text holds no NUL and no key twice. Two arguments,
  independent of each other. `NumbersAsSaid` is about `strstr` and `atoi` on a text that was
  cut and goes on with the stack: a key that was received is the one that is found
  (`Searched`), and the digits behind it, as long as a character that is none was received
  behind them, give the number that was said (`TakenAsSaid`). `HeardAsSaid` rests on `StreamInv`:
  there is a sequence of messages, those said, of which the first are those heard,
  and the stream is what is left of them, each behind its length, with the handshake
  in front until it is read. That a request fills its array exactly up to request 9 is
  `RequestTexts`; that the sizes sent and the lengths in front agree, `ExtensionIsFramed`
  and `PieceIsFramed`.
* `Magnet_proofs`: `GoodLinkParses` and `ParsedAsWritten`, for links of any length, any names,
  values and addresses in them, any size of the buffers and any hash function. The
  assumptions say what a link, a writing and an address are (`LinksAssumption`,
  `WritingsAssumption`, `AddressAssumption`): a name has no "=", a value no "&", what is
  written for a character is the character or its two digits, a part of an address has
  no colon. The inductive invariant is `ParseInv`. Its heart is `InScan(n)`: the scan is at
  a place of parameter `n` (`Here`), the list holds a tracker for each "tr" in front of it
  (`TrackersAre`), and each slot of the map holds, at its head, the first parameter in front
  of it that belongs there (`MapIs`). Behind the scan the invariant keeps the list and the
  map of the whole link until name and hash are copied; `Safe` adds, for a link that
  suits (`Suits`), that no chain is longer than one bucket. Four groups of lemmas carry it,
  each about one recursive function: where the parameters lie in the text (`TextLaid`);
  that splitting what was joined gives the parts (`SplitJoined`); that a text of the
  dictionary decodes to what it means (`DictionaryDecodes`, with `Nibbles` for
  `from_hex(c) << 4 | from_hex(d)`); and which values stand under "tr" (`TrackersRecur`).
  The type invariant holds whatever the link is: `Texts` adds to it that the buffers hold
  characters and that each tracker has a host and a port.

* `Maps_proofs`, on `Bencode`: `MetadataIsRead`, `EarlierEntriesKept` and type correctness, for
  dictionaries of any size and depth, strings of any characters, anything behind the
  cut, and a cut anywhere. The assumption, `ContentsAssumption`, says what a value is and
  that each nests less deep than the one it is in; of what lies behind
  the cut it says only that there is something (that a number there does not touch one
  in front of it is the text's: the two would be one number). `MachineAssumption` says that a
  map has slots and an int an even number of values; which key has which slot is open.
  It has three parts. First, what `Encode` and
  `Mapped` are: that a function which recurs over nested values exists is shown by the
  least depth at which it would not. Second, what the decoder finds
  at a place of a text that reads the encoding there (`Spelt`): where entry n begins
  (`Place`, `ValuePlace`), and what the loop conditions, the key and the end of a value
  come to. Third, the inductive invariant `DecoderInv`. Of
  the stack it says, whatever the text, which frames may stand on which (`Standing`). Of what has
  been read it says (`Content`): either every frame stands for a value of the dictionary that
  was sent (`Inside`), at its place in the text and behind some of its entries, with exactly
  what is to be kept of these, the next entry is ready to be read, and the frame above
  stands for that entry; or the decoding is past the cut (`Past`), and the frame at the
  bottom has all the entries that are whole (`HasWhole`). The proof that a step keeps it
  has one lemma for each action, inside and past the cut. `FilesInv` adds, for the loop of
  `Peer_get_metadata`, which of the files are printed. What a map holds is dealt with apart:
  that a call of set adds to what is stored, or nothing (`StoredIs`), so that pairs which agree
  up to a place are stored alike up to it (`StoredAgree`), and that a map whose keys have
  a slot each finds each of them (`SuitedFinds`).

Each inductive invariant was checked by TLC before it was proved, except where it says
that there is a sequence of any bytes (`StreamInv`), which TLC cannot enumerate: there
the property it implies was.

The provers take no induction, but what a recursive function computes can be
shown without one: if it failed somewhere there would be a least place where it fails, and
the library's theorem on minimal elements (`WFMin`) gives that place. `PeerWire_proofs` uses
this for the digits of a number (`Least`, `Summed`), `Magnet_proofs` and `Maps_proofs` for
all of their recursive functions (`Upward`, and `Recurs`: that a function which recurs from
one number to the next exists). No module but `MCBencode`, where TLC collects the
values it is given, declares a RECURSIVE operator.

Only model-checked: liveness (`ExchangesEnd`, `MainEnds`, `JobsAreRun`, `DestroyEnds`,
`SessionEnds`, `DecodingEnds`), which is beyond the prover, and the two violations of
section 3, which are runs of the code.

## 5. The plan

Done, in this order: `Tracker` and its proofs (the core of the client), `Torrent` on top of
it and its proofs, `ThreadPool` with `JobPool` and its proofs,
`Linkedlist` with `SeqList`, `Peer`, `Hashmap` with `FirstMap`; then the texts and the bytes
(`Magnet`, `StringUtils`, `ByteOrder`, `Wire`, `PeerWire`, `ExtendedHandshake`, `Bencode`), and
the proofs about `Torrent`'s order and count, `Peer`, `Linkedlist`, `Hashmap`, `Wire`,
`PeerWire`, `Magnet` and `Bencode`.

Next: `Torrent` with `Peer` in place of the single step `PeerSession`; only the end of the
process crosses that border today.
