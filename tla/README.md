# Furrent in TLA+

TLA+ modules, TLC models and TLAPS proofs for Furrent, a BitTorrent client in
C++ (`src/src/`). A window in the main thread adds and removes torrents; a pool
of worker threads downloads their pieces from peers and writes them to files.

## 1. The system

| Part | Source | State | Operations | What is hard about it |
|---|---|---|---|---|
| Shared queue | `mt/sharing_queue.*`, `policy/*` | list of tasks, skip flag, sleeping threads | `try_extract`, `insert`, `emplace`, `mutate`, `force_wakeup`, `wait_work`, `wait_empty`, `begin_skip_waiting` | notifications after the unlock, spurious wakeups, several waiters |
| Worker pool | `mt/group.*`, `furrent.cpp` | position and task of each worker, termination flag | `thread_main`, `terminate`, `alive` | tasks between queue and counter, the retry loop, shutdown |
| Torrents | `furrent.*`, `torrent.*` | map of torrents: state, counter, scores | `add_torrent`, `remove_torrent`, `get_gui_data` | shared and unique lock, relaxed atomics, test-then-set of the state |
| Pieces | `torrent.cpp` | position in the files | `Torrent::pieces` | two nested loops over files and pieces, short last piece |
| Storage | `furrent.cpp`, `platform/io.cpp` | contents of files | `PieceTask::save`, `write_bytes` | concurrent writers, partial writes, retries |
| Preparing files | `furrent.cpp`, `platform/io.cpp` | folders and files | `prepare_torrent_files`, `touch`, `create_directories`, `remove` | name clashes, failures half-way, a killed process |
| Downloader | `download/downloader.*` | connection, choke state, bitfield, counters, buffer | `ensure_connected`, `handshake`, `try_download`, `recv_message`, `send_message` | pipelined requests, chokes that cross them, reuse of connections |
| Socket | `download/socket.*` | open flag, scheduled operation | `connect`, `read`, `write`, `run`, `close` | a timeout racing a late completion |
| Messages | `download/message.*`, `download/util.*` | byte stream | `encode`, `decode`, framing in `recv_message` | cutting a stream by lengths it carries |
| Bitfield | `download/bitfield.*` | bytes | `set`, `get` | bit arithmetic |
| Bencode | `bencode/*` | index into the text | `decode*`, `encode` | recursive descent, reads behind the end, exceptions of `std::stol` |
| Torrent file | `torrent.cpp`, `hash.cpp` | descriptor | `TorrentFile::TorrentFile`, `split_piece_hashes` | the info hash comes from a new encoding of what was parsed |
| Tracker client | `peer.*`, `torrent.cpp` | list of peers | `announce`, `parse_tracker_response`, `Torrent::announce` | iterator arithmetic, answers that are not a compact list |
| Window | `gui/*`, `main.cpp` | list of torrents, two dialogs | `run`, `render_*`, the functions of `main` | buttons behind an open dialog, refreshing while workers go on |
| SHA-1, logger, utilities | `hash.*`, `log/*`, `util/*` | - | - | not modelled (computation, output) |

Interactions: the window calls `Furrent` from the main thread only. `add_torrent`
prepares the files, announces the torrent and queues a task per piece while it
holds the unique lock. A worker extracts a task, copies the peers under the
shared lock, runs `PieceTask::process` (a `Downloader` over a `Socket`, then
`save`) until it succeeds, and updates the torrent under the shared lock. The
destructor sets the skip flag of the queue, the termination flag, and joins.

## 2. The modules

| Module | Models | Variables | Actions |
|---|---|---|---|
| `SharedQueue` | queue and policies | `work`, `next_ticket`, `skip_waiting`, `call` | one per critical section, one per notification, `RecheckWork`/`RecheckEmpty`, `SpuriousWake` |
| `Furrent` | workers and main thread over an `INSTANCE` of `SharedQueue` | the queue, `torrents`, `processed`, `scores`, `next_uid`, `terminating`, locals of `thread_main` (`wpc`, `task`, `peer`, `seen`) and of the main thread (`mpc`, `cur`, `emplaced`, `loaded`, `shown`); history: `saved`, `counted`, `removed` | one per atomic step of the code between two lock operations or atomics |
| `Torrents` | abstract life cycle of a torrent | status and finished pieces | `Fail`, `Start`, `FinishPiece`, `Complete`, `DecideStop`, `Stop` |
| `FurrentRefines` | the refinement mapping from `Furrent` to `Torrents` | | |
| `Window` | frames of the window over an `INSTANCE` of `Torrents` | the list, the refresh, the dialogs, the state of `Torrents`; history: `confirmed` | one per call the frame makes, `Tick` (30 ms), `Workers` |
| `Pieces` | `Torrent::pieces` | its locals | one per iteration and branch |
| `Storage` (extends `Pieces`) | `save`, `write_bytes`, `touch` | `disk`, `saving`, `saved`; history: `lost` | the steps of `Pieces`, then `BeginSave`, `WriteSubpiece`, `WriteFails`, `FlushFails`, `EndSave` |
| `PrepareFiles` | `prepare_torrent_files` | `folders`, `phase`, `attempts`, `touched`, `prepared` | one per call of the file system, its failure, `Restart` |
| `Socket` | `Socket` over asio | `open`, `connecting`, `op`, `code`, `parts`, `ec`, `phase` | the methods, the system, `Expire`, `CloseExpired` |
| `Bitfield` | `Bitfield` as operators over bytes | | |
| `Downloader` (extends `Bitfield`) | `Downloader` and a peer | the members, the locals of `try_download`, `inbox`, `outbox`, the peer; history: `dropped`, `spoilt`, `strays`, `missed` | one per socket operation and message handled; the peer's |
| `Message` | messages, wire format, framing | `sent`, `stream`, `header`, `received`, `connected` | `Send`, `SendFrame`, `ReadLength`, `ReadRest` |
| `Bencode` | the parser, as a function of the method called and the index; `to_string`, as operators; the grammar `Denoted` | | |
| `Adding` (extends `Bencode`) | `add_torrent` from the text of the file to the peers | `stage`, `file`, `tree`, `descriptor`, `answer`, `peers`, `scores`, `interval`, `state`, `result` | `Load`, `Parse`, `Describe`, `Prepare`, `Announce`, `Check` |

`MCx` modules give constants their values, `MCx*.cfg` are the runs.
The proofs are in `SharedQueue_proofs`, `Furrent_proofs`, `Window_proofs`,
`Downloader_proofs`, `Connection_proofs` (`Socket` and `Message`), `Disk_proofs`
(`Storage` and `PrepareFiles`), `Bencode_proofs` and `Adding_proofs`. Where two
modules share a module of proofs, the second one's `Init`, `Next` and `Spec` carry
its name (`SocketSpec`, `PrepareSpec`).

Conventions. A critical section of a mutex is one step; everything that happens
outside one (notifications, atomics, calls of the system) is a step of its own.
`std::list` is represented by the set of its nodes with increasing tickets,
since it only grows at its end. Relaxed atomics are modelled as sequentially
consistent. For one atomic alone this loses nothing: every write to the counters
and to the state of a running torrent is a read-modify-write. `GuiPairConsistent`
compares two atomics: it relies on the order in which `get_gui_data` loads them
and on the worker's relaxed `fetch_add` being visible before its relaxed
`exchange`, as on x86, where both are locked instructions; the C++ memory model
by itself does not order them.

Each module holds a few operators marked "Fault": variants of the operator
that follows them, with a plausible mistake. They are not used by any
specification; they serve to show that each property fails when the code is
wrong.

`Furrent` abstracts `process` to success (the piece is on disk) or failure, in
any order and number; what lies behind is in `Downloader`, `Socket`, `Message`
and `Storage`. `Downloader` takes an operation of `Socket` as one step with the
outcomes that `Socket` shows to be possible: done, done too late (the socket is
then closed), timed out, failed. In asio a `connect` that succeeds on a socket
closed meanwhile ends with `operation_aborted` (`asio/impl/connect.hpp`), a read
or write does not (`RunCallback`). `write_bytes` reports success while bytes may
still be in the buffer of the stream, and nobody learns of it when its destructor
cannot write them (`FlushFails`); `lost` remembers the pieces concerned.
`BeginSave` of `Storage` assumes that a piece is with one worker at a time, which
is `NoDuplicateWork` of `Furrent`.

The peer of `Downloader` answers requests in any order, with good or bad bytes,
forgets them when it chokes us, may be silent or talk for ever, and may send
blocks that it was not asked for (`PeerStrays`), of the last piece asked for or
again of an earlier one. `try_download` tests neither the index nor the place of a
block: one beyond the buffer leads to the phase `undefined` (`Overruns`), from
which the call does not go on, because what the program does then is not
defined. What the peer says of its pieces is true; indices outside of the torrent
are not modelled.

`Furrent` takes the outcome of `add_torrent` (failed, no peers, started) as a
choice; `Adding` shows which file and which answer leads to which. `Window`
uses of the worker pool what `Torrents` promises: that the threads keep the
promise is the refinement, so both are checked apart from each other.

In `Bencode` a text is a sequence of characters, and the names of the keys
(`announce`, `piece length`, ...) count as one character each, because nothing
looks into them. The parser is recursive: its methods call each other. It is
written as a recursive function whose argument is the method and the index
(`Parser`); the rest of a loop over items or pairs is a call of its own
(`DecodeItems`, `DecodePairs`), which makes the same values and the same errors in
the same order as the loop. The grammar is a recursive function in the same way,
over the parts of the text. A read behind the end of the text gives a character of the set
`Beyond`, except directly behind it, where `std::string` holds a zero. An
exception ends the program (stage `ended`): neither `Furrent` nor `main` catches
one. The build sets `-funsigned-char` (`src/CMakeLists.txt`), so an octet of an
address is never negative.

## 3. The runs

Passing runs:

| Run | Instance | Shows |
|---|---|---|
| `queue` | 3 threads, 2 work values, 3 insertions, fair threads | no wakeup is lost although notifications come after the unlock; work and `begin_skip_waiting` release it |
| `furrent` | 2 workers, 2 torrents (2 and 1 pieces), 1 peer | no piece is lost or done twice; counters, states and disk agree; the GUI never reads `Completed` with pieces missing; implements `Torrents`; only a worker that fails for ever keeps a download from settling and the destructor from returning |
| `storage` | torrents of one file of up to 5 bytes, and of up to 3 files of up to 3 bytes, 5 together, with at most 3 pieces; pieces of up to 5 bytes; any value behind the last file; 2 workers, writes and flushes failing after any number of bytes | `Torrent::pieces` returns, and the subpieces of a piece cover exactly its bytes; in a torrent of one file saved pieces are on disk, unless their own flush failed, nothing is misplaced and sizes are kept |
| `prepare` | three torrents (two of one name), up to seven folders left from before, four additions, failures and kills anywhere | folders are not shared, prepared files stay, cleanup removes only what the call made |
| `socket` | operations of up to four parts | no callback is left behind, a late operation leaves a closed socket, OK means complete, a late connect is a timeout |
| `downloader` | 2 pieces of 5 and 3 bytes, blocks of 2, pipeline of 2, bytes of 2 bits; the peer talks without end and sends up to one block per connection that it was not asked for | until such a block arrives on the connection requests are accounted for, kept connections are clean, blocks fit, and only corrupt bytes make a corrupt piece; the bitfield is right but for the `Have`s that are dropped; only a peer that talks for ever can hold a call |
| `message` | every kind of message and some frames that are none, bytes of 16 values, two per stream | messages arrive as sent |
| `adding` | 42 torrents of one and two files; all texts of up to three of nine fragments, by themselves and inside a list, a dictionary and one that is not closed; lists of up to three peers, and other answers, a refusal and a list of dictionaries among them; three statuses | the parser accepts exactly the grammar; encoding gives the text back; the descriptor is what the file says; a torrent starts exactly if it has peers; each peer is one of the tracker's |
| `window` | 2 torrents (2 and 1 pieces) | the list is exact whatever is pressed; what it shows only goes forward; a completed torrent is shown as completed |

Runs that end in a violation. Each checks what a comment of the repository says
and shows that the code does otherwise:

| Run | The comment | The code |
|---|---|---|
| `storage_files` | `torrent.hpp:63` "a subsection of a Piece" | `save` writes the whole piece at the offset of every subpiece |
| `prepare_cleanup` | `furrent.cpp:295` "Remove created content" | `touch` fails at the file of an earlier download in the tenth copy, and the cleanup removes that download |
| `adding_peers` | `peer.hpp:42` "The list of peers that we can download the file from" | every second peer of the answer is skipped |

The modules follow the code in other places where a comment or a name says
something else. No run is spent on these; the definition named shows it:

* The loop that retries a piece (`furrent.cpp:193`) does not look at `alive`
  (`ProcessFails` goes back to `PickPeer`): while a piece fails for ever
  (`RetriesForever`) the destructor waits, although `group.hpp:54` says "Stops and
  joins all threads".
* `FIFOPolicy` takes the newest item and `LIFOPolicy` the oldest (`Picks`).
* `mutate` and `begin_skip_waiting` notify the threads in `wait_work` only
  (`NotifyWork`), not "all sleeping threads" (`sharing_queue.hpp:63`).
* `remove_torrent` leaves the tasks that workers hold (`RemoveTasks`), although
  `furrent.hpp:105` says "all of his tasks".
* `attempts > MAX_COPY_ATTEMPTS` is never true (`Probe`), so a torrent may be
  prepared in the tenth copy of another one.
* A `Have` that comes before the first `Unchoke` is dropped (`AwaitUnchoke`); the
  piece stays hidden as long as the connection lasts (`missed` in
  `BitfieldIsCurrent`).
* A refusal of the tracker (`failure reason`), or a list of peers that is not
  compact, ends the program (`AddedIffServed`).
* The error for an unexpected payload is made but not returned (`DecodeSimple`).

### Bounds

* `SharedQueue`: three threads are enough for a waiter, a second waiter and a
  notifier whose step lies between unlock and notification. `MaxInserts` bounds
  the number of insertions.
* `Furrent`: two workers are the smallest pool in which the last two pieces
  race; two torrents let a removal and an addition overlap with a download;
  `MaxTorrents` bounds the additions, the only bound there is: calls of the GUI
  and retries are unlimited. The theorems hold for every `MaxTorrents`.
* `Pieces`, `Storage`: these lengths contain files shorter than a piece, equal
  to one and longer, and pieces over three files. The limit of three pieces for
  several files keeps the orders of their writes few, and so does `MaxTotal`, the
  bytes of several files together.
* `PrepareFiles`: `MAX_COPY_ATTEMPTS` is 10 as in the code. `MaxLeft` (folders
  left from before) is 7 and `MaxAdds` 4 in the passing run, so the eleven names
  are just not used up; the violation run has all eleven in use, and one addition.
* `Downloader`: two blocks in the pipeline and three in the piece make it fill,
  drain and refill; the last piece and its last block are shorter.
  A block of the longer piece that comes during a call for the shorter one does
  not fit. `MaxUnderWay` bounds what is under way when the peer sends something by
  itself, not how often it does; `MaxStrays` the blocks per connection that were
  not asked for. With bytes of two bits the two pieces are one full byte; the
  theorem is about bitfields of any length.
* `Message`: a byte has 16 values instead of 256, so four bytes still carry.
  `CHECK_DEADLOCK FALSE`, because a sender may stop at any time.
* `Adding`: the fragments contain every token of the grammar but one (`d`, which
  the frames add), leading zeros, `-0`, lengths that are too long and keys that
  descend or are equal. `LongMax` is 99, so lengths and integers of three digits
  are too large; `IntMax` is 31; a hash has two characters. Torrents whose piece
  length does not fit into an `int` are excluded (`MetainfosAssumption`). `Encode`
  is unfolded for values nested up to six deep: the tree of a torrent of several
  files is six deep, and no other text of the run is deeper.
* `Window`: two torrents are the fewest of which the wrong one can be erased or
  refreshed. `MaxTorrents` bounds the insertions; frames are unlimited.
  `CHECK_DEADLOCK FALSE`, because the user may close the window.

### Fairness

* Threads of the queue and workers: weak fairness of each thread's next step
  (a thread that can run is scheduled), and of a woken thread taking the mutex.
  None for spurious wakeups, for the user, or for failures.
* `Furrent`: nothing is assumed of the peers. The liveness properties say instead
  what happens otherwise: `DownloadsSettle` and `ShutdownEnds` hold, or some worker
  fails infinitely often (`RetriesForever`).
* `Socket`: weak fairness of the steps of a method: time passes, the runtime
  runs what is queued. Nothing is assumed of the peer.
* `Downloader`: weak fairness of the steps of a call, each of which is a socket
  operation that ends, in time or not (`MethodsReturn` of `Socket`). Nothing is
  assumed of the peer: `CallsReturn` says that calls return, or the peer talks
  infinitely often (`TalksForever`).
* `Pieces`: weak fairness of the loop; `Message`: of the reader.
* `Window`: weak fairness of the loop of frames, whose calls return, and of the
  clock. None of the workers, and none of what the user presses.

## 4. The proofs

All theorems hold for every value of the constants: any number of threads,
workers, torrents, pieces, peers, files, blocks and bytes. They use only the
assumptions stated in the modules that declare the constants:

* there is at least one worker, and a torrent has at least one piece;
* a torrent has at least one file and no empty file (`touch` throws at an empty
  one), and pieces have a length of at least one;
* lengths, block size, pipeline and byte size of the downloader are positive;
* the identifiers of messages fit into a byte, and the numbers and lengths in a
  message into four (`encode_integer` throws at others);
* the marks `d`, `e`, `i` and `l` are characters (`MarksAssumption`), the
  characters that stand for names are in the order of the names
  (`NamesAssumption`), and texts are no longer than a `long` can count;
* a `.torrent` file is the text of a torrent whose numbers fit into their types and
  that has a hash for each piece (`IsMetainfo`), or it is junk: a text that denotes
  nothing a `TorrentFile` can be made of. A response of a tracker has six octets
  for each peer; anything else is noise, of which nothing is assumed.

`PrepareFiles` has one hypothesis more, stated in its theorems (below).

| Module | Inductive invariant | Theorems about properties of runs |
|---|---|---|
| `SharedQueue_proofs` | `TypeOK`, `NoLostWakeup` | `NoLostWakeup` |
| `Furrent_proofs` | `IInv` | `NoDuplicateWork`, `NoPieceLost`, `CountIsExact`, `CompletedMeansSaved`, `LastPieceCompletes`, `WorkersSeeStarted`, `GuiPairConsistent`, `ImplementsTorrents` |
| `Connection_proofs` | `SocketInv` | `NothingLeftBehind`, `TimeoutCloses`, `OKMeansComplete` |
| | `StreamInv` | `StreamFaithful` |
| `Downloader_proofs` | `DownloaderInv` | `RequestsAccounted`, `ConnectionIsClean`, `BlocksFit`, `BitfieldIsCurrent`, `CorruptIsThePeers` |
| `Disk_proofs` | `StorageInv` | `PiecesCoverFiles`, `SingleFileSaved`, `SingleFileIntact` |
| | `PrepareInv` | `FoldersDistinct`, `FilesStay`, `RemovesOnlyCreated` |
| `Adding_proofs` | `AddInv` | `DecodesGrammar`, `DescriptorFaithful`, `AddedIffServed`, `PeersAreListed` |
| `Window_proofs` | `WindowInv` | `ListIsExact`, `ShownOnlyGrows` |

**Queue.** A thread asleep in `wait_work` while the predicate is true implies
that some thread still has to notify; with the types this is inductive.

**Worker pool.** `Furrent_proofs` shows first that every step of `Furrent` is a
step of the queue or leaves it alone, then, one lemma per action, that it keeps
the types and the inductive invariant (`TypeOK` and `Core`). `Invariance` puts
these together; from it follow the invariants of the run `furrent` one by one,
and one more that no run checks, `RemovedNotQueued`. `WorkersAreNotified` shows
that `Furrent` uses the queue only through its specification, so that what is
proved of the queue holds inside `Furrent`. `CountIsExact` alone is not
inductive: that `fetch_add` counts a new piece needs that a held task is not
counted yet (`NoDuplicateWork`), which needs that tasks in the queue are not
held, which needs that the tasks `add_torrent` has still to emplace are not there
yet (`TasksBorn`). That a `Completed` torrent is saved needs that the worker that
saw the full count saw the current count (`SeenSound`), and that every counted
piece is saved (`TasksSaved`). `NoPieceLost` starts to hold when the state
becomes `Downloading`, so it needs the statement about the torrent being loaded
(`NoTaskLostLoading`). `WorkersSeeStarted` follows from the unique lock held
while the state is `Loading` (`EntriesSound`).

**Refinement.** `Refinement` in `Furrent_proofs`: the initial states map to the
initial state of `Torrents`, and every step maps to a step of it or to a stutter.
Counting a piece is `FinishPiece`; it makes its worker the one that completes the
torrent exactly if the count is full, which is a statement about the cardinality
of the counted tasks (`FinishedIsCounted`). The exchange of the state is
`Complete`: of the workers between counter and state only one has seen the full
count, by `SeenSound`. A removal is two steps, `DecideStop` and `Stop`, so that a
completion between them is allowed, as in the code.

**Socket.** The strengthening ties the code of the last callback to what is left
of the operation (`CallbackSound`) and the expired time to the phases of `run`
(`ExpirySound`).

**Downloader.** `DownloaderInv` has two parts. What concerns the requests (`Books`)
holds as long as the peer has sent no block on the connection that it was not
asked for (`strays = 0`): such a block is counted like an answer, and from then on
the counters mean nothing; with the next connection they do again. The rest, the
bitfield among it, holds for every peer. The counters say how many blocks are
under way, but not which.
`RequestsSound` says it: the outbox is the run of the last requests in the order
of the blocks, what the peer has taken are requests for earlier blocks, and what
it has answered are such requests too. From that every block that arrives fits
the buffer. `BlocksSound` says that each block requested is under way or in
its place in the buffer, unless the peer sent corrupt bytes or dropped a request;
when the last block arrives nothing is under way, so the piece is whole. The
bitfield is proved on the bytes: `BitfieldSound` keeps the storage as long as the
number of pieces needs, so `set` and `get` of different pieces touch different
bits (`Bitfield` takes a byte as the set of its bits). That it hides only what was
`missed` or is being told needs to know that, until it is read, the bitfield is
the first message under way, and that the peer has told of what it got after
writing it (`GreetingSound`).

**Messages.** That `decode` inverts `encode` is a lemma for each kind of message
(`MessageInverse`), and rests on `decode_integer` inverting `encode_integer`
(`IntegerInverse`). The stream needs more: `StreamSound` says that there are
places at which the bytes under way, the length already read included, can be
cut into the bytes of what was sent and not yet received. The places are given
by a function (`IsCut`) instead of a concatenation over all messages, so that
sending adds a place (`CutExtends`) and receiving drops the first
(`CutShortens`), and no induction along the stream is needed.

**Preparing files.** The theorems have the hypothesis `NamesSuffice`
(`MaxLeft + MaxAdds <= MAX_COPY_ATTEMPTS + 1`): the copies left from earlier
sessions and the additions of this one do not use up the eleven names. It is not
idle: the run `prepare_cleanup` violates `RemovesOnlyCreated` without it.
`NamesBounded` counts the names in use, so that the search stops at a name that
is free; `OwnFolder` says that all that is in the folder of the current call was
made by it, which is why its cleanup harms nobody.

**Pieces and storage.** `InStep` relates the two positions of the loops of
`Torrent::pieces`, the one in the pieces and the one in the files, so that the
subpieces cut so far cover what the loops have passed (`CutSoFar`); what is read
behind the last file is never used, since the loops leave it only with the last
piece. The position of a file in the torrent (`Starts`) is a recursive function;
that it grows along the files is proved by taking the least file at which it
would not. For a torrent of one file each piece is one subpiece (`OneFileCut`),
and all writes, complete or not, put right bytes in their places, so several
workers do no harm (`OneFileStored`); a flush that fails leaves only its own
piece, which is then in `lost`, without its bytes. For several files this is
false, as the run `storage_files` shows.

**Window.** `ListSound` relates the list to the torrents of the pool during each
call of a frame, the one between an erasure in the pool and in the list
included; `Ascending` gives that an identifier occurs once, so that erasing it
erases one entry (`Kept`); `LoadedSound` says that a status loaded before the
count is still true when both are shown.

**Bencode.** `DecodeRight` in `Bencode_proofs` says of every text, and of anything
that may be in memory behind it: if the parser accepts, the text denotes the value
it made and no other; if not, the text denotes nothing, or it is the empty string
`0:` by itself, which `decode_string` refuses for being shorter than three
characters. The library's induction theorems cannot be instantiated here, so
induction is done on sets: the set of lengths for which a claim fails would have a
least member (`LeastOf`, from `WFMin`). In this way `Parser` and `Grammar` are
shown to satisfy their recursive equations (`ParserEquation`, `DenotedAs`): the
parser because every call that it makes is further on in the text, the grammar
because every part is shorter. The main argument goes from the end of the text to
its beginning: a call at `i` is right if all calls behind `i` are
(`RightStep`). For each token it needs both directions: what the parser reads is
in the grammar, and a beginning of the text that is in the grammar is what the
parser reads (`ValueRight`). Lemmas that serve only one other lemma
are steps of its proof, under the name they would have.

**Adding a torrent.** First the texts that .torrent files and trackers write are
shown to denote the trees one expects. `NumeralRight` (`std::stol` inverts
`std::to_string`), `StandsString`, `StandsInteger`, `StandsList` and `StandsDict`,
which speak of any text and are in `Bencode_proofs`, lead to `TorrentTreeFacts` and `AnswerTreeFacts`; with `DecodeRight` the tree is
what the parser makes (`FileDecoded`). `TorrentRead` then follows the constructor of
`TorrentFile` over this tree: every lookup succeeds, the sum of the lengths and the
number of pieces agree, the string of hashes is cut where it was joined
(`HashesSplit`), and the new encoding of the info dictionary is the text that was
read (`InfoEncoded`). The last one needs that the keys of the file are in order,
so that the order of `std::map` gives them back (`SortedIs` in `Bencode_proofs`). For the
peers, `AddressRead` shows that shifting octets into a number and out again loses
nothing. `AddInv` says for each stage of `add_torrent` what is known of the tree,
the answer and the peers; the properties of the run hold in the last stages only
because the tree was right in the stage `describe` and the file well formed if the
tracker was ever asked.

Every inductive invariant was checked with TLC on the instance of the run before
it was proved.

Only model-checked:

* all liveness properties, which are out of the prover's reach;
* `EncodesShortest`: it speaks of values of any depth, and needs an induction over
  values and a definition of `Encode` that is not bounded. What the program relies
  on, that the info dictionary is given back character by character, is proved
  (`DescriptorFaithful`).

## 5. What is not modelled

* The branch of `thread_main` for `Paused` (no code sets that state),
  `set_download_folder`, and log output.
* Exceptions of two places: indices out of range in `Bitfield` and numbers of
  more than four bytes in `encode_integer`. Those of parsing a torrent file and
  an answer are in `Adding`; the one that `touch` throws at an empty file is a
  `Touch` followed by `Restart` in `PrepareFiles`.
* Code without a caller in the program: `Bitfield::unset`, and the constructor
  of `Peer` from a string.
* Time: a timeout may happen at any moment, an operation may take as long as it
  wants. A blocking announcement under the unique lock is one step.
* Reads of a file between a write and its flush: bytes are in the file as soon as
  they are written, unless the flush fails (`FlushFails`).
* SHA-1: `Adding` keeps the text that is hashed, `Downloader` compares the piece
  with its true content.
* The HTTP request of `announce` and the handshake with a peer are their outcomes.
* `ThreadGroup::launch`: the set of workers is a constant. The number of hardware
  threads, which may be reported as 0, is outside of the model.
* Drawing, styles and the scroll position of the window; logging.
