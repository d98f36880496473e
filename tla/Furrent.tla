------------------------------ MODULE Furrent ------------------------------
(***************************************************************************)
(* class Furrent: the main (GUI) thread adds, removes and shows torrents;  *)
(* worker threads take piece tasks from a SharedQueue, download and save   *)
(* the pieces, and account for them in _torrents, which a shared_mutex     *)
(* guards.  The destructor stops the workers and joins them.               *)
(*                                                                         *)
(* Steps of different threads interleave wherever the code is not inside   *)
(* one critical section of the queue or one atomic operation.  A lock is   *)
(* taken together with the first access made under it, and released with   *)
(* the last.                                                               *)
(***************************************************************************)
EXTENDS Integers, FiniteSets

CONSTANTS
  Workers,       \* threads of _workers
  Main,          \* the thread that runs the window and owns Furrent
  MaxTorrents,   \* bound on the calls of add_torrent
  PiecesCount,   \* descriptor().pieces_count of each torrent
  Peers,         \* the peers a tracker answers with
  None           \* no task, no peer, nothing loaded

TID == 0 .. (MaxTorrents - 1)

PiecesOf(t) == 0 .. (PiecesCount[t] - 1)

\* PieceTask, reduced to the torrent and the index of the piece.
TasksOf(t) == {[tid |-> t, piece |-> p] : p \in PiecesOf(t)}

Tasks == UNION {TasksOf(t) : t \in TID}

ASSUME ConstantsAssumption ==
  /\ Workers # {}
  /\ Main \notin Workers
  /\ MaxTorrents \in Nat
  /\ PiecesCount \in [TID -> Nat \ {0}]
  /\ Peers # {}
  /\ None \notin Tasks \cup Peers

VARIABLES
  work, next_ticket, skip_waiting, call,   \* _tasks
  torrents,      \* state of each entry of _torrents, "Absent" without entry
  processed,     \* pieces_processed of each torrent
  scores,        \* _peers_score of each torrent
  next_uid,      \* _descriptor_next_uid
  terminating,   \* _workers._should_terminate
  wpc,           \* where each worker is in thread_main
  task,          \* the local task of each worker
  peer,          \* the peer of the current attempt of each worker
  seen,          \* the local "processed" of each worker
  mpc,           \* what the main thread is doing
  cur,           \* the torrent that call is about
  emplaced,      \* number of tasks add_torrent has emplaced
  loaded,        \* the state remove_torrent or get_gui_data has loaded
  shown,         \* the pieces_processed get_gui_data has loaded
  saved,         \* the tasks whose piece has been written to its files
  counted,       \* history: the tasks counted in processed
  removed        \* history: the torrents remove_torrent was called for

queueVars == <<work, next_ticket, skip_waiting, call>>
torrentVars == <<torrents, processed, scores>>
workerVars == <<wpc, task, peer, seen>>
mainVars == <<next_uid, mpc, cur, emplaced, loaded, shown, removed>>
diskVars == <<saved, counted>>
vars == <<queueVars, torrentVars, workerVars, mainVars, diskVars, terminating>>

Q == INSTANCE SharedQueue WITH Threads <- Workers \cup {Main}, Work <- Tasks

\* TorrentState, with "Absent" for an id that is not in _torrents.
TorrentStates ==
  {"Absent", "Loading", "Downloading", "Paused", "Completed", "Stopped",
   "Error"}

WorkerPCs ==
  {"alive", "extract", "wait", "snapshot", "pick", "process", "score",
   "count", "complete", "exited"}

MainPCs ==
  {"idle", "add_lock", "add_emplace", "remove_load", "remove_store",
   "gui_count", "gui_return", "terminate", "join", "done"}

Init ==
  /\ Q!QueueInit
  /\ torrents = [t \in TID |-> "Absent"]
  /\ processed = [t \in TID |-> 0]
  /\ scores = [t \in TID |-> [p \in Peers |-> 0]]
  /\ next_uid = 0
  /\ terminating = FALSE
  /\ wpc = [w \in Workers |-> "alive"]
  /\ task = [w \in Workers |-> None]
  /\ peer = [w \in Workers |-> None]
  /\ seen = [w \in Workers |-> 0]
  /\ mpc = "idle"
  /\ cur = 0
  /\ emplaced = 0
  /\ loaded = None
  /\ shown = 0
  /\ saved = {}
  /\ counted = {}
  /\ removed = {}

-----------------------------------------------------------------------------
(* std::shared_mutex _mtx *)

\* add_torrent holds the unique lock while it emplaces the tasks.
UniqueHeld == mpc = "add_emplace"

\* Workers that hold the shared lock from one step to the next.
SharedHeld == \E w \in Workers : wpc[w] \in {"count", "complete"}

-----------------------------------------------------------------------------
(* thread_main *)

\* A worker makes a step of its own only when no call of the queue keeps it.
At(w, pc) == wpc[w] = pc /\ call[w] = "none"

GoesTo(w, pc) == wpc' = [wpc EXCEPT ![w] = pc]

\* while (runner.alive())
CheckAlive(w) ==
  /\ At(w, "alive")
  /\ GoesTo(w, IF terminating THEN "exited" ELSE "extract")
  /\ UNCHANGED <<queueVars, torrentVars, task, peer, seen, mainVars, diskVars,
                 terminating>>

\* Fault: the task is copied but stays in the queue.
ExtractCopy(w) ==
  /\ At(w, "extract")
  /\ \E n \in work :
       /\ Q!Picks("LIFO", n)
       /\ task' = [task EXCEPT ![w] = n.item]
  /\ GoesTo(w, "snapshot")
  /\ UNCHANGED <<queueVars, torrentVars, peer, seen, mainVars, diskVars,
                 terminating>>

\* try_extract with the LIFOPolicy gives a task.
Extract(w) ==
  /\ At(w, "extract")
  /\ \E n \in work :
       /\ Q!TryExtract(w, "LIFO", n)
       /\ task' = [task EXCEPT ![w] = n.item]
  /\ GoesTo(w, "snapshot")
  /\ UNCHANGED <<torrentVars, peer, seen, mainVars, diskVars, terminating>>

\* try_extract gives Error::Empty.
ExtractNothing(w) ==
  /\ At(w, "extract")
  /\ Q!TryExtractEmpty(w)
  /\ GoesTo(w, "wait")
  /\ UNCHANGED <<torrentVars, task, peer, seen, mainVars, diskVars,
                 terminating>>

\* The wait_work after a failed extraction; the loop goes on once it returns.
WaitForWork(w) ==
  /\ At(w, "wait")
  /\ Q!WaitWork(w)
  /\ GoesTo(w, "alive")
  /\ UNCHANGED <<torrentVars, task, peer, seen, mainVars, diskVars,
                 terminating>>

\* Fault: no lock.
SnapshotUnlocked(w) ==
  /\ At(w, "snapshot")
  /\ GoesTo(w, "pick")
  /\ UNCHANGED <<queueVars, torrentVars, task, peer, seen, mainVars, diskVars,
                 terminating>>

\* Under a shared lock: a paused torrent gets its task back into the queue,
\* of any other one the peers are copied.
Snapshot(w) ==
  /\ At(w, "snapshot")
  /\ ~UniqueHeld
  /\ IF torrents[task[w].tid] = "Paused"
       THEN /\ Q!Emplace(w, task[w])
            /\ task' = [task EXCEPT ![w] = None]
            /\ GoesTo(w, "alive")
       ELSE /\ GoesTo(w, "pick")
            /\ UNCHANGED <<queueVars, task>>
  /\ UNCHANGED <<torrentVars, peer, seen, mainVars, diskVars, terminating>>

\* Every score is positive, so the distribution may give any peer.
PickPeer(w, p) ==
  /\ At(w, "pick")
  /\ peer' = [peer EXCEPT ![w] = p]
  /\ GoesTo(w, "process")
  /\ UNCHANGED <<queueVars, torrentVars, task, seen, mainVars, diskVars,
                 terminating>>

\* Fault: the task is given up.
ProcessGivesUp(w) ==
  /\ At(w, "process")
  /\ peer' = [peer EXCEPT ![w] = None]
  /\ task' = [task EXCEPT ![w] = None]
  /\ GoesTo(w, "alive")
  /\ UNCHANGED <<queueVars, torrentVars, seen, mainVars, diskVars, terminating>>

\* Fault: the outcome of the attempt is not looked at.
ProcessFailsCounted(w) ==
  /\ At(w, "process")
  /\ GoesTo(w, "score")
  /\ UNCHANGED <<queueVars, torrentVars, task, peer, seen, mainVars, diskVars,
                 terminating>>

\* task.process: the download or the save failed, try again.
ProcessFails(w) ==
  /\ At(w, "process")
  /\ peer' = [peer EXCEPT ![w] = None]
  /\ GoesTo(w, "pick")
  /\ UNCHANGED <<queueVars, torrentVars, task, seen, mainVars, diskVars,
                 terminating>>

\* task.process: the piece is downloaded and saved.
ProcessSucceeds(w) ==
  /\ At(w, "process")
  /\ saved' = saved \cup {task[w]}
  /\ GoesTo(w, "score")
  /\ UNCHANGED <<queueVars, torrentVars, task, peer, seen, mainVars, counted,
                 terminating>>

\* Takes the shared lock, then atomic_add_peer_score.
AddPeerScore(w) ==
  /\ At(w, "score")
  /\ ~UniqueHeld
  /\ scores' = [scores EXCEPT ![task[w].tid][peer[w]] = @ + 1]
  /\ peer' = [peer EXCEPT ![w] = None]
  /\ GoesTo(w, "count")
  /\ UNCHANGED <<queueVars, torrents, processed, task, seen, mainVars,
                 diskVars, terminating>>

\* Fault: the value before the addition is used.
CountPieceOldValue(w) ==
  /\ At(w, "count")
  /\ processed' = [processed EXCEPT ![task[w].tid] = @ + 1]
  /\ seen' = [seen EXCEPT ![w] = processed[task[w].tid]]
  /\ counted' = counted \cup {task[w]}
  /\ GoesTo(w, "complete")
  /\ UNCHANGED <<queueVars, torrents, scores, task, peer, mainVars, saved,
                 terminating>>

\* processed = pieces_processed.fetch_add(1) + 1
CountPiece(w) ==
  /\ At(w, "count")
  /\ processed' = [processed EXCEPT ![task[w].tid] = @ + 1]
  /\ seen' = [seen EXCEPT ![w] = processed[task[w].tid] + 1]
  /\ counted' = counted \cup {task[w]}
  /\ GoesTo(w, "complete")
  /\ UNCHANGED <<queueVars, torrents, scores, task, peer, mainVars, saved,
                 terminating>>

\* Fault: one piece too early.
IsLastButOne(w) == seen[w] = PiecesCount[task[w].tid] - 1

\* The worker that counted the last piece of its torrent.
IsLast(w) == seen[w] = PiecesCount[task[w].tid]

\* The state is exchanged if there is no piece left; releases the lock.
CheckCompleted(w) ==
  /\ At(w, "complete")
  /\ torrents' = IF IsLast(w)
                   THEN [torrents EXCEPT ![task[w].tid] = "Completed"]
                   ELSE torrents
  /\ task' = [task EXCEPT ![w] = None]
  /\ seen' = [seen EXCEPT ![w] = 0]
  /\ GoesTo(w, "alive")
  /\ UNCHANGED <<queueVars, processed, scores, peer, mainVars, diskVars,
                 terminating>>

\* The steps of a worker other than the outcome of an attempt.
WorkerRuns(w) ==
  \/ CheckAlive(w)
  \/ Extract(w)
  \/ ExtractNothing(w)
  \/ WaitForWork(w)
  \/ Snapshot(w)
  \/ \E p \in Peers : PickPeer(w, p)
  \/ AddPeerScore(w)
  \/ CountPiece(w)
  \/ CheckCompleted(w)

Worker(w) == WorkerRuns(w) \/ ProcessSucceeds(w) \/ ProcessFails(w)

-----------------------------------------------------------------------------
(* add_torrent *)

MainAt(pc) == mpc = pc /\ call[Main] = "none"

\* The .torrent file cannot be loaded or parsed, or its files cannot be
\* prepared.  The id is used up all the same.
AddFails ==
  /\ MainAt("idle")
  /\ next_uid \in TID
  /\ next_uid' = next_uid + 1
  /\ UNCHANGED <<queueVars, torrentVars, workerVars, mpc, cur, emplaced,
                 loaded, shown, removed, diskVars, terminating>>

\* The descriptor is read and the files are prepared.
AddPrepares ==
  /\ MainAt("idle")
  /\ next_uid \in TID
  /\ next_uid' = next_uid + 1
  /\ cur' = next_uid
  /\ mpc' = "add_lock"
  /\ UNCHANGED <<queueVars, torrentVars, workerVars, emplaced, loaded, shown,
                 removed, diskVars, terminating>>

\* Takes the unique lock; the Torrent announces itself and gets no peers.
AddAnnounceFails ==
  /\ MainAt("add_lock")
  /\ ~SharedHeld
  /\ torrents' = [torrents EXCEPT ![cur] = "Error"]
  /\ mpc' = "idle"
  /\ cur' = 0
  /\ UNCHANGED <<queueVars, processed, scores, workerVars, next_uid, emplaced,
                 loaded, shown, removed, diskVars, terminating>>

\* Takes the unique lock; the Torrent announces itself and gets its peers.
AddRegisters ==
  /\ MainAt("add_lock")
  /\ ~SharedHeld
  /\ torrents' = [torrents EXCEPT ![cur] = "Loading"]
  /\ scores' = [scores EXCEPT ![cur] = [p \in Peers |-> 1]]
  /\ emplaced' = 0
  /\ mpc' = "add_emplace"
  /\ UNCHANGED <<queueVars, processed, workerVars, next_uid, cur, loaded,
                 shown, removed, diskVars, terminating>>

\* Emplaces the task of the next piece.
AddEmplaces ==
  /\ MainAt("add_emplace")
  /\ emplaced < PiecesCount[cur]
  /\ Q!Emplace(Main, [tid |-> cur, piece |-> emplaced])
  /\ emplaced' = emplaced + 1
  /\ UNCHANGED <<torrentVars, workerVars, next_uid, mpc, cur, loaded, shown,
                 removed, diskVars, terminating>>

\* All tasks are emplaced: the state is exchanged, the workers are woken and
\* the unique lock is released.
AddStarts ==
  /\ MainAt("add_emplace")
  /\ emplaced = PiecesCount[cur]
  /\ torrents' = [torrents EXCEPT ![cur] = "Downloading"]
  /\ Q!ForceWakeup(Main)
  /\ mpc' = "idle"
  /\ cur' = 0
  /\ emplaced' = 0
  /\ UNCHANGED <<processed, scores, workerVars, next_uid, loaded, shown,
                 removed, diskVars, terminating>>

-----------------------------------------------------------------------------
(* remove_torrent and get_gui_data, for a torrent in _torrents *)

\* mutate takes the tasks of the torrent out of the queue.
RemoveTasks(t) ==
  /\ MainAt("idle")
  /\ torrents[t] # "Absent"
  /\ Q!Mutate(Main, TasksOf(t))
  /\ cur' = t
  /\ mpc' = "remove_load"
  /\ removed' = removed \cup {t}
  /\ UNCHANGED <<torrentVars, workerVars, next_uid, emplaced, loaded, shown,
                 diskVars, terminating>>

\* Takes the shared lock and loads the state.
RemoveLoads ==
  /\ MainAt("remove_load")
  /\ loaded' = torrents[cur]
  /\ mpc' = "remove_store"
  /\ UNCHANGED <<queueVars, torrentVars, workerVars, next_uid, cur, emplaced,
                 shown, removed, diskVars, terminating>>

\* Fault: whatever was loaded.
RemoveAlwaysStores ==
  /\ MainAt("remove_store")
  /\ torrents' = [torrents EXCEPT ![cur] = "Stopped"]
  /\ loaded' = None
  /\ cur' = 0
  /\ mpc' = "idle"
  /\ UNCHANGED <<queueVars, processed, scores, workerVars, next_uid, emplaced,
                 shown, removed, diskVars, terminating>>

\* Exchanges the state if the loaded one was neither Completed nor Error.
RemoveStores ==
  /\ MainAt("remove_store")
  /\ torrents' = IF loaded \notin {"Completed", "Error"}
                   THEN [torrents EXCEPT ![cur] = "Stopped"]
                   ELSE torrents
  /\ loaded' = None
  /\ cur' = 0
  /\ mpc' = "idle"
  /\ UNCHANGED <<queueVars, processed, scores, workerVars, next_uid, emplaced,
                 shown, removed, diskVars, terminating>>

\* get_gui_data loads the state first.
GuiLoadsState(t) ==
  /\ MainAt("idle")
  /\ torrents[t] # "Absent"
  /\ loaded' = torrents[t]
  /\ cur' = t
  /\ mpc' = "gui_count"
  /\ UNCHANGED <<queueVars, torrentVars, workerVars, next_uid, emplaced,
                 shown, removed, diskVars, terminating>>

\* get_gui_data loads pieces_processed next.
GuiLoadsCount ==
  /\ MainAt("gui_count")
  /\ shown' = processed[cur]
  /\ mpc' = "gui_return"
  /\ UNCHANGED <<queueVars, torrentVars, workerVars, next_uid, cur, emplaced,
                 loaded, removed, diskVars, terminating>>

\* get_gui_data returns the pair.
GuiReturns ==
  /\ MainAt("gui_return")
  /\ loaded' = None
  /\ shown' = 0
  /\ cur' = 0
  /\ mpc' = "idle"
  /\ UNCHANGED <<queueVars, torrentVars, workerVars, next_uid, emplaced,
                 removed, diskVars, terminating>>

-----------------------------------------------------------------------------
(* ~Furrent *)

\* Fault: the sleeping workers are not woken.
ShutdownWithoutSkip ==
  /\ MainAt("idle")
  /\ mpc' = "terminate"
  /\ UNCHANGED <<queueVars, torrentVars, workerVars, next_uid, cur, emplaced,
                 loaded, shown, removed, diskVars, terminating>>

\* _tasks.begin_skip_waiting()
ShutdownSkips ==
  /\ MainAt("idle")
  /\ Q!BeginSkipWaiting(Main)
  /\ mpc' = "terminate"
  /\ UNCHANGED <<torrentVars, workerVars, next_uid, cur, emplaced, loaded,
                 shown, removed, diskVars, terminating>>

\* _workers.terminate() sets the flag that alive() reads ...
ShutdownTerminates ==
  /\ MainAt("terminate")
  /\ terminating' = TRUE
  /\ mpc' = "join"
  /\ UNCHANGED <<queueVars, torrentVars, workerVars, next_uid, cur, emplaced,
                 loaded, shown, removed, diskVars>>

\* ... and joins every worker.
ShutdownJoins ==
  /\ MainAt("join")
  /\ \A w \in Workers : wpc[w] = "exited"
  /\ mpc' = "done"
  /\ UNCHANGED <<queueVars, torrentVars, workerVars, next_uid, cur, emplaced,
                 loaded, shown, removed, diskVars, terminating>>

\* The program has ended.
Done ==
  /\ mpc = "done"
  /\ UNCHANGED vars

\* What the user may start.
User ==
  \/ AddFails
  \/ AddPrepares
  \/ \E t \in TID : RemoveTasks(t) \/ GuiLoadsState(t)
  \/ ShutdownSkips

\* What the main thread goes on with.
MainRuns ==
  \/ AddAnnounceFails
  \/ AddRegisters
  \/ AddEmplaces
  \/ AddStarts
  \/ RemoveLoads
  \/ RemoveStores
  \/ GuiLoadsCount
  \/ GuiReturns
  \/ ShutdownTerminates
  \/ ShutdownJoins

\* Steps inside a call of the queue.
QueueRuns(t) ==
  /\ Q!NotifyWork(t) \/ Q!NotifyEmpty(t) \/ Q!RecheckWork(t)
  /\ UNCHANGED <<torrentVars, workerVars, mainVars, diskVars, terminating>>

QueueWakes(t) ==
  /\ Q!SpuriousWake(t)
  /\ UNCHANGED <<torrentVars, workerVars, mainVars, diskVars, terminating>>

Next ==
  \/ \E w \in Workers : Worker(w) \/ QueueWakes(w)
  \/ User
  \/ MainRuns
  \/ \E t \in Workers \cup {Main} : QueueRuns(t)
  \/ Done

Spec == Init /\ [][Next]_vars

\* Threads that can run do run, in a call of the queue or outside.
Scheduling ==
  /\ WF_vars(MainRuns \/ QueueRuns(Main))
  /\ \A w \in Workers : WF_vars(Worker(w) \/ QueueRuns(w))

FairSpec == Spec /\ Scheduling

-----------------------------------------------------------------------------
(* Properties *)

\* The types of the state: identifiers and counters never leave their range,
\* whichever calls fail, and a worker's task is one of a torrent.
TypeOK ==
  /\ Q!QueueTypeOK
  /\ torrents \in [TID -> TorrentStates]
  /\ processed \in [TID -> Nat]
  /\ scores \in [TID -> [Peers -> Nat]]
  /\ next_uid \in Nat
  /\ terminating \in BOOLEAN
  /\ wpc \in [Workers -> WorkerPCs]
  /\ task \in [Workers -> Tasks \cup {None}]
  /\ peer \in [Workers -> Peers \cup {None}]
  /\ seen \in [Workers -> Nat]
  /\ mpc \in MainPCs
  /\ cur \in Nat
  /\ emplaced \in Nat
  /\ loaded \in TorrentStates \cup {None}
  /\ shown \in Nat
  /\ saved \in SUBSET Tasks
  /\ counted \in SUBSET Tasks
  /\ removed \in SUBSET TID

\* Worker w owes a count for its task.
Holds(w) == wpc[w] \in {"snapshot", "pick", "process", "score", "count"}

IsQueued(k) == \E n \in work : n.item = k

IsHeld(k) == \E w \in Workers : Holds(w) /\ task[w] = k

Started(t) == torrents[t] \in {"Downloading", "Completed", "Stopped"}

\* No piece is worked on twice: a task is in the queue at most once, with at
\* most one worker, or counted, and never in two of these places.
NoDuplicateWork ==
  /\ \A m, n \in work : m.item = n.item => m = n
  /\ \A v, w \in Workers : Holds(v) /\ Holds(w) /\ task[v] = task[w] => v = w
  /\ \A k \in Tasks : IsQueued(k) => ~IsHeld(k) /\ k \notin counted
  /\ \A k \in counted : ~IsHeld(k)

\* No piece is forgotten: every piece of a started torrent that was not
\* removed is queued, with a worker, or counted.
NoPieceLost ==
  \A t \in TID :
    Started(t) /\ t \notin removed
      => \A k \in TasksOf(t) : IsQueued(k) \/ IsHeld(k) \/ k \in counted

\* pieces_processed is what torrent.hpp says it is, the "number of pieces
\* downloaded and written to file": it counts exactly the counted tasks, and
\* each of them has been saved.
CountIsExact ==
  /\ counted \subseteq saved
  /\ \A t \in TID : processed[t] = Cardinality(counted \cap TasksOf(t))

\* A torrent shows Completed only when every piece of it is saved.
CompletedMeansSaved ==
  \A t \in TID : torrents[t] = "Completed" => TasksOf(t) \subseteq saved

\* A torrent whose pieces are all counted does not stay Downloading: its
\* state has been exchanged, or exactly the worker that counted the last
\* piece is about to.
LastPieceCompletes ==
  \A t \in TID :
    processed[t] = PiecesCount[t]
      => \/ torrents[t] \in {"Completed", "Stopped"}
         \/ \E w \in Workers : wpc[w] = "complete" /\ task[w].tid = t /\ IsLast(w)

\* A worker that got past its first lock works for a torrent whose peers are
\* known and whose tasks are all emplaced: it never meets one that is still
\* Loading, although its tasks can be extracted while it is.
WorkersSeeStarted ==
  \A w \in Workers :
    wpc[w] \in {"pick", "process", "score", "count", "complete"}
      => Started(task[w].tid) /\ \A p \in Peers : scores[task[w].tid][p] > 0

\* Once remove_torrent has mutated the queue no task of the torrent gets
\* back into it.
RemovedNotQueued == \A n \in work : n.item.tid \notin removed

\* The pair get_gui_data returns is consistent: Completed comes with the
\* full count, because the state is loaded before the count.
GuiPairConsistent ==
  mpc = "gui_return" /\ loaded = "Completed" => shown = PiecesCount[cur]

-----------------------------------------------------------------------------
(* The inductive invariant *)

Busy == {"snapshot", "pick", "process", "score", "count", "complete"}

\* The locals of thread_main are set where it uses them.
WorkerLocals ==
  \A w \in Workers :
    /\ wpc[w] \in Busy <=> task[w] \in Tasks
    /\ wpc[w] \in {"process", "score"} => peer[w] \in Peers

\* The main thread works on an entry it may work on, and only a torrent that
\* is being added is Loading.
MainLocals ==
  /\ mpc \in {"add_lock", "add_emplace", "remove_load", "remove_store",
              "gui_count", "gui_return"} => cur \in TID
  /\ mpc = "add_lock" => torrents[cur] = "Absent" /\ cur < next_uid
  /\ mpc = "add_emplace" => emplaced <= PiecesCount[cur]
  /\ mpc \in {"remove_load", "remove_store", "gui_count", "gui_return"}
       => torrents[cur] \in {"Downloading", "Completed", "Stopped", "Error"}
  /\ mpc = "remove_store"
       => loaded \in {"Downloading", "Completed", "Stopped", "Error"}
  /\ mpc = "remove_store" /\ torrents[cur] = "Error" => loaded = "Error"

EntriesSound ==
  \A t \in TID :
    /\ torrents[t] # "Paused"
    /\ torrents[t] = "Loading" <=> mpc = "add_emplace" /\ cur = t
    /\ torrents[t] = "Absent" => t \notin removed
    /\ torrents[t] = "Loading" => t \notin removed
    /\ t >= next_uid => torrents[t] = "Absent"
    /\ torrents[t] \notin {"Absent", "Error"} => \A p \in Peers : scores[t][p] > 0

\* The task k has been emplaced.
Born(k) ==
  \/ Started(k.tid)
  \/ torrents[k.tid] = "Loading" /\ k.piece < emplaced

TasksBorn ==
  /\ \A n \in work : Born(n.item)
  /\ \A w \in Workers : wpc[w] \in Busy => Born(task[w])
  /\ \A w \in Workers :
       wpc[w] \in Busy \ {"snapshot"} => Started(task[w].tid)
  /\ \A k \in counted : Started(k.tid)

\* While the torrent is added, what has been emplaced is somewhere.
NoTaskLostLoading ==
  mpc = "add_emplace" =>
    \A k \in TasksOf(cur) : k.piece < emplaced => IsQueued(k) \/ IsHeld(k)

TasksSaved ==
  \A w \in Workers :
    /\ wpc[w] \in {"score", "count", "complete"} => task[w] \in saved
    /\ wpc[w] = "complete" => task[w] \in counted

\* The values fetch_add returned: no two workers have the same one.
SeenSound ==
  /\ \A w \in Workers : wpc[w] = "complete" => seen[w] <= processed[task[w].tid]
  /\ \A v, w \in Workers :
       /\ wpc[v] = "complete" /\ wpc[w] = "complete"
       /\ task[v].tid = task[w].tid /\ seen[v] = seen[w]
       => v = w

CompletedCounted ==
  /\ \A t \in TID : torrents[t] = "Completed" => processed[t] = PiecesCount[t]
  /\ mpc \in {"gui_count", "gui_return"} /\ loaded = "Completed"
       => processed[cur] = PiecesCount[cur]

Core ==
  /\ WorkerLocals
  /\ MainLocals
  /\ EntriesSound
  /\ TasksBorn
  /\ NoDuplicateWork
  /\ NoPieceLost
  /\ NoTaskLostLoading
  /\ TasksSaved
  /\ CountIsExact
  /\ SeenSound
  /\ CompletedCounted
  /\ LastPieceCompletes
  /\ RemovedNotQueued
  /\ GuiPairConsistent

IInv == TypeOK /\ Core

-----------------------------------------------------------------------------
(* Liveness *)

\* The loop around task.process has no limit and does not look at alive: it is
\* left to the peers whether a worker gets out of it.
RetriesForever == \E w \in Workers : []<><<ProcessFails(w)>>_vars

\* Unless a worker tries the same piece for ever, there is again and again a
\* moment at which no torrent is Downloading: what was started is completed or
\* stopped, or the program is being closed.  No worker sleeps through its tasks.
DownloadsSettle ==
  \/ RetriesForever
  \/ []<>(\/ \A t \in TID : torrents[t] # "Downloading"
          \/ mpc \in {"terminate", "join", "done"})

\* Unless a worker tries the same piece for ever, the destructor returns: it
\* wakes every worker that sleeps, and each of them sees that it has to stop.
ShutdownEnds == RetriesForever \/ (mpc = "terminate" ~> mpc = "done")
=============================================================================
