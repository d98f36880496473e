--------------------------- MODULE Furrent_proofs --------------------------
(***************************************************************************)
(* Theorems about Furrent, for any number of workers, torrents, pieces and *)
(* peers: every step keeps the types of its state and the inductive        *)
(* invariant, what holds in every state, and that Furrent implements the   *)
(* life cycle of Torrents.                                                 *)
(***************************************************************************)
EXTENDS Furrent, FurrentRefines, FiniteSetTheorems, TLAPS

-----------------------------------------------------------------------------
(* Tasks, and the steps that concern them *)

\* What a piece task is.
LEMMA TaskFacts ==
  /\ \A k \in Tasks : k.tid \in TID /\ k.piece \in PiecesOf(k.tid)
  /\ \A k \in Tasks : k \in TasksOf(k.tid)
  /\ \A t \in TID : TasksOf(t) \subseteq Tasks
  /\ \A t \in TID : \A k \in TasksOf(t) : k.tid = t
  /\ \A t \in TID : \A p \in PiecesOf(t) : [tid |-> t, piece |-> p] \in TasksOf(t)
  /\ \A k, l \in Tasks : k.tid = l.tid /\ k.piece = l.piece => k = l
BY DEF Tasks, TasksOf

\* The pieces of a torrent are numbered from zero.
LEMMA PieceFacts ==
  /\ \A t \in TID : \A k \in TasksOf(t) : k.piece \in Nat /\ k.piece < PiecesCount[t]
  /\ \A k \in Tasks : k.piece \in Nat
<1>1. \A t \in TID : \A i \in PiecesOf(t) : i \in Nat /\ i < PiecesCount[t]
  BY ConstantsAssumption DEF PiecesOf
<1>2. QED
  BY <1>1, TaskFacts, Zenon

\* Each part depends on these variables only.
LEMMA Frame ==
  /\ WorkerLocals /\ UNCHANGED <<wpc, task, peer>> => WorkerLocals'
  /\ MainLocals /\ UNCHANGED <<mpc, cur, torrents, next_uid, emplaced, loaded>>
       => MainLocals'
  /\ EntriesSound /\ UNCHANGED <<torrents, mpc, cur, removed, next_uid, scores>>
       => EntriesSound'
  /\ TasksBorn /\ UNCHANGED <<torrents, emplaced, work, wpc, task, counted>>
       => TasksBorn'
  /\ NoDuplicateWork /\ UNCHANGED <<work, wpc, task, counted>> => NoDuplicateWork'
  /\ NoPieceLost /\ UNCHANGED <<torrents, removed, work, wpc, task, counted>>
       => NoPieceLost'
  /\ NoTaskLostLoading /\ UNCHANGED <<mpc, cur, emplaced, work, wpc, task>>
       => NoTaskLostLoading'
  /\ TasksSaved /\ UNCHANGED <<wpc, task, saved, counted>> => TasksSaved'
  /\ CountIsExact /\ UNCHANGED <<counted, saved, processed>> => CountIsExact'
  /\ SeenSound /\ UNCHANGED <<wpc, seen, processed, task>> => SeenSound'
  /\ CompletedCounted /\ UNCHANGED <<torrents, processed, mpc, loaded, cur>>
       => CompletedCounted'
  /\ LastPieceCompletes /\ UNCHANGED <<processed, torrents, wpc, task, seen>>
       => LastPieceCompletes'
  /\ RemovedNotQueued /\ UNCHANGED <<work, removed>> => RemovedNotQueued'
  /\ GuiPairConsistent /\ UNCHANGED <<mpc, loaded, shown, cur>>
       => GuiPairConsistent'
<1>1. WorkerLocals /\ UNCHANGED <<wpc, task, peer>> => WorkerLocals'
  BY Zenon DEF WorkerLocals
<1>2. MainLocals /\ UNCHANGED <<mpc, cur, torrents, next_uid, emplaced, loaded>>
       => MainLocals'
  BY Zenon DEF MainLocals
<1>3. EntriesSound /\ UNCHANGED <<torrents, mpc, cur, removed, next_uid, scores>>
       => EntriesSound'
  BY Zenon DEF EntriesSound
<1>4. TasksBorn /\ UNCHANGED <<torrents, emplaced, work, wpc, task, counted>>
       => TasksBorn'
  BY DEF TasksBorn, Born, Started
<1>5. NoDuplicateWork /\ UNCHANGED <<work, wpc, task, counted>> => NoDuplicateWork'
  BY Zenon DEF NoDuplicateWork, IsQueued, IsHeld, Holds
<1>6. NoPieceLost /\ UNCHANGED <<torrents, removed, work, wpc, task, counted>>
       => NoPieceLost'
  BY Zenon DEF NoPieceLost, Started, IsQueued, IsHeld, Holds
<1>7. NoTaskLostLoading /\ UNCHANGED <<mpc, cur, emplaced, work, wpc, task>>
       => NoTaskLostLoading'
  BY Zenon DEF NoTaskLostLoading, IsQueued, IsHeld, Holds
<1>8. TasksSaved /\ UNCHANGED <<wpc, task, saved, counted>> => TasksSaved'
  BY Zenon DEF TasksSaved
<1>9. CountIsExact /\ UNCHANGED <<counted, saved, processed>> => CountIsExact'
  BY Zenon DEF CountIsExact
<1>10. SeenSound /\ UNCHANGED <<wpc, seen, processed, task>> => SeenSound'
  BY Zenon DEF SeenSound
<1>11. CompletedCounted /\ UNCHANGED <<torrents, processed, mpc, loaded, cur>>
       => CompletedCounted'
  BY Zenon DEF CompletedCounted
<1>12. LastPieceCompletes /\ UNCHANGED <<processed, torrents, wpc, task, seen>>
       => LastPieceCompletes'
  BY DEF LastPieceCompletes, IsLast
<1>13. RemovedNotQueued /\ UNCHANGED <<work, removed>> => RemovedNotQueued'
  BY Zenon DEF RemovedNotQueued
<1>14. GuiPairConsistent /\ UNCHANGED <<mpc, loaded, shown, cur>>
       => GuiPairConsistent'
  BY Zenon DEF GuiPairConsistent
<1>15. QED
  BY <1>1, <1>2, <1>3, <1>4, <1>5, <1>6, <1>7, <1>8, <1>9, <1>10,
     <1>11, <1>12, <1>13, <1>14, Zenon

\* What counting the counted tasks of a torrent gives.
CountFacts ==
  /\ \A t \in TID : processed[t] <= PiecesCount[t]
  /\ \A t \in TID : ~Started(t) => processed[t] # PiecesCount[t]
  /\ \A t \in TID : \A k \in TasksOf(t) \ counted :
       /\ Cardinality((counted \cup {k}) \cap TasksOf(t)) = processed[t] + 1
       /\ processed[t] < PiecesCount[t]

\* What is in the queue, or counted, is a task.
LEMMA AllTasks ==
  ASSUME IInv
  PROVE  (\A n \in work : n.item \in Tasks) /\ counted \subseteq Tasks
BY Zenon DEF IInv, Core, TypeOK, Q!QueueTypeOK, Q!Nodes

\* The counters are numbers.
LEMMA CountTypes ==
  ASSUME IInv
  PROVE  /\ \A t \in TID : processed[t] \in Nat /\ PiecesCount[t] \in Nat
         /\ \A w \in Workers : seen[w] \in Nat
BY ConstantsAssumption, Zenon DEF IInv, Core, TypeOK

\* add_torrent emplaces a task of the torrent it adds.
LEMMA NextTask ==
  ASSUME IInv, AddEmplaces
  PROVE  /\ [tid |-> cur, piece |-> emplaced] \in TasksOf(cur)
         /\ [tid |-> cur, piece |-> emplaced] \in Tasks
<1>1. cur \in TID /\ emplaced \in Nat /\ emplaced < PiecesCount[cur]
  BY Zenon DEF AddEmplaces, MainAt, IInv, Core, TypeOK, MainLocals
<1>2. emplaced \in PiecesOf(cur)
  BY <1>1, CountTypes DEF PiecesOf
<1>3. QED
  BY <1>1, <1>2, TaskFacts, Zenon

-----------------------------------------------------------------------------
(* The queue and the types *)

\* What the threads of Furrent do to _tasks is what SharedQueue allows: every
\* step of the program is a step of the queue or leaves it alone.
LEMMA QueueStep ==
  ASSUME IInv, [Next]_vars
  PROVE  [Q!QueueNext]_(Q!queueVars)
<1> USE DEF Q!queueVars
<1>1. ASSUME NEW w \in Workers, Worker(w) \/ QueueWakes(w)
      PROVE  [Q!QueueNext]_(Q!queueVars)
  <2>1. CASE Extract(w)
    BY <2>1, Zenon DEF Extract, Q!QueueNext, Q!Caller, Q!Policies
  <2>2. CASE ExtractNothing(w)
    BY <2>2, Zenon DEF ExtractNothing, Q!QueueNext, Q!Caller
  <2>3. CASE WaitForWork(w)
    BY <2>3, Zenon DEF WaitForWork, Q!QueueNext, Q!Caller
  <2>4. CASE Snapshot(w)
    <3>1. task[w] \in Tasks
      BY <2>4, Zenon DEF IInv, Core, WorkerLocals, Busy, Snapshot, At
    <3>2. QED
      BY <2>4, <3>1, Zenon DEF Snapshot, Q!QueueNext, Q!Caller, queueVars
  <2>5. CASE QueueWakes(w)
    BY <2>5, Zenon DEF QueueWakes, Q!QueueNext
  <2>6. CASE CheckAlive(w) \/ \E p \in Peers : PickPeer(w, p)
    BY <2>6, Zenon DEF CheckAlive, PickPeer, queueVars
  <2>7. CASE ProcessFails(w) \/ ProcessSucceeds(w)
    BY <2>7, Zenon DEF ProcessFails, ProcessSucceeds, queueVars
  <2>8. CASE AddPeerScore(w) \/ CountPiece(w) \/ CheckCompleted(w)
    BY <2>8, Zenon DEF AddPeerScore, CountPiece, CheckCompleted, queueVars
  <2>9. QED
    BY <1>1, <2>1, <2>2, <2>3, <2>4, <2>5, <2>6, <2>7, <2>8, Zenon
    DEF Worker, WorkerRuns
<1>2. CASE User
  <2>1. ASSUME NEW t \in TID, RemoveTasks(t)
        PROVE  [Q!QueueNext]_(Q!queueVars)
    BY <2>1, TaskFacts, Zenon DEF RemoveTasks, Q!QueueNext, Q!Caller
  <2>2. CASE ShutdownSkips
    BY <2>2, Zenon DEF ShutdownSkips, Q!QueueNext, Q!Caller
  <2>3. CASE AddFails \/ AddPrepares \/ \E t \in TID : GuiLoadsState(t)
    BY <2>3, Zenon DEF AddFails, AddPrepares, GuiLoadsState, queueVars
  <2>4. QED
    BY <1>2, <2>1, <2>2, <2>3, Zenon DEF User
<1>3. CASE MainRuns
  <2>1. CASE AddEmplaces
    <3>1. [tid |-> cur, piece |-> emplaced] \in Tasks
      BY <2>1, NextTask, Zenon
    <3>2. QED
      BY <2>1, <3>1, Zenon DEF AddEmplaces, Q!QueueNext, Q!Caller
  <2>2. CASE AddStarts
    BY <2>2, Zenon DEF AddStarts, Q!QueueNext, Q!Caller
  <2>3. CASE AddAnnounceFails \/ AddRegisters \/ RemoveLoads \/ RemoveStores
    BY <2>3, Zenon DEF AddAnnounceFails, AddRegisters, RemoveLoads, RemoveStores,
                queueVars
  <2>4. CASE GuiLoadsCount \/ GuiReturns \/ ShutdownTerminates \/ ShutdownJoins
    BY <2>4, Zenon DEF GuiLoadsCount, GuiReturns, ShutdownTerminates, ShutdownJoins,
                queueVars
  <2>5. QED
    BY <1>3, <2>1, <2>2, <2>3, <2>4, Zenon DEF MainRuns
<1>4. ASSUME NEW t \in Workers \cup {Main}, QueueRuns(t)
      PROVE  [Q!QueueNext]_(Q!queueVars)
  BY <1>4, Zenon DEF QueueRuns, Q!QueueNext, Q!Continue
<1>5. CASE Done \/ UNCHANGED vars
  BY <1>5, Zenon DEF Done, vars, queueVars
<1>6. QED
  BY <1>1, <1>2, <1>3, <1>4, <1>5, Zenon DEF Next

\* Every step leaves the types of the state as they are.
LEMMA TypeStep ==
  ASSUME IInv, [Next]_vars, Q!QueueTypeOK'
  PROVE  TypeOK'
<1> DEFINE Rest ==
      /\ torrents' \in [TID -> TorrentStates]
      /\ processed' \in [TID -> Nat]
      /\ scores' \in [TID -> [Peers -> Nat]]
      /\ next_uid' \in Nat
      /\ terminating' \in BOOLEAN
      /\ wpc' \in [Workers -> WorkerPCs]
      /\ task' \in [Workers -> Tasks \cup {None}]
      /\ peer' \in [Workers -> Peers \cup {None}]
      /\ seen' \in [Workers -> Nat]
      /\ mpc' \in MainPCs
      /\ cur' \in Nat
      /\ emplaced' \in Nat
      /\ loaded' \in TorrentStates \cup {None}
      /\ shown' \in Nat
      /\ saved' \in SUBSET Tasks
      /\ counted' \in SUBSET Tasks
      /\ removed' \in SUBSET TID
<1>1. Rest
  <2> USE DEF queueVars, torrentVars, workerVars, mainVars, diskVars
  <2>1. TypeOK
    BY Zenon DEF IInv, Core
  <2>2. ASSUME NEW w \in Workers, Worker(w) \/ QueueWakes(w)
        PROVE  Rest
    <3>1. CASE Extract(w)
      <4>1. \A n \in work : n.item \in Tasks
        BY <2>1, Zenon DEF TypeOK, Q!QueueTypeOK, Q!Nodes
      <4>2. QED
        BY <2>1, <3>1, <4>1, Zenon DEF TypeOK, Extract, GoesTo, WorkerPCs
    <3>2. CASE ExtractNothing(w) \/ WaitForWork(w) \/ CheckAlive(w) \/ QueueWakes(w)
      BY <2>1, <3>2, Zenon DEF TypeOK, ExtractNothing, WaitForWork, CheckAlive, QueueWakes,
                        GoesTo, WorkerPCs
    <3>3. CASE Snapshot(w)
      BY <2>1, <3>3, Zenon DEF TypeOK, Snapshot, GoesTo, WorkerPCs
    <3>4. CASE ProcessFails(w) \/ \E p \in Peers : PickPeer(w, p)
      <4>1. PICK x \in Peers \cup {None}, b \in WorkerPCs :
              peer' = [peer EXCEPT ![w] = x] /\ wpc' = [wpc EXCEPT ![w] = b]
        BY <3>4, Zenon DEF ProcessFails, PickPeer, GoesTo, WorkerPCs
      <4>2. UNCHANGED <<torrents, processed, scores, next_uid, terminating, task, seen,
                        mpc, cur, emplaced, loaded, shown, saved, counted, removed>>
        BY <3>4, Zenon DEF ProcessFails, PickPeer
      <4>3. QED
        BY <2>1, <4>1, <4>2, Zenon DEF TypeOK
    <3>5. CASE ProcessSucceeds(w)
      <4>1. task[w] \in Tasks
        BY <3>5, Zenon DEF IInv, Core, WorkerLocals, Busy, ProcessSucceeds, At
      <4>2. QED
        BY <2>1, <3>5, <4>1, Zenon DEF TypeOK, ProcessSucceeds, GoesTo, WorkerPCs
    <3>6. CASE AddPeerScore(w)
      <4>1. task[w].tid \in TID /\ peer[w] \in Peers
        BY <3>6, TaskFacts, Zenon DEF IInv, Core, WorkerLocals, Busy, AddPeerScore, At
      <4>2. scores[task[w].tid][peer[w]] + 1 \in Nat
        BY <2>1, <4>1 DEF TypeOK
      <4>3. scores' \in [TID -> [Peers -> Nat]]
        BY <2>1, <3>6, <4>1, <4>2, Zenon DEF TypeOK, AddPeerScore
      <4>4. wpc' \in [Workers -> WorkerPCs] /\ peer' \in [Workers -> Peers \cup {None}]
        BY <2>1, <3>6, Zenon DEF TypeOK, AddPeerScore, GoesTo, WorkerPCs
      <4>5. QED
        BY <2>1, <3>6, <4>3, <4>4, Zenon DEF TypeOK, AddPeerScore
    <3>7. CASE CountPiece(w)
      <4>1. task[w] \in Tasks /\ task[w].tid \in TID
        BY <3>7, TaskFacts, Zenon DEF IInv, Core, WorkerLocals, Busy, CountPiece, At
      <4>2. processed[task[w].tid] + 1 \in Nat
        BY <2>1, <4>1 DEF TypeOK
      <4>3. processed' \in [TID -> Nat] /\ seen' \in [Workers -> Nat]
        BY ZenonT(30), <2>1, <3>7, <4>2 DEF TypeOK, CountPiece
      <4>4. wpc' \in [Workers -> WorkerPCs]
        BY <2>1, <3>7, Zenon DEF TypeOK, CountPiece, GoesTo, WorkerPCs
      <4>5. QED
        BY <2>1, <3>7, <4>1, <4>3, <4>4, Zenon DEF TypeOK, CountPiece
    <3>8. CASE CheckCompleted(w)
      <4>1. task[w].tid \in TID
        BY <3>8, TaskFacts, Zenon DEF IInv, Core, WorkerLocals, Busy, CheckCompleted, At
      <4>2. QED
        BY <2>1, <3>8, <4>1, Zenon DEF TypeOK, CheckCompleted, GoesTo, WorkerPCs,
                                TorrentStates
    <3>9. QED
      BY <2>2, <3>1, <3>2, <3>3, <3>4, <3>5, <3>6, <3>7, <3>8, Zenon DEF Worker, WorkerRuns
  <2>3. CASE User
    <3>1. TID \subseteq Nat
      BY ConstantsAssumption DEF TID
    <3>2. CASE AddFails \/ AddPrepares
      <4>1. next_uid' \in Nat /\ cur' \in Nat /\ mpc' \in MainPCs
        BY <2>1, <3>1, <3>2 DEF TypeOK, AddFails, AddPrepares, MainPCs
      <4>2. UNCHANGED <<torrents, processed, scores, terminating, wpc, task, peer, seen,
                        emplaced, loaded, shown, saved, counted, removed>>
        BY <3>2, Zenon DEF AddFails, AddPrepares
      <4>3. QED
        BY <2>1, <4>1, <4>2, Zenon DEF TypeOK
    <3>3. ASSUME NEW t \in TID, RemoveTasks(t) \/ GuiLoadsState(t)
          PROVE  Rest
      BY ZenonT(30), <2>1, <3>1, <3>3 DEF TypeOK, RemoveTasks, GuiLoadsState, MainPCs
    <3>4. CASE ShutdownSkips
      BY <2>1, <3>4, Zenon DEF TypeOK, ShutdownSkips, MainPCs
    <3>5. QED
      BY <2>3, <3>2, <3>3, <3>4, Zenon DEF User
  <2>4. CASE MainRuns
    <3>1. CASE AddAnnounceFails \/ AddRegisters
      <4>1. PICK x \in TorrentStates : torrents' = [torrents EXCEPT ![cur] = x]
        BY <3>1, Zenon DEF AddAnnounceFails, AddRegisters, TorrentStates
      <4>2. scores' \in [TID -> [Peers -> Nat]]
        BY <2>1, <3>1 DEF TypeOK, AddAnnounceFails, AddRegisters
      <4>3. cur' \in Nat /\ emplaced' \in Nat /\ mpc' \in MainPCs
        BY <2>1, <3>1 DEF TypeOK, AddAnnounceFails, AddRegisters, MainPCs
      <4>4. UNCHANGED <<processed, next_uid, terminating, wpc, task, peer, seen,
                        loaded, shown, saved, counted, removed>>
        BY <3>1, Zenon DEF AddAnnounceFails, AddRegisters
      <4>5. QED
        BY <2>1, <4>1, <4>2, <4>3, <4>4, Zenon DEF TypeOK
    <3>2. CASE AddEmplaces \/ AddStarts
      <4>1. torrents' \in [TID -> TorrentStates]
        BY <2>1, <3>2, Zenon DEF TypeOK, AddEmplaces, AddStarts, TorrentStates
      <4>2. cur' \in Nat /\ emplaced' \in Nat /\ mpc' \in MainPCs
        BY <2>1, <3>2 DEF TypeOK, AddEmplaces, AddStarts, MainPCs
      <4>3. UNCHANGED <<processed, scores, next_uid, terminating, wpc, task, peer, seen,
                        loaded, shown, saved, counted, removed>>
        BY <3>2, Zenon DEF AddEmplaces, AddStarts
      <4>4. QED
        BY <2>1, <4>1, <4>2, <4>3, Zenon DEF TypeOK
    <3>3. CASE RemoveLoads \/ RemoveStores \/ GuiLoadsCount
      <4>1. cur \in TID
        BY <3>3, Zenon DEF RemoveLoads, RemoveStores, GuiLoadsCount, IInv, Core, MainLocals, MainAt
      <4>2. /\ torrents' \in [TID -> TorrentStates]
            /\ loaded' \in TorrentStates \cup {None}
        BY <2>1, <3>3, <4>1, Zenon
        DEF TypeOK, RemoveLoads, RemoveStores, GuiLoadsCount, TorrentStates
      <4>3. cur' \in Nat /\ shown' \in Nat /\ mpc' \in MainPCs
        BY <2>1, <3>3, <4>1 DEF TypeOK, RemoveLoads, RemoveStores, GuiLoadsCount, MainPCs
      <4>4. UNCHANGED <<processed, scores, next_uid, terminating, wpc, task, peer, seen,
                        emplaced, saved, counted, removed>>
        BY <3>3, Zenon DEF RemoveLoads, RemoveStores, GuiLoadsCount
      <4>5. QED
        BY <2>1, <4>2, <4>3, <4>4, Zenon DEF TypeOK
    <3>4. CASE GuiReturns \/ ShutdownJoins
      BY <2>1, <3>4 DEF TypeOK, GuiReturns, ShutdownJoins, MainPCs
    <3>5. CASE ShutdownTerminates
      BY <2>1, <3>5, Zenon DEF TypeOK, ShutdownTerminates, MainPCs
    <3>6. QED
      BY <2>4, <3>1, <3>2, <3>3, <3>4, <3>5, Zenon DEF MainRuns
  <2>5. CASE \E t \in Workers \cup {Main} : QueueRuns(t)
    BY <2>1, <2>5, Zenon DEF TypeOK, QueueRuns
  <2>6. CASE Done \/ UNCHANGED vars
    BY <2>1, <2>6, Zenon DEF TypeOK, Done, vars
  <2>7. QED
    BY <2>2, <2>3, <2>4, <2>5, <2>6, Zenon DEF Next
<1>2. QED
  BY <1>1, Zenon DEF TypeOK

-----------------------------------------------------------------------------
(* Steps that move one thread only, or the queue only, keep the invariant *)

\* A step of a worker outside the calls of the queue, fetch_add and exchange
\* preserves the invariant: the worker stays without a task, or keeps it.
LEMMA WorkerMoves ==
  ASSUME IInv, NEW w \in Workers, NEW a, NEW b,
         wpc[w] = a, wpc' = [wpc EXCEPT ![w] = b],
         \/ {a, b} \subseteq {"alive", "extract", "wait", "exited"}
         \/ /\ a \in {"snapshot", "pick", "process", "score"}
            /\ b \in {"pick", "process", "score", "count"}
            /\ Started(task[w].tid),
         \A v \in Workers : v # w => peer'[v] = peer[v],
         b \in {"process", "score"} => peer'[w] \in Peers,
         saved \subseteq saved',
         b \in {"score", "count"} => task[w] \in saved',
         EntriesSound',
         UNCHANGED <<work, torrents, processed, next_uid, task, seen, mpc, cur,
                     emplaced, loaded, shown, counted, removed>>
  PROVE  Core'
<1>1. /\ \A v \in Workers : v # w => wpc'[v] = wpc[v]
      /\ wpc'[w] = b
  BY Zenon DEF IInv, Core, TypeOK
<1>2. \A v \in Workers : /\ Holds(v)' <=> Holds(v)
                         /\ wpc'[v] \in Busy <=> wpc[v] \in Busy
                         /\ wpc'[v] = "complete" <=> wpc[v] = "complete"
  BY <1>1, Zenon DEF Holds, Busy
<1>3. (MainLocals /\ CompletedCounted /\ RemovedNotQueued /\ GuiPairConsistent)'
  BY Frame, Zenon DEF IInv, Core
<1>4. WorkerLocals'
  BY <1>1, <1>2, Zenon DEF IInv, Core, WorkerLocals
<1>5. TasksBorn'
  BY <1>1, <1>2 DEF IInv, Core, TasksBorn, Born, Started, Busy
<1>6. \A k : (IsQueued(k)' <=> IsQueued(k)) /\ (IsHeld(k)' <=> IsHeld(k))
  BY <1>2, Zenon DEF IsQueued, IsHeld
<1>7. NoDuplicateWork'
  BY <1>2, <1>6, Zenon DEF IInv, Core, NoDuplicateWork
<1>8. NoPieceLost' /\ NoTaskLostLoading'
  BY <1>6, Zenon DEF IInv, Core, NoPieceLost, NoTaskLostLoading, Started
<1>9. TasksSaved' /\ CountIsExact'
  BY <1>1, <1>2, Zenon DEF IInv, Core, TasksSaved, CountIsExact
<1>10. SeenSound'
  BY <1>2, Zenon DEF IInv, Core, SeenSound
<1>11. LastPieceCompletes'
  BY <1>2 DEF IInv, Core, LastPieceCompletes, IsLast
<1>12. QED
  BY <1>3, <1>4, <1>5, <1>7, <1>8, <1>9, <1>10, <1>11, Zenon DEF Core

\* The steps of a worker that move the worker only.
LEMMA WorkerMovesKeep ==
  ASSUME IInv, NEW w \in Workers,
         \/ CheckAlive(w) \/ ExtractNothing(w) \/ WaitForWork(w) \/ Snapshot(w)
         \/ \E p \in Peers : PickPeer(w, p)
         \/ ProcessFails(w) \/ ProcessSucceeds(w) \/ AddPeerScore(w)
  PROVE  Core'
<1> USE DEF queueVars, torrentVars, workerVars, mainVars, diskVars
<1>1. peer \in [Workers -> Peers \cup {None}]
  BY Zenon DEF IInv, Core, TypeOK
<1>2. UNCHANGED <<torrents, mpc, cur, removed, next_uid, scores>> => EntriesSound'
  BY Frame, Zenon DEF IInv, Core
<1>3. wpc[w] \in Busy \ {"snapshot"} => Started(task[w].tid)
  BY Zenon DEF IInv, Core, TasksBorn
<1>4. CASE CheckAlive(w)
  <2>1. PICK b \in {"exited", "extract"} : GoesTo(w, b)
    BY <1>4, Zenon DEF CheckAlive
  <2>2. /\ wpc[w] = "alive"
        /\ UNCHANGED <<work, torrents, processed, scores, next_uid, task, peer, seen,
                       mpc, cur, emplaced, loaded, shown, counted, removed, saved>>
    BY <1>4, Zenon DEF CheckAlive, At
  <2>3. QED
    BY ZenonT(30), <1>2, <2>1, <2>2, WorkerMoves DEF GoesTo
<1>5. CASE ExtractNothing(w) \/ WaitForWork(w)
  <2>1. PICK a \in {"extract", "wait"}, b \in {"wait", "alive"} :
          wpc[w] = a /\ GoesTo(w, b)
    BY <1>5, Zenon DEF ExtractNothing, WaitForWork, At
  <2>2. UNCHANGED <<work, torrents, processed, scores, next_uid, task, peer, seen,
                    mpc, cur, emplaced, loaded, shown, counted, removed, saved>>
    BY <1>5, Zenon DEF ExtractNothing, WaitForWork, Q!TryExtractEmpty, Q!WaitWork
  <2>3. QED
    BY ZenonT(30), <1>2, <2>1, <2>2, WorkerMoves DEF GoesTo
<1>6. CASE Snapshot(w)
  <2>1. wpc[w] = "snapshot" /\ mpc # "add_emplace"
    BY <1>6, Zenon DEF Snapshot, At, UniqueHeld
  <2>2. task[w].tid \in TID
    BY <2>1, TaskFacts, Zenon DEF IInv, Core, WorkerLocals, Busy
  <2>3. Started(task[w].tid)
    BY <2>1, <2>2, Zenon DEF IInv, Core, TasksBorn, Born, EntriesSound, Busy
  <2>4. torrents[task[w].tid] # "Paused"
    BY <2>2, Zenon DEF IInv, Core, EntriesSound
  <2>5. QED
    BY <1>2, <1>6, <2>1, <2>3, <2>4, WorkerMoves, Zenon DEF Snapshot, GoesTo
<1>7. ASSUME NEW p \in Peers, PickPeer(w, p)
      PROVE  Core'
  <2>1. /\ wpc[w] = "pick" /\ GoesTo(w, "process")
        /\ peer'[w] = p /\ \A v \in Workers : v # w => peer'[v] = peer[v]
    BY <1>1, <1>7, Zenon DEF PickPeer, At
  <2>2. Started(task[w].tid)
    BY <1>3, <2>1, Zenon DEF Busy
  <2>3. UNCHANGED <<work, torrents, processed, scores, next_uid, task, seen, mpc,
                    cur, emplaced, loaded, shown, counted, removed, saved>>
    BY <1>7, Zenon DEF PickPeer
  <2>4. QED
    BY ZenonT(30), <1>2, <2>1, <2>2, <2>3, WorkerMoves DEF GoesTo
<1>8. CASE ProcessFails(w)
  <2>1. /\ wpc[w] = "process" /\ GoesTo(w, "pick")
        /\ \A v \in Workers : v # w => peer'[v] = peer[v]
    BY <1>1, <1>8, Zenon DEF ProcessFails, At
  <2>2. Started(task[w].tid)
    BY <1>3, <2>1, Zenon DEF Busy
  <2>3. UNCHANGED <<work, torrents, processed, scores, next_uid, task, seen, mpc,
                    cur, emplaced, loaded, shown, counted, removed, saved>>
    BY <1>8, Zenon DEF ProcessFails
  <2>4. QED
    BY ZenonT(30), <1>2, <2>1, <2>2, <2>3, WorkerMoves DEF GoesTo
<1>9. CASE ProcessSucceeds(w)
  <2>1. /\ wpc[w] = "process" /\ GoesTo(w, "score")
        /\ saved' = saved \cup {task[w]} /\ peer' = peer
    BY <1>9, Zenon DEF ProcessSucceeds, At
  <2>2. Started(task[w].tid) /\ peer[w] \in Peers
    BY <1>3, <2>1, Zenon DEF Busy, IInv, Core, WorkerLocals
  <2>3. UNCHANGED <<work, torrents, processed, scores, next_uid, task, seen, mpc,
                    cur, emplaced, loaded, shown, counted, removed>>
    BY <1>9, Zenon DEF ProcessSucceeds
  <2>4. QED
    BY ZenonT(30), <1>2, <2>1, <2>2, <2>3, WorkerMoves DEF GoesTo
<1>10. CASE AddPeerScore(w)
  <2>1. /\ wpc[w] = "score" /\ GoesTo(w, "count")
        /\ \A v \in Workers : v # w => peer'[v] = peer[v]
    BY <1>1, <1>10, Zenon DEF AddPeerScore, At
  <2>2. /\ Started(task[w].tid) /\ task[w] \in saved
        /\ task[w].tid \in TID /\ peer[w] \in Peers
    BY <1>3, <2>1, TaskFacts, Zenon DEF Busy, IInv, Core, WorkerLocals, TasksSaved
  <2>3. UNCHANGED <<work, torrents, processed, next_uid, task, seen, mpc, cur,
                    emplaced, loaded, shown, counted, removed, saved>>
    BY <1>10, Zenon DEF AddPeerScore
  <2>4. EntriesSound'
    <3>1. \A t \in TID, p \in Peers : scores[t][p] > 0 => scores'[t][p] > 0
      BY <1>10, <2>2 DEF AddPeerScore, IInv, Core, TypeOK
    <3>2. QED
      BY <2>3, <3>1, Zenon DEF IInv, Core, EntriesSound
  <2>5. QED
    BY ZenonT(30), <2>1, <2>2, <2>3, <2>4, WorkerMoves DEF GoesTo
<1>11. QED
  BY <1>4, <1>5, <1>6, <1>7, <1>8, <1>9, <1>10, Zenon

\* A step of the main thread that changes its own locals only preserves the
\* invariant, if what its next state says of them holds.
LEMMA MainMoves ==
  ASSUME IInv, mpc # "add_emplace", mpc' # "add_emplace",
         next_uid' = next_uid \/ next_uid' = next_uid + 1,
         MainLocals', CompletedCounted', GuiPairConsistent',
         UNCHANGED <<work, torrents, processed, scores, wpc, task, peer, seen,
                     emplaced, saved, counted, removed>>
  PROVE  Core'
<1>1. (WorkerLocals /\ TasksBorn /\ NoDuplicateWork /\ NoPieceLost
       /\ TasksSaved /\ CountIsExact /\ SeenSound /\ LastPieceCompletes
       /\ RemovedNotQueued)'
  BY Frame, Zenon DEF IInv, Core
<1>2. EntriesSound'
  <2>1. \A t \in TID : t >= next_uid' => t >= next_uid
    BY ConstantsAssumption DEF IInv, Core, TypeOK, TID
  <2>2. QED
    BY <2>1, Zenon DEF IInv, Core, EntriesSound
<1>3. NoTaskLostLoading'
  BY Zenon DEF NoTaskLostLoading
<1>4. QED
  BY <1>1, <1>2, <1>3, Zenon DEF Core

\* The steps of the main thread and of the queue that change locals only.
LEMMA MainMovesKeep ==
  ASSUME IInv,
         \/ AddFails \/ AddPrepares \/ RemoveLoads
         \/ \E t \in TID : GuiLoadsState(t)
         \/ GuiLoadsCount \/ GuiReturns
         \/ ShutdownSkips \/ ShutdownTerminates \/ ShutdownJoins
  PROVE  Core'
<1> USE DEF queueVars, torrentVars, workerVars, mainVars, diskVars, MainAt
<1>1. CASE AddFails \/ AddPrepares
  <2>1. /\ mpc = "idle" /\ next_uid \in TID /\ next_uid' = next_uid + 1
        /\ mpc' \in {"idle", "add_lock"} /\ (mpc' = "add_lock" => cur' = next_uid)
        /\ UNCHANGED <<work, torrents, processed, scores, wpc, task, peer, seen,
                       emplaced, loaded, shown, saved, counted, removed>>
    BY <1>1, Zenon DEF AddFails, AddPrepares
  <2>2. next_uid < next_uid' /\ torrents[next_uid] = "Absent"
    BY <2>1 DEF IInv, Core, TypeOK, EntriesSound
  <2>3. MainLocals'
    BY <2>1, <2>2, Zenon DEF IInv, Core, MainLocals
  <2>4. CompletedCounted' /\ GuiPairConsistent'
    BY <2>1, Zenon DEF IInv, Core, CompletedCounted, GuiPairConsistent
  <2>5. QED
    BY <2>1, <2>3, <2>4, MainMoves, Zenon
<1>2. CASE RemoveLoads
  <2>1. MainLocals'
    BY <1>2, Zenon DEF RemoveLoads, IInv, Core, MainLocals
  <2>2. CompletedCounted' /\ GuiPairConsistent'
    BY <1>2, Zenon DEF RemoveLoads, IInv, Core, CompletedCounted, GuiPairConsistent
  <2>3. QED
    BY <1>2, <2>1, <2>2, MainMoves, Zenon DEF RemoveLoads
<1>3. ASSUME NEW t \in TID, GuiLoadsState(t)
      PROVE  Core'
  <2>1. torrents[t] \in {"Downloading", "Completed", "Stopped", "Error"}
    BY <1>3, Zenon DEF GuiLoadsState, IInv, Core, TypeOK, TorrentStates, EntriesSound
  <2>2. MainLocals'
    BY <1>3, <2>1, Zenon DEF GuiLoadsState, IInv, Core, MainLocals
  <2>3. CompletedCounted' /\ GuiPairConsistent'
    BY <1>3, Zenon DEF GuiLoadsState, IInv, Core, CompletedCounted, GuiPairConsistent
  <2>4. QED
    BY <1>3, <2>2, <2>3, MainMoves, Zenon DEF GuiLoadsState
<1>4. CASE GuiLoadsCount
  <2>1. MainLocals'
    BY <1>4, Zenon DEF GuiLoadsCount, IInv, Core, MainLocals
  <2>2. CompletedCounted' /\ GuiPairConsistent'
    BY <1>4, Zenon DEF GuiLoadsCount, IInv, Core, CompletedCounted, GuiPairConsistent
  <2>3. QED
    BY <1>4, <2>1, <2>2, MainMoves, Zenon DEF GuiLoadsCount
<1>5. CASE GuiReturns \/ ShutdownSkips \/ ShutdownTerminates \/ ShutdownJoins
  <2>1. /\ mpc # "add_emplace" /\ mpc' \in {"idle", "terminate", "join", "done"}
        /\ UNCHANGED <<work, torrents, processed, scores, next_uid, wpc, task, peer,
                       seen, emplaced, saved, counted, removed>>
    BY <1>5, Zenon DEF GuiReturns, ShutdownSkips, ShutdownTerminates, ShutdownJoins,
                Q!BeginSkipWaiting
  <2>2. MainLocals' /\ CompletedCounted' /\ GuiPairConsistent'
    BY <2>1, Zenon DEF IInv, Core, MainLocals, CompletedCounted, GuiPairConsistent
  <2>3. QED
    BY <2>1, <2>2, MainMoves, Zenon
<1>6. QED
  BY <1>1, <1>2, <1>3, <1>4, <1>5, Zenon

\* Steps inside a call of the queue, and steps of the program that has ended.
LEMMA QueueMovesKeep ==
  ASSUME IInv,
         \/ \E t \in Workers \cup {Main} : QueueRuns(t)
         \/ \E w \in Workers : QueueWakes(w)
         \/ Done \/ UNCHANGED vars
  PROVE  Core'
<1>1. UNCHANGED <<work, torrents, processed, scores, next_uid, wpc, task, peer,
                  seen, mpc, cur, emplaced, loaded, shown, saved, counted, removed>>
  BY Zenon DEF QueueRuns, QueueWakes, Done, vars, queueVars, torrentVars, workerVars,
         mainVars, diskVars, Q!NotifyWork, Q!NotifyEmpty, Q!RecheckWork, Q!SpuriousWake
<1>2. QED
  BY <1>1, Frame, Zenon DEF IInv, Core

-----------------------------------------------------------------------------
(* The steps of thread_main that take, count and finish a task *)

\* The extracted task moves from the queue to one worker.
LEMMA ExtractKeeps ==
  ASSUME IInv, NEW w \in Workers, Extract(w)
  PROVE  Core'
<1>1. PICK n \in work : /\ wpc[w] = "extract"
                        /\ wpc' = [wpc EXCEPT ![w] = "snapshot"]
                        /\ work' = work \ {n}
                        /\ task' = [task EXCEPT ![w] = n.item]
  BY ZenonT(30) DEF Extract, At, GoesTo, Q!TryExtract
<1>2. UNCHANGED <<torrents, processed, scores, next_uid, peer, seen, mpc, cur,
                  emplaced, loaded, shown, saved, counted, removed>>
  BY Zenon DEF Extract, torrentVars, mainVars, diskVars
<1>3. /\ n.item \in Tasks
      /\ wpc'[w] = "snapshot" /\ task'[w] = n.item
      /\ \A v \in Workers : v # w => wpc'[v] = wpc[v] /\ task'[v] = task[v]
  BY <1>1, Zenon DEF IInv, Core, TypeOK, Q!QueueTypeOK, Q!Nodes
<1>4. (MainLocals /\ EntriesSound /\ CountIsExact /\ CompletedCounted
       /\ GuiPairConsistent)'
  BY <1>2, Frame, Zenon DEF IInv, Core
<1>5. WorkerLocals' /\ TasksSaved'
  BY <1>1, <1>2, <1>3 DEF IInv, Core, WorkerLocals, TasksSaved, Busy
<1>6. TasksBorn'
  BY <1>1, <1>2, <1>3 DEF IInv, Core, TasksBorn, Born, Started, Busy
<1>7. NoDuplicateWork'
  BY <1>1, <1>2, <1>3 DEF IInv, Core, NoDuplicateWork, IsQueued, IsHeld, Holds
<1>8. \A k : IsQueued(k) \/ IsHeld(k) => IsQueued(k)' \/ IsHeld(k)'
  BY <1>1, <1>3, Zenon DEF IsQueued, IsHeld, Holds
<1>9. NoPieceLost' /\ NoTaskLostLoading'
  BY <1>2, <1>8, Zenon DEF IInv, Core, NoPieceLost, NoTaskLostLoading, Started
<1>10. SeenSound'
  BY <1>1, <1>2, <1>3 DEF IInv, Core, SeenSound
<1>11. LastPieceCompletes'
  BY <1>1, <1>2, <1>3 DEF IInv, Core, LastPieceCompletes, IsLast
<1>12. RemovedNotQueued'
  BY <1>1, <1>2, Zenon DEF IInv, Core, RemovedNotQueued
<1>13. QED
  BY <1>4, <1>5, <1>6, <1>7, <1>9, <1>10, <1>11, <1>12, Zenon DEF Core

\* fetch_add gives the worker the count it makes, above what the others have
\* seen of the torrent.
LEMMA CountedSeen ==
  ASSUME IInv, NEW w \in Workers, task[w].tid \in TID, UNCHANGED task,
         seen'[w] = processed[task[w].tid] + 1,
         processed'[task[w].tid] = processed[task[w].tid] + 1,
         \A t \in TID : t # task[w].tid => processed'[t] = processed[t],
         \A v \in Workers : v # w => wpc'[v] = wpc[v] /\ seen'[v] = seen[v]
  PROVE  SeenSound'
<1> DEFINE tid == task[w].tid
<1>1. /\ \A t \in TID : processed[t] \in Nat
      /\ \A v \in Workers : seen[v] \in Nat
  BY CountTypes, Zenon
<1>2. \A t \in TID : \A n \in Nat : n <= processed[t] => n <= processed'[t]
  BY <1>1
<1>3. \A n \in Nat : n <= processed[tid] => n # seen'[w]
  BY <1>1
<1>4. seen'[w] <= processed'[tid]
  BY <1>1
<1> HIDE DEF tid
<1>5. ASSUME NEW v \in Workers, v # w, wpc'[v] = "complete"
      PROVE  /\ wpc[v] = "complete" /\ task[v].tid \in TID
             /\ seen'[v] = seen[v] /\ seen[v] <= processed[task[v].tid]
  BY <1>5, TaskFacts, Zenon DEF IInv, Core, SeenSound, WorkerLocals, Busy
<1>6. ASSUME NEW v \in Workers, v # w, wpc'[v] = "complete"
      PROVE  /\ seen'[v] <= processed'[task[v].tid]
             /\ task[v].tid = tid => seen'[v] # seen'[w]
  BY <1>1, <1>2, <1>3, <1>5, <1>6, Zenon
<1>7. QED
  BY <1>4, <1>5, <1>6 DEF IInv, Core, SeenSound, tid

\* Whoever makes the full count is the worker that completes the torrent.
LEMMA CountedLast ==
  ASSUME IInv, NEW w \in Workers, UNCHANGED <<task, torrents>>,
         wpc'[w] = "complete", seen'[w] = processed'[task[w].tid],
         \A t \in TID : t # task[w].tid => processed'[t] = processed[t],
         \A v \in Workers : v # w => wpc'[v] = wpc[v] /\ seen'[v] = seen[v],
         wpc[w] # "complete"
  PROVE  LastPieceCompletes'
<1>1. processed'[task[w].tid] = PiecesCount[task[w].tid] => IsLast(w)'
  BY Zenon DEF IsLast
<1>2. \A v \in Workers : wpc[v] = "complete" /\ IsLast(v)
                            => wpc'[v] = "complete" /\ IsLast(v)'
  BY Zenon DEF IsLast
<1>3. QED
  BY <1>1, <1>2 DEF IInv, Core, LastPieceCompletes

\* A torrent one of whose pieces is counted was not completed.
LEMMA CountedIncomplete ==
  ASSUME IInv, NEW tid \in TID, processed[tid] < PiecesCount[tid],
         \A t \in TID : t # tid => processed'[t] = processed[t],
         UNCHANGED <<torrents, mpc, loaded, cur>>
  PROVE  CompletedCounted'
<1>1. processed[tid] # PiecesCount[tid]
  BY CountTypes
<1>2. QED
  BY <1>1 DEF IInv, Core, CompletedCounted, MainLocals

\* The counted task moves from its worker to the count, which grows by one;
\* the value fetch_add gives the worker is one no other worker has.
LEMMA CountPieceKeeps ==
  ASSUME IInv, CountFacts, NEW w \in Workers, CountPiece(w)
  PROVE  Core'
<1> DEFINE tid == task[w].tid
<1>1. /\ wpc[w] = "count" /\ counted' = counted \cup {task[w]}
      /\ UNCHANGED <<work, torrents, scores, next_uid, task, peer, mpc, cur,
                     emplaced, loaded, shown, saved, removed>>
  BY Zenon DEF CountPiece, At, queueVars, mainVars
<1>2. task[w] \in Tasks /\ tid \in TID /\ task[w] \in TasksOf(tid)
  BY <1>1, TaskFacts, Zenon DEF IInv, Core, WorkerLocals, Busy
<1>3. /\ wpc'[w] = "complete" /\ seen'[w] = processed[tid] + 1
      /\ \A v \in Workers : v # w => wpc'[v] = wpc[v] /\ seen'[v] = seen[v]
  BY Zenon DEF CountPiece, GoesTo, IInv, Core, TypeOK
<1>4. /\ processed'[tid] = processed[tid] + 1
      /\ \A t \in TID : t # tid => processed'[t] = processed[t]
  BY <1>2, Zenon DEF CountPiece, IInv, Core, TypeOK
<1>5. Started(tid) /\ task[w] \in saved /\ task[w] \notin counted
  BY <1>1, Zenon DEF IInv, Core, TasksBorn, TasksSaved, NoDuplicateWork, IsHeld, Holds, Busy
<1>6. /\ Cardinality(counted' \cap TasksOf(tid)) = processed[tid] + 1
      /\ processed[tid] < PiecesCount[tid]
  BY ZenonT(30), <1>1, <1>2, <1>5 DEF CountFacts
<1> HIDE DEF tid
<1>7. (MainLocals /\ EntriesSound /\ RemovedNotQueued /\ GuiPairConsistent)'
  BY <1>1, Frame, Zenon DEF IInv, Core
<1>8. WorkerLocals' /\ TasksSaved'
  BY <1>1, <1>3, <1>5, Zenon DEF IInv, Core, WorkerLocals, TasksSaved, Busy
<1>9. TasksBorn'
  BY <1>1, <1>3, <1>5, Zenon DEF IInv, Core, TasksBorn, Born, Started, Busy, tid
<1>10. NoDuplicateWork'
  BY <1>1, <1>2, <1>3 DEF IInv, Core, NoDuplicateWork, IsQueued, IsHeld, Holds
<1>11. \A k : IsQueued(k) \/ IsHeld(k) => IsQueued(k)' \/ IsHeld(k)' \/ k = task[w]
  BY <1>1, <1>3, Zenon DEF IsQueued, IsHeld, Holds
<1>12. NoPieceLost'
  BY <1>1, <1>11, Zenon DEF IInv, Core, NoPieceLost, Started
<1>13. NoTaskLostLoading'
  <2>1. mpc = "add_emplace" => cur \in TID /\ tid # cur
    BY <1>5, Zenon DEF IInv, Core, MainLocals, EntriesSound, Started
  <2>2. \A k \in TasksOf(cur) : mpc = "add_emplace" => k # task[w]
    BY <1>2, <2>1, TaskFacts, Zenon DEF tid
  <2>3. QED
    BY <1>1, <1>11, <2>2, Zenon DEF IInv, Core, NoTaskLostLoading
<1>14. CountIsExact'
  <2>1. \A t \in TID : t # tid => counted' \cap TasksOf(t) = counted \cap TasksOf(t)
    <3>1. \A t \in TID : t # tid => task[w] \notin TasksOf(t)
      BY TaskFacts, Zenon DEF tid
    <3>2. QED
      BY <1>1, <3>1, Zenon
  <2>2. \A t \in TID : t # tid => processed'[t] = Cardinality(counted' \cap TasksOf(t))
    BY <1>4, <2>1, Zenon DEF IInv, Core, CountIsExact
  <2>3. QED
    BY <1>1, <1>4, <1>5, <1>6, <2>2, Zenon DEF IInv, Core, CountIsExact
<1>15. SeenSound'
  BY <1>1, <1>2, <1>3, <1>4, CountedSeen, Zenon DEF tid
<1>16. CompletedCounted'
  BY <1>1, <1>2, <1>4, <1>6, CountedIncomplete, Zenon
<1>17. LastPieceCompletes'
  BY <1>1, <1>2, <1>3, <1>4, CountedLast, Zenon DEF tid
<1>18. QED
  BY <1>7, <1>8, <1>9, <1>10, <1>12, <1>13, <1>14, <1>15, <1>16, <1>17, Zenon DEF Core

\* The worker with the full count completes a torrent that has every task
\* counted; the others only drop their task.
LEMMA CheckCompletedKeeps ==
  ASSUME IInv, CountFacts, NEW w \in Workers, CheckCompleted(w)
  PROVE  Core'
<1> DEFINE tid == task[w].tid
<1>1. /\ wpc[w] = "complete"
      /\ UNCHANGED <<work, processed, scores, next_uid, peer, mpc, cur, emplaced,
                     loaded, shown, saved, counted, removed>>
  BY Zenon DEF CheckCompleted, At, queueVars, mainVars, diskVars
<1>2. task[w] \in Tasks /\ tid \in TID /\ Started(tid)
  BY <1>1, TaskFacts, Zenon DEF IInv, Core, WorkerLocals, TasksBorn, Busy
<1>3. /\ wpc'[w] = "alive" /\ task'[w] = None /\ None \notin Tasks
      /\ \A v \in Workers :
           v # w => wpc'[v] = wpc[v] /\ task'[v] = task[v] /\ seen'[v] = seen[v]
  BY ConstantsAssumption, Zenon DEF CheckCompleted, GoesTo, IInv, Core, TypeOK
<1>4. /\ \A t \in TID : t # tid => torrents'[t] = torrents[t]
      /\ torrents'[tid] = IF IsLast(w) THEN "Completed" ELSE torrents[tid]
  BY <1>2, Zenon DEF CheckCompleted, IInv, Core, TypeOK
<1>5. IsLast(w) => processed[tid] = PiecesCount[tid]
  <2>1. seen[w] <= processed[tid] /\ processed[tid] <= PiecesCount[tid]
    BY <1>1, <1>2, Zenon DEF CountFacts, IInv, Core, SeenSound
  <2>2. QED
    BY <1>2, <2>1, CountTypes DEF IsLast
<1> HIDE DEF tid
<1>6. (CountIsExact /\ RemovedNotQueued /\ GuiPairConsistent)'
  BY <1>1, Frame, Zenon DEF IInv, Core
<1>7. \A t \in TID : Started(t)' <=> Started(t)
  BY <1>2, <1>4, Zenon DEF Started
<1>8. WorkerLocals' /\ TasksSaved' /\ SeenSound'
  <2>1. WorkerLocals'
    BY <1>1, <1>3, Zenon DEF IInv, Core, WorkerLocals, Busy
  <2>2. TasksSaved'
    BY <1>1, <1>3, Zenon DEF IInv, Core, TasksSaved
  <2>3. SeenSound'
    BY <1>1, <1>3 DEF IInv, Core, SeenSound
  <2>4. QED
    BY <2>1, <2>2, <2>3, Zenon
<1>9. MainLocals' /\ EntriesSound'
  BY <1>1, <1>2, <1>4, Zenon DEF IInv, Core, MainLocals, EntriesSound, Started
<1>10. TasksBorn'
  <2>1. \A k \in Tasks : Born(k) => Born(k)'
    BY <1>1, <1>2, <1>4, TaskFacts, Zenon DEF Born, Started
  <2>2. QED
    BY <1>1, <1>3, <1>7, <2>1, AllTasks, TaskFacts, Zenon DEF IInv, Core, TasksBorn, WorkerLocals, Busy
<1>11. \A k \in Tasks : (IsQueued(k)' <=> IsQueued(k)) /\ (IsHeld(k)' <=> IsHeld(k))
  BY <1>1, <1>3, Zenon DEF IsQueued, IsHeld, Holds
<1>12. NoDuplicateWork'
  <2>1. \A v \in Workers : Holds(v)' => Holds(v) /\ task'[v] = task[v]
    BY <1>3, Zenon DEF Holds
  <2>2. \A k \in counted : ~IsHeld(k)'
    BY <1>11, AllTasks, Zenon DEF IInv, Core, NoDuplicateWork
  <2>3. QED
    BY <1>1, <1>11, <2>1, <2>2, Zenon DEF IInv, Core, NoDuplicateWork
<1>13. NoPieceLost'
  BY <1>1, <1>7, <1>11, TaskFacts, Zenon DEF IInv, Core, NoPieceLost
<1>14. NoTaskLostLoading'
  BY <1>1, <1>11, TaskFacts, Zenon DEF IInv, Core, NoTaskLostLoading, MainLocals
<1>15. CompletedCounted'
  BY <1>1, <1>2, <1>4, <1>5, Zenon DEF IInv, Core, CompletedCounted
<1>16. LastPieceCompletes'
  <2>1. \A v \in Workers : v # w => (IsLast(v)' <=> IsLast(v))
    BY <1>3, Zenon DEF IsLast
  <2>2. SUFFICES ASSUME NEW t \in TID, processed[t] = PiecesCount[t]
                 PROVE  \/ torrents'[t] \in {"Completed", "Stopped"}
                        \/ \E v \in Workers : /\ wpc'[v] = "complete"
                                              /\ task'[v].tid = t /\ IsLast(v)'
    BY <1>1, Zenon DEF LastPieceCompletes
  <2>3. CASE torrents[t] \in {"Completed", "Stopped"}
    BY <1>4, <2>3, Zenon
  <2>4. ASSUME NEW v \in Workers, wpc[v] = "complete", task[v].tid = t, IsLast(v)
        PROVE  \/ torrents'[t] \in {"Completed", "Stopped"}
               \/ wpc'[v] = "complete" /\ task'[v].tid = t /\ IsLast(v)'
    BY <1>3, <1>4, <2>1, <2>4, Zenon DEF tid
  <2>5. QED
    BY <2>2, <2>3, <2>4, Zenon DEF IInv, Core, LastPieceCompletes
<1>17. QED
  BY <1>6, <1>8, <1>9, <1>10, <1>12, <1>13, <1>14, <1>15, <1>16, Zenon DEF Core

-----------------------------------------------------------------------------
(* The steps of add_torrent and remove_torrent *)

\* A step that leaves the workers and their counts alone may only complete or
\* stop a torrent that is fully processed.
LEMMA LastPieceStep ==
  ASSUME LastPieceCompletes, UNCHANGED <<processed, wpc, task, seen>>,
         \A t \in TID :
           processed[t] = PiecesCount[t]
             => torrents'[t] = torrents[t] \/ torrents'[t] \in {"Completed", "Stopped"}
  PROVE  LastPieceCompletes'
<1>1. \A w \in Workers : IsLast(w)' <=> IsLast(w)
  BY Zenon DEF IsLast
<1>2. QED
  BY <1>1, Zenon DEF LastPieceCompletes

\* A torrent that failed, or was just registered, has no tasks.
LEMMA AddLockKeeps ==
  ASSUME IInv, CountFacts, AddAnnounceFails \/ AddRegisters
  PROVE  Core'
<1> USE DEF queueVars, torrentVars, workerVars, mainVars, diskVars
<1>1. /\ mpc = "add_lock"
      /\ UNCHANGED <<work, processed, next_uid, wpc, task, peer, seen, loaded,
                     shown, saved, counted, removed>>
  BY Zenon DEF AddAnnounceFails, AddRegisters, MainAt
<1>2. cur \in TID /\ torrents[cur] = "Absent" /\ cur < next_uid
  BY <1>1, Zenon DEF IInv, Core, MainLocals
<1>3. /\ \A t \in TID : t # cur => torrents'[t] = torrents[t]
      /\ \/ mpc' = "idle" /\ torrents'[cur] = "Error" /\ scores' = scores
         \/ /\ mpc' = "add_emplace" /\ torrents'[cur] = "Loading"
            /\ cur' = cur /\ emplaced' = 0
            /\ \A p \in Peers : scores'[cur][p] = 1
            /\ \A t \in TID : t # cur => scores'[t] = scores[t]
  BY <1>2 DEF AddAnnounceFails, AddRegisters, IInv, Core, TypeOK
<1>4. processed[cur] # PiecesCount[cur]
  BY <1>2, Zenon DEF CountFacts, Started
<1>5. (WorkerLocals /\ NoDuplicateWork /\ TasksSaved /\ CountIsExact
       /\ SeenSound /\ RemovedNotQueued)'
  BY <1>1, Frame, Zenon DEF IInv, Core
<1>6. MainLocals' /\ CompletedCounted' /\ GuiPairConsistent'
  <2>1. mpc' = "add_emplace" => 0 <= PiecesCount[cur]
    BY <1>2, CountTypes
  <2>2. MainLocals'
    BY <1>2, <1>3, <2>1, Zenon DEF MainLocals
  <2>3. CompletedCounted'
    BY <1>1, <1>3, Zenon DEF IInv, Core, CompletedCounted
  <2>4. GuiPairConsistent'
    BY <1>3, Zenon DEF GuiPairConsistent
  <2>5. QED
    BY <2>2, <2>3, <2>4, Zenon
<1>7. EntriesSound'
  <2>1. \A t \in TID : t >= next_uid => t # cur
    BY <1>2, ConstantsAssumption DEF IInv, Core, TypeOK, TID
  <2>2. cur \notin removed /\ \A p \in Peers : 1 > 0
    BY <1>2 DEF IInv, Core, EntriesSound
  <2>3. CASE mpc' = "idle"
    BY <1>1, <1>3, <2>1, <2>2, <2>3, Zenon DEF IInv, Core, EntriesSound
  <2>4. CASE mpc' = "add_emplace"
    BY <1>1, <1>3, <2>1, <2>2, <2>4, Zenon DEF IInv, Core, EntriesSound
  <2>5. QED
    BY <1>3, <2>3, <2>4, Zenon
<1>8. \A t \in TID : (Started(t) => Started(t)') /\ (Started(t)' => Started(t))
  BY <1>2, <1>3, Zenon DEF Started
<1>9. TasksBorn'
  <2>1. \A k \in Tasks : Born(k) => Started(k.tid)
    BY <1>1, TaskFacts, Zenon DEF IInv, Core, EntriesSound, Born
  <2>2. \A k \in Tasks : Born(k) => Born(k)'
    BY <1>8, <2>1, TaskFacts, Zenon DEF Born
  <2>3. QED
    BY <1>1, <1>8, <2>2, AllTasks, TaskFacts, Zenon DEF IInv, Core, TasksBorn, WorkerLocals, Busy
<1>10. NoPieceLost'
  BY <1>1, <1>8, Zenon DEF IInv, Core, NoPieceLost, IsQueued, IsHeld, Holds
<1>11. NoTaskLostLoading'
  <2>1. \A k \in TasksOf(cur) : ~(k.piece < 0)
    BY <1>2, PieceFacts
  <2>2. QED
    BY <1>3, <2>1, Zenon DEF NoTaskLostLoading
<1>12. LastPieceCompletes'
  BY <1>1, <1>3, <1>4, LastPieceStep, Zenon DEF IInv, Core
<1>13. QED
  BY <1>5, <1>6, <1>7, <1>9, <1>10, <1>11, <1>12, Zenon DEF Core

\* The task that is emplaced is nowhere else.
LEMMA AddEmplacesKeeps ==
  ASSUME IInv, AddEmplaces
  PROVE  Core'
<1> DEFINE new == [tid |-> cur, piece |-> emplaced]
           node == [ticket |-> next_ticket, item |-> new]
<1>1. /\ mpc = "add_emplace" /\ emplaced' = emplaced + 1
      /\ UNCHANGED <<torrents, processed, scores, next_uid, wpc, task, peer, seen,
                     mpc, cur, loaded, shown, saved, counted, removed>>
  BY Zenon DEF AddEmplaces, MainAt, torrentVars, workerVars, diskVars
<1>2. work' = work \cup {node} /\ node.item = new
  BY Zenon DEF AddEmplaces, Q!Emplace, Q!PushBack
<1>3. cur \in TID /\ torrents[cur] = "Loading" /\ emplaced \in Nat
  BY <1>1, Zenon DEF IInv, Core, TypeOK, MainLocals, EntriesSound
<1>4. PiecesCount[cur] \in Nat /\ emplaced < PiecesCount[cur]
  BY <1>3, CountTypes, Zenon DEF AddEmplaces
<1>5. new \in TasksOf(cur) /\ new \in Tasks /\ new.tid = cur /\ new.piece = emplaced
  BY NextTask, Zenon
<1>6. PICK k \in TasksOf(cur) : k = new
  BY <1>5, Zenon
<1>7. PICK m : m = node
  BY Zenon
<1>8. /\ k \in Tasks /\ k.tid = cur /\ k.piece = emplaced
      /\ work' = work \cup {m} /\ m.item = k
  BY <1>2, <1>5, <1>6, <1>7, Zenon
<1> HIDE DEF new, node
<1>9. ~IsQueued(k) /\ ~IsHeld(k) /\ k \notin counted
  <2>1. ~Born(k)
    BY <1>3, <1>4, <1>8 DEF Born, Started
  <2>2. QED
    BY <2>1, Zenon DEF IInv, Core, TasksBorn, Born, IsQueued, IsHeld, Holds, Busy
<1>10. (WorkerLocals /\ EntriesSound /\ TasksSaved /\ CountIsExact /\ SeenSound
        /\ CompletedCounted /\ LastPieceCompletes /\ GuiPairConsistent)'
  BY <1>1, Frame, Zenon DEF IInv, Core
<1>11. MainLocals'
  BY <1>1, <1>3, <1>4 DEF IInv, Core, MainLocals
<1>12. \A j \in Tasks : j.piece \in Nat
  BY PieceFacts, Zenon
<1>13. TasksBorn'
  <2>1. \A j \in Tasks : Born(j) => Born(j)'
    BY <1>1, <1>3, <1>12 DEF Born, Started
  <2>2. Born(k)'
    BY <1>1, <1>3, <1>8 DEF Born
  <2>3. QED
    BY <1>1, <1>8, <2>1, <2>2, AllTasks, Zenon DEF IInv, Core, TasksBorn, WorkerLocals, Started, Busy
<1>14. /\ \A j : IsQueued(j)' <=> IsQueued(j) \/ j = k
       /\ \A j : IsHeld(j)' <=> IsHeld(j)
  BY <1>1, <1>8, Zenon DEF IsQueued, IsHeld, Holds
<1>15. NoDuplicateWork'
  <2>1. \A n \in work : n.item # k
    BY <1>9, Zenon DEF IsQueued
  <2>2. \A n, l \in work' : n.item = l.item => n = l
    BY <1>8, <2>1, Zenon DEF IInv, Core, NoDuplicateWork
  <2>3. QED
    BY <1>1, <1>9, <1>14, <2>2, Zenon DEF IInv, Core, NoDuplicateWork, Holds
<1>16. NoPieceLost'
  BY <1>1, <1>14, Zenon DEF IInv, Core, NoPieceLost, Started
<1>17. NoTaskLostLoading'
  <2>1. \A j \in TasksOf(cur) : j.piece < emplaced + 1 => j.piece < emplaced \/ j = k
    BY <1>3, <1>4, <1>8, <1>12, TaskFacts
  <2>2. QED
    BY <1>1, <1>14, <2>1, Zenon DEF IInv, Core, NoTaskLostLoading
<1>18. RemovedNotQueued'
  BY <1>1, <1>3, <1>8, Zenon DEF IInv, Core, EntriesSound, RemovedNotQueued
<1>19. QED
  BY <1>10, <1>11, <1>13, <1>15, <1>16, <1>17, <1>18, Zenon DEF Core

\* All tasks of the torrent are emplaced when it starts.
LEMMA AddStartsKeeps ==
  ASSUME IInv, CountFacts, AddStarts
  PROVE  Core'
<1>1. /\ mpc = "add_emplace" /\ mpc' = "idle" /\ emplaced = PiecesCount[cur]
      /\ UNCHANGED <<work, processed, scores, next_uid, wpc, task, peer, seen,
                     loaded, shown, saved, counted, removed>>
  BY Zenon DEF AddStarts, MainAt, Q!ForceWakeup, workerVars, diskVars
<1>2. cur \in TID /\ torrents[cur] = "Loading" /\ ~Started(cur)
  BY <1>1, Zenon DEF IInv, Core, MainLocals, EntriesSound, Started
<1>3. /\ torrents'[cur] = "Downloading"
      /\ \A t \in TID : t # cur => torrents'[t] = torrents[t]
  BY <1>2, Zenon DEF AddStarts, IInv, Core, TypeOK
<1>4. processed[cur] # PiecesCount[cur]
  BY <1>2, Zenon DEF CountFacts
<1>5. (WorkerLocals /\ NoDuplicateWork /\ TasksSaved /\ CountIsExact
       /\ SeenSound /\ RemovedNotQueued)'
  BY <1>1, Frame, Zenon DEF IInv, Core
<1>6. MainLocals' /\ NoTaskLostLoading' /\ GuiPairConsistent'
  BY <1>1, Zenon DEF MainLocals, NoTaskLostLoading, GuiPairConsistent
<1>7. EntriesSound' /\ CompletedCounted'
  BY <1>1, <1>2, <1>3, Zenon DEF IInv, Core, EntriesSound, CompletedCounted
<1>8. \A t \in TID : Started(t)' <=> Started(t) \/ t = cur
  BY <1>3, Zenon DEF Started
<1>9. TasksBorn'
  <2>1. \A k \in Tasks : Born(k) => Started(k.tid)'
    BY <1>1, <1>8, TaskFacts, Zenon DEF IInv, Core, EntriesSound, Born
  <2>2. QED
    BY <1>1, <1>8, <2>1, AllTasks, TaskFacts, Zenon
    DEF IInv, Core, TasksBorn, WorkerLocals, Born, Busy
<1>10. NoPieceLost'
  <2>1. \A k \in TasksOf(cur) : k.piece < emplaced
    BY <1>1, <1>2, PieceFacts, Zenon
  <2>2. \A k : (IsQueued(k)' <=> IsQueued(k)) /\ (IsHeld(k)' <=> IsHeld(k))
    BY <1>1, Zenon DEF IsQueued, IsHeld, Holds
  <2>3. QED
    BY <1>1, <1>8, <2>1, <2>2, Zenon DEF IInv, Core, NoPieceLost, NoTaskLostLoading
<1>11. LastPieceCompletes'
  BY <1>1, <1>3, <1>4, LastPieceStep, Zenon DEF IInv, Core
<1>12. QED
  BY <1>5, <1>6, <1>7, <1>9, <1>10, <1>11, Zenon DEF Core

\* The removal takes the tasks of one torrent out of the queue, for good.
LEMMA RemoveTasksKeeps ==
  ASSUME IInv, NEW t \in TID, RemoveTasks(t)
  PROVE  Core'
<1>1. /\ mpc = "idle" /\ mpc' = "remove_load" /\ torrents[t] # "Absent"
      /\ cur' = t /\ removed' = removed \cup {t}
      /\ UNCHANGED <<torrents, processed, scores, next_uid, wpc, task, peer, seen,
                     emplaced, loaded, shown, saved, counted>>
  BY Zenon DEF RemoveTasks, MainAt, torrentVars, workerVars, diskVars
<1>2. \A n : n \in work' <=> n \in work /\ n.item.tid # t
  BY AllTasks, TaskFacts, Zenon DEF RemoveTasks, Q!Mutate
<1>3. torrents[t] \in {"Downloading", "Completed", "Stopped", "Error"}
  BY <1>1, Zenon DEF IInv, Core, TypeOK, TorrentStates, EntriesSound
<1>4. (WorkerLocals /\ TasksSaved /\ CountIsExact /\ SeenSound /\ LastPieceCompletes)'
  BY <1>1, Frame, Zenon DEF IInv, Core
<1>5. MainLocals' /\ NoTaskLostLoading' /\ GuiPairConsistent'
  BY <1>1, <1>3, Zenon DEF MainLocals, NoTaskLostLoading, GuiPairConsistent
<1>6. EntriesSound' /\ CompletedCounted'
  BY <1>1, <1>3, Zenon DEF IInv, Core, EntriesSound, CompletedCounted
<1>7. TasksBorn'
  BY <1>1, <1>2, Zenon DEF IInv, Core, TasksBorn, Born, Started
<1>8. NoDuplicateWork'
  BY <1>1, <1>2, Zenon DEF IInv, Core, NoDuplicateWork, IsQueued, IsHeld, Holds
<1>9. NoPieceLost'
  <2>1. \A k \in Tasks : k.tid # t /\ IsQueued(k) => IsQueued(k)'
    BY <1>2, Zenon DEF IsQueued
  <2>2. \A k : IsHeld(k)' <=> IsHeld(k)
    BY <1>1, Zenon DEF IsHeld, Holds
  <2>3. QED
    BY <1>1, <2>1, <2>2, TaskFacts, Zenon DEF IInv, Core, NoPieceLost, Started
<1>10. RemovedNotQueued'
  BY <1>1, <1>2, Zenon DEF IInv, Core, RemovedNotQueued
<1>11. QED
  BY <1>4, <1>5, <1>6, <1>7, <1>8, <1>9, <1>10, Zenon DEF Core

\* Only a torrent that has started is stopped.
LEMMA RemoveStoresKeeps ==
  ASSUME IInv, RemoveStores
  PROVE  Core'
<1>1. /\ mpc = "remove_store" /\ mpc' = "idle"
      /\ UNCHANGED <<work, processed, scores, next_uid, wpc, task, peer, seen,
                     emplaced, shown, saved, counted, removed>>
  BY Zenon DEF RemoveStores, MainAt, queueVars, workerVars, diskVars
<1>2. cur \in TID /\ (loaded \notin {"Completed", "Error"} => Started(cur))
  BY <1>1, Zenon DEF IInv, Core, MainLocals, Started
<1>3. /\ \A t \in TID : t # cur => torrents'[t] = torrents[t]
      /\ \/ torrents'[cur] = "Stopped" /\ Started(cur)
         \/ torrents'[cur] = torrents[cur]
  BY <1>2, Zenon DEF RemoveStores, IInv, Core, TypeOK
<1>4. \A t \in TID : Started(t)' <=> Started(t)
  BY <1>2, <1>3, Zenon DEF Started
<1>5. (WorkerLocals /\ NoDuplicateWork /\ TasksSaved /\ CountIsExact
       /\ SeenSound /\ RemovedNotQueued)'
  BY <1>1, Frame, Zenon DEF IInv, Core
<1>6. MainLocals' /\ NoTaskLostLoading' /\ GuiPairConsistent'
  BY <1>1, Zenon DEF MainLocals, NoTaskLostLoading, GuiPairConsistent
<1>7. EntriesSound' /\ CompletedCounted'
  BY <1>1, <1>2, <1>3, Zenon DEF IInv, Core, EntriesSound, CompletedCounted, Started
<1>8. TasksBorn'
  <2>1. \A k \in Tasks : Born(k) => Born(k)'
    BY <1>1, <1>3, <1>4, TaskFacts, Zenon DEF Born, Started
  <2>2. QED
    BY <1>1, <1>4, <2>1, AllTasks, TaskFacts, Zenon DEF IInv, Core, TasksBorn, WorkerLocals, Busy
<1>9. NoPieceLost'
  BY <1>1, <1>4, Zenon DEF IInv, Core, NoPieceLost, IsQueued, IsHeld, Holds
<1>10. LastPieceCompletes'
  BY <1>1, <1>3, LastPieceStep, Zenon DEF IInv, Core
<1>11. QED
  BY <1>5, <1>6, <1>7, <1>8, <1>9, <1>10, Zenon DEF Core

-----------------------------------------------------------------------------
(* The invariant, and what follows from it *)

\* The queue once more, with what is proved of it.
QP == INSTANCE SharedQueue_proofs WITH Threads <- Workers \cup {Main}, Work <- Tasks

\* A torrent has finitely many tasks, one per piece.
LEMMA TasksFinite ==
  \A t \in TID : /\ IsFiniteSet(TasksOf(t))
                 /\ Cardinality(TasksOf(t)) = PiecesCount[t]
<1> SUFFICES ASSUME NEW t \in TID
             PROVE  IsFiniteSet(TasksOf(t)) /\ Cardinality(TasksOf(t)) = PiecesCount[t]
  BY Zenon
<1> DEFINE f == [p \in PiecesOf(t) |-> [tid |-> t, piece |-> p]]
<1>1. PiecesCount[t] \in Nat \ {0}
  BY ConstantsAssumption, Zenon
<1>2. /\ IsFiniteSet(PiecesOf(t))
      /\ Cardinality(PiecesOf(t)) = PiecesCount[t]
  <2> DEFINE b == PiecesCount[t] - 1
  <2>1. b \in Int /\ ~(0 > b) /\ b - 0 + 1 = PiecesCount[t]
    BY <1>1
  <2> HIDE DEF b
  <2>2. IsFiniteSet(0 .. b) /\ Cardinality(0 .. b) = PiecesCount[t]
    BY <2>1, FS_Interval
  <2>3. PiecesOf(t) = 0 .. b
    BY Zenon DEF PiecesOf, b
  <2>4. QED
    BY <2>2, <2>3, Zenon
<1>3. f \in Bijection(PiecesOf(t), TasksOf(t))
  BY Zenon DEF TasksOf, Bijection, Injection, Surjection, IsInjective
<1>4. ExistsBijection(PiecesOf(t), TasksOf(t))
  BY <1>3, Zenon DEF ExistsBijection
<1>5. QED
  BY <1>2, <1>4, FS_Bijection, Zenon

\* pieces_processed is bounded by the number of pieces, and reaches it only
\* when every task is counted.
LEMMA CountBounds ==
  ASSUME IInv
  PROVE  \A t \in TID :
           /\ processed[t] <= PiecesCount[t]
           /\ processed[t] = PiecesCount[t] => TasksOf(t) \subseteq counted
<1> SUFFICES ASSUME NEW t \in TID
             PROVE  /\ processed[t] <= PiecesCount[t]
                    /\ processed[t] = PiecesCount[t] => TasksOf(t) \subseteq counted
  BY Zenon
<1>1. processed[t] = Cardinality(counted \cap TasksOf(t))
  BY Zenon DEF IInv, Core, CountIsExact
<1>2. IsFiniteSet(TasksOf(t)) /\ Cardinality(TasksOf(t)) = PiecesCount[t]
  BY TasksFinite, Zenon
<1>3. counted \cap TasksOf(t) \in SUBSET TasksOf(t)
  BY Zenon
<1>4. QED
  BY <1>1, <1>2, <1>3, FS_Subset, Zenon

\* A torrent none of whose tasks has been counted is not fully processed.
LEMMA NothingCounted ==
  ASSUME IInv, NEW t \in TID, ~Started(t)
  PROVE  /\ processed[t] # PiecesCount[t]
         /\ \A k \in counted : k.tid # t
<1>1. \A k \in counted : k.tid # t
  BY Zenon DEF IInv, Core, TasksBorn
<1>2. 0 \in PiecesOf(t)
  BY ConstantsAssumption DEF PiecesOf
<1>3. [tid |-> t, piece |-> 0] \in TasksOf(t)
  BY <1>2, TaskFacts, Zenon
<1>4. [tid |-> t, piece |-> 0] \notin counted
  BY <1>1, Zenon
<1>5. QED
  BY <1>1, <1>3, <1>4, CountBounds, Zenon

\* Counting one more task of a torrent.
LEMMA CountedOneMore ==
  ASSUME IInv, NEW t \in TID, NEW k \in TasksOf(t), k \notin counted
  PROVE  /\ Cardinality((counted \cup {k}) \cap TasksOf(t)) = processed[t] + 1
         /\ processed[t] < PiecesCount[t]
<1>1. processed[t] = Cardinality(counted \cap TasksOf(t))
  BY Zenon DEF IInv, Core, CountIsExact
<1>2. IsFiniteSet(counted \cap TasksOf(t))
  <2>1. counted \cap TasksOf(t) \in SUBSET TasksOf(t)
    BY Zenon
  <2>2. QED
    BY <2>1, TasksFinite, FS_Subset, Zenon
<1>3. (counted \cup {k}) \cap TasksOf(t) = (counted \cap TasksOf(t)) \cup {k}
  BY Zenon
<1>4. Cardinality((counted \cup {k}) \cap TasksOf(t)) = processed[t] + 1
  BY <1>1, <1>2, <1>3, FS_AddElement, Zenon
<1>5. processed[t] < PiecesCount[t]
  <2>1. processed[t] \in Nat /\ PiecesCount[t] \in Nat
    BY ConstantsAssumption, Zenon DEF IInv, Core, TypeOK
  <2>2. processed[t] <= PiecesCount[t] /\ processed[t] # PiecesCount[t]
    BY CountBounds, Zenon
  <2>3. QED
    BY <2>1, <2>2
<1>6. QED
  BY <1>4, <1>5, Zenon

\* The counting facts hold wherever the inductive invariant does.
LEMMA Counting ==
  ASSUME IInv
  PROVE  CountFacts
BY CountBounds, NothingCounted, CountedOneMore, Zenon DEF CountFacts

-----------------------------------------------------------------------------
(* The queue *)

\* The two instances of the queue are the same.
LEMMA SameQueue ==
  /\ Q!QueueTypeOK <=> QP!QueueTypeOK
  /\ Q!QueueTypeOK' <=> QP!QueueTypeOK'
  /\ Q!QueueInit <=> QP!QueueInit
  /\ Q!NoLostWakeup <=> QP!NoLostWakeup
  /\ UNCHANGED Q!queueVars <=> UNCHANGED QP!queueVars
  /\ Q!QueueNext <=> QP!QueueNext
<1>1. (Q!QueueTypeOK <=> QP!QueueTypeOK) /\ (Q!QueueTypeOK' <=> QP!QueueTypeOK')
  BY Zenon DEF Q!QueueTypeOK, Q!Nodes, Q!CallStates, QP!QueueTypeOK, QP!Nodes, QP!CallStates
<1>2. Q!QueueInit <=> QP!QueueInit
  BY Zenon DEF Q!QueueInit, QP!QueueInit
<1>3. Q!NoLostWakeup <=> QP!NoLostWakeup
  BY Zenon DEF Q!NoLostWakeup, Q!WorkOrSkip, QP!NoLostWakeup, QP!WorkOrSkip
<1>4. UNCHANGED Q!queueVars <=> UNCHANGED QP!queueVars
  BY Zenon DEF Q!queueVars, QP!queueVars
<1>5. Q!QueueNext <=> QP!QueueNext
  BY Zenon DEF Q!Policies, Q!Picks, Q!PushBack, Q!Goes, Q!WorkOrSkip, Q!EmptyOrSkip,
      Q!TryExtractEmpty, Q!TryExtract, Q!Emplace, Q!Mutate, Q!BeginSkipWaiting,
      Q!WaitWork, Q!WaitEmpty, Q!WakeAll, Q!ForceWakeup, Q!NotifyWork,
      Q!NotifyEmpty, Q!RecheckWork, Q!RecheckEmpty, Q!SpuriousWake, Q!Caller,
      Q!Continue, Q!QueueNext, QP!Policies, QP!Picks, QP!PushBack, QP!Goes,
      QP!WorkOrSkip, QP!EmptyOrSkip, QP!TryExtractEmpty, QP!TryExtract, QP!Emplace,
      QP!Mutate, QP!BeginSkipWaiting, QP!WaitWork, QP!WaitEmpty, QP!WakeAll,
      QP!ForceWakeup, QP!NotifyWork, QP!NotifyEmpty, QP!RecheckWork,
      QP!RecheckEmpty, QP!SpuriousWake, QP!Caller, QP!Continue, QP!QueueNext
<1>6. QED
  BY <1>1, <1>2, <1>3, <1>4, <1>5, Zenon

-----------------------------------------------------------------------------
(* The theorems *)

\* The inductive invariant holds when the program starts.
LEMMA IInvInit == Init => IInv
<1> SUFFICES ASSUME Init
             PROVE  IInv
  BY Zenon
<1>1. Q!QueueTypeOK
  BY QP!QueueTypeInit, SameQueue, Zenon DEF Init
<1>2. terminating \in BOOLEAN
  BY Zenon DEF Init
<1>3. TypeOK
  BY <1>1, <1>2, Zenon DEF Init, TypeOK, TorrentStates, WorkerPCs, MainPCs
<1>4. WorkerLocals /\ MainLocals /\ EntriesSound
  BY ConstantsAssumption, Zenon DEF Init, WorkerLocals, MainLocals, EntriesSound, Busy
<1>5. NoDuplicateWork /\ NoPieceLost /\ NoTaskLostLoading
  BY Zenon DEF Init, NoDuplicateWork, NoPieceLost, NoTaskLostLoading, IsQueued, IsHeld,
         Holds, Started, Q!QueueInit
<1>6. TasksBorn /\ TasksSaved /\ SeenSound
  BY Zenon DEF Init, TasksBorn, TasksSaved, SeenSound, Busy, Q!QueueInit
<1>7. CountIsExact
  BY FS_EmptySet, Zenon DEF Init, CountIsExact
<1>8. CompletedCounted /\ RemovedNotQueued /\ GuiPairConsistent
  BY Zenon DEF Init, CompletedCounted, RemovedNotQueued, GuiPairConsistent, Q!QueueInit
<1>9. LastPieceCompletes
  BY ConstantsAssumption, Zenon DEF Init, LastPieceCompletes
<1>10. QED
  BY <1>3, <1>4, <1>5, <1>6, <1>7, <1>8, <1>9, Zenon DEF IInv, Core

\* Every step of every thread preserves the inductive invariant.
LEMMA IInvStep == IInv /\ [Next]_vars => IInv'
<1> SUFFICES ASSUME IInv, [Next]_vars
             PROVE  IInv'
  BY Zenon
<1>1. TypeOK'
  <2>1. Q!QueueTypeOK'
    BY QueueStep, QP!QueueTypeStep, SameQueue, Zenon DEF IInv, TypeOK
  <2>2. QED
    BY <2>1, TypeStep, Zenon
<1>2. CountFacts
  BY Counting, Zenon
<1>3. ASSUME NEW w \in Workers, Worker(w)
      PROVE  Core'
  <2>1. CASE Extract(w)
    BY <2>1, ExtractKeeps, Zenon
  <2>2. CASE CountPiece(w)
    BY <1>2, <2>2, CountPieceKeeps, Zenon
  <2>3. CASE CheckCompleted(w)
    BY <1>2, <2>3, CheckCompletedKeeps, Zenon
  <2>4. QED
    BY <1>3, <2>1, <2>2, <2>3, WorkerMovesKeep, Zenon DEF Worker, WorkerRuns
<1>4. ASSUME User \/ MainRuns
      PROVE  Core'
  <2>1. CASE AddAnnounceFails \/ AddRegisters
    BY <1>2, <2>1, AddLockKeeps, Zenon
  <2>2. CASE AddEmplaces
    BY <2>2, AddEmplacesKeeps, Zenon
  <2>3. CASE AddStarts
    BY <1>2, <2>3, AddStartsKeeps, Zenon
  <2>4. CASE RemoveStores
    BY <2>4, RemoveStoresKeeps, Zenon
  <2>5. ASSUME NEW t \in TID, RemoveTasks(t)
        PROVE  Core'
    BY <2>5, RemoveTasksKeeps, Zenon
  <2>6. QED
    BY <1>4, <2>1, <2>2, <2>3, <2>4, <2>5, MainMovesKeep, Zenon DEF User, MainRuns
<1>5. Core'
  BY <1>3, <1>4, QueueMovesKeep, Zenon DEF Next
<1>6. QED
  BY <1>1, <1>5, Zenon DEF IInv, Core

\* The inductive invariant holds in every reachable state.
THEOREM Invariance == Spec => []IInv
BY IInvInit, IInvStep, PTL DEF Spec

\* The state of the program is always well-typed.
THEOREM TypeCorrect == Spec => []TypeOK
<1>1. IInv => TypeOK
  BY Zenon DEF IInv, Core
<1>2. QED
  BY <1>1, Invariance, PTL

\* No piece is queued twice, worked on by two workers, or worked on again
\* after it has been counted, with any number of workers.
THEOREM NoWorkIsDuplicated == Spec => []NoDuplicateWork
<1>1. IInv => NoDuplicateWork
  BY Zenon DEF IInv, Core
<1>2. QED
  BY <1>1, Invariance, PTL

\* No piece of a started torrent that was not removed is ever forgotten.
THEOREM NoPieceIsLost == Spec => []NoPieceLost
<1>1. IInv => NoPieceLost
  BY Zenon DEF IInv, Core
<1>2. QED
  BY <1>1, Invariance, PTL

\* pieces_processed counts exactly the counted pieces, which are all saved.
THEOREM CountingIsExact == Spec => []CountIsExact
<1>1. IInv => CountIsExact
  BY Zenon DEF IInv, Core
<1>2. QED
  BY <1>1, Invariance, PTL

\* A torrent shows Completed only when each of its pieces is on the disk.
THEOREM CompletedIsSaved == Spec => []CompletedMeansSaved
<1>1. IInv => CompletedMeansSaved
  BY CountBounds, Zenon DEF IInv, Core, CompletedCounted, CountIsExact, CompletedMeansSaved
<1>2. QED
  BY <1>1, Invariance, PTL

\* A torrent all of whose pieces are counted is completed or stopped, or the
\* worker that counted the last one is about to complete it.
THEOREM LastPieceAlwaysCompletes == Spec => []LastPieceCompletes
<1>1. IInv => LastPieceCompletes
  BY Zenon DEF IInv, Core
<1>2. QED
  BY <1>1, Invariance, PTL

\* No worker gets past its first lock for a torrent that is still loading.
THEOREM WorkersOnlySeeStarted == Spec => []WorkersSeeStarted
<1>1. ASSUME IInv
      PROVE  WorkersSeeStarted
  <2>1. \A w \in Workers : wpc[w] \in Busy => task[w].tid \in TID
    BY <1>1, TaskFacts, Zenon DEF IInv, Core, WorkerLocals
  <2>2. QED
    BY <1>1, <2>1, Zenon DEF IInv, Core, TasksBorn, EntriesSound, WorkersSeeStarted, Started, Busy
<1>2. QED
  BY <1>1, Invariance, PTL

\* No task of a torrent gets back into the queue after remove_torrent took
\* its tasks out.
THEOREM RemovedStaysOut == Spec => []RemovedNotQueued
<1>1. IInv => RemovedNotQueued
  BY Zenon DEF IInv, Core
<1>2. QED
  BY <1>1, Invariance, PTL

\* get_gui_data never returns Completed with less than the full count.
THEOREM GuiPairIsConsistent == Spec => []GuiPairConsistent
<1>1. IInv => GuiPairConsistent
  BY Zenon DEF IInv, Core
<1>2. QED
  BY <1>1, Invariance, PTL

\* Furrent uses its queue as SharedQueue allows, so what is proved of the
\* queue holds in the program: no worker sleeps in wait_work while there is
\* work, or while the program is closing, without a notification to come.
THEOREM WorkersAreNotified == Spec => Q!QueueSpec /\ []Q!NoLostWakeup
<1>1. Init => Q!QueueInit
  BY Zenon DEF Init
<1>2. IInv /\ [Next]_vars => [Q!QueueNext]_(Q!queueVars)
  BY QueueStep, Zenon
<1>3. Spec => Q!QueueSpec
  BY <1>1, <1>2, Invariance, PTL DEF Spec, Q!QueueSpec
<1>4. /\ Q!QueueInit => QP!QueueInit
      /\ [Q!QueueNext]_(Q!queueVars) => [QP!QueueNext]_(QP!queueVars)
      /\ QP!NoLostWakeup => Q!NoLostWakeup
  BY SameQueue, Zenon
<1>5. Q!QueueSpec => QP!QueueSpec
  BY <1>4, PTL DEF Q!QueueSpec, QP!QueueSpec
<1>6. QED
  BY <1>3, <1>4, <1>5, QP!NoWakeupIsLost, PTL

-----------------------------------------------------------------------------
(* Refinement *)

\* What a step leaves alone of the abstract state.
LEMMA AbstractFrame ==
  /\ UNCHANGED torrents => UNCHANGED AbstractStatus
  /\ UNCHANGED counted => UNCHANGED AbstractFinished
  /\ UNCHANGED <<wpc, task, seen>> => UNCHANGED AbstractCompleting
  /\ UNCHANGED <<mpc, cur, loaded>> => UNCHANGED AbstractStopping
  /\ mpc # "remove_store" /\ mpc' # "remove_store" => UNCHANGED AbstractStopping
<1>1. UNCHANGED torrents => UNCHANGED AbstractStatus
  BY Zenon DEF AbstractStatus
<1>2. UNCHANGED counted => UNCHANGED AbstractFinished
  BY Zenon DEF AbstractFinished
<1>3. UNCHANGED <<wpc, task, seen>> => UNCHANGED AbstractCompleting
  BY Zenon DEF AbstractCompleting, Completes, IsLast
<1>4. UNCHANGED <<mpc, cur, loaded>> => UNCHANGED AbstractStopping
  BY Zenon DEF AbstractStopping
<1>5. mpc # "remove_store" /\ mpc' # "remove_store" => UNCHANGED AbstractStopping
  BY Zenon DEF AbstractStopping
<1>6. QED
  BY <1>1, <1>2, <1>3, <1>4, <1>5, Zenon

\* A step of a worker that is not about to complete a torrent, before or
\* after it, completes none.
LEMMA OtherWorkers ==
  ASSUME IInv, NEW w \in Workers, wpc[w] # "complete", wpc'[w] # "complete",
         \A v \in Workers \ {w} : wpc'[v] = wpc[v] /\ task'[v] = task[v],
         UNCHANGED seen
  PROVE  UNCHANGED AbstractCompleting
<1>1. \A v \in Workers, t \in TID : Completes(v, t)' <=> Completes(v, t)
  BY Zenon DEF Completes, IsLast
<1>2. QED
  BY <1>1, Zenon DEF AbstractCompleting

\* The steps of a worker that count no piece and complete no torrent change
\* nothing that Torrents knows of.
LEMMA WorkerStutters ==
  ASSUME IInv, NEW w \in Workers,
         \/ CheckAlive(w) \/ Extract(w) \/ ExtractNothing(w) \/ WaitForWork(w)
         \/ Snapshot(w) \/ \E p \in Peers : PickPeer(w, p)
         \/ AddPeerScore(w) \/ ProcessSucceeds(w) \/ ProcessFails(w)
  PROVE  UNCHANGED A!vars
<1> USE DEF queueVars, torrentVars, workerVars, mainVars, diskVars
<1>1. UNCHANGED <<torrents, counted, mpc, cur, loaded, seen>>
  BY Zenon DEF CheckAlive, Extract, ExtractNothing, WaitForWork, Snapshot, PickPeer,
         AddPeerScore, ProcessSucceeds, ProcessFails
<1>2. /\ wpc[w] # "complete"
      /\ \E pc \in WorkerPCs \ {"complete"} : GoesTo(w, pc)
  BY Zenon DEF CheckAlive, Extract, ExtractNothing, WaitForWork, Snapshot, PickPeer,
         AddPeerScore, ProcessSucceeds, ProcessFails, At, WorkerPCs
<1>3. \A v \in Workers \ {w} : task'[v] = task[v]
  <2>1. task \in [Workers -> Tasks \cup {None}]
    BY Zenon DEF IInv, TypeOK
  <2>2. task' = task \/ \E x : task' = [task EXCEPT ![w] = x]
    BY Zenon DEF CheckAlive, Extract, ExtractNothing, WaitForWork, Snapshot, PickPeer,
           AddPeerScore, ProcessSucceeds, ProcessFails
  <2>3. QED
    BY <2>1, <2>2, Zenon
<1>4. wpc \in [Workers -> WorkerPCs]
  BY Zenon DEF IInv, TypeOK
<1>5. UNCHANGED AbstractCompleting
  BY <1>1, <1>2, <1>3, <1>4, OtherWorkers, Zenon DEF GoesTo
<1>6. QED
  BY <1>1, <1>5, AbstractFrame, Zenon DEF A!vars

\* A counted piece is finished: the whole torrent is, exactly if as many
\* pieces are counted as there are.
LEMMA FinishedIsCounted ==
  ASSUME IInv, NEW t \in TID, NEW k \in TasksOf(t), k \notin counted,
         counted' = counted \cup {k}
  PROVE  /\ AbstractFinished' = [AbstractFinished EXCEPT ![t] = @ \cup {k.piece}]
         /\ k.piece \in PiecesOf(t) \ AbstractFinished[t]
         /\ AbstractFinished'[t] = PiecesOf(t) <=> processed[t] + 1 = PiecesCount[t]
<1> DEFINE f(c, u) == {l.piece : l \in c \cap TasksOf(u)}
<1>1. \A u \in TID : AbstractFinished[u] = f(counted, u) /\ AbstractFinished'[u] = f(counted', u)
  BY Zenon DEF AbstractFinished
<1>2. \A u \in TID \ {t} : k \notin TasksOf(u)
  BY TaskFacts, Zenon
<1>3. \A u \in TID \ {t} : f(counted', u) = f(counted, u)
  BY <1>2, Zenon
<1>4. f(counted', t) = f(counted, t) \cup {k.piece}
  BY Zenon
<1>5. AbstractFinished' = [AbstractFinished EXCEPT ![t] = @ \cup {k.piece}]
  BY <1>1, <1>3, <1>4, Zenon DEF AbstractFinished
<1>6. k.piece \in PiecesOf(t) \ AbstractFinished[t]
  <2>1. \A l \in TasksOf(t) : l.piece = k.piece => l = k
    BY TaskFacts, Zenon
  <2>2. k.piece \in PiecesOf(t)
    BY TaskFacts, Zenon
  <2>3. QED
    BY <1>1, <2>1, <2>2
<1>7. AbstractFinished'[t] = PiecesOf(t) <=> TasksOf(t) \subseteq counted'
  <2>1. ASSUME TasksOf(t) \subseteq counted'
        PROVE  f(counted', t) = PiecesOf(t)
    <3>1. counted' \cap TasksOf(t) = TasksOf(t)
      BY <2>1, Zenon
    <3>2. \A l \in TasksOf(t) : l.piece \in PiecesOf(t)
      BY TaskFacts, Zenon
    <3>3. ASSUME NEW p \in PiecesOf(t)
          PROVE  \E l \in TasksOf(t) : l.piece = p
      <4>1. [tid |-> t, piece |-> p] \in TasksOf(t)
        BY TaskFacts, Zenon
      <4>2. QED
        BY <4>1, Zenon
    <3>4. QED
      BY <3>1, <3>2, <3>3, Zenon
  <2>2. ASSUME f(counted', t) = PiecesOf(t), NEW l \in TasksOf(t)
        PROVE  l \in counted'
    <3>1. l.piece \in PiecesOf(t)
      BY TaskFacts, Zenon
    <3>2. PICK m \in counted' \cap TasksOf(t) : m.piece = l.piece
      BY <2>2, <3>1, Zenon
    <3>3. m = l
      BY <3>2, TaskFacts, Zenon
    <3>4. QED
      BY <3>2, <3>3, Zenon
  <2>3. QED
    BY <1>1, <2>1, <2>2, Zenon
<1>8. TasksOf(t) \subseteq counted' <=> processed[t] + 1 = PiecesCount[t]
  <2>1. Cardinality(counted' \cap TasksOf(t)) = processed[t] + 1
    BY CountedOneMore, Zenon
  <2>2. IsFiniteSet(TasksOf(t)) /\ Cardinality(TasksOf(t)) = PiecesCount[t]
    BY TasksFinite, Zenon
  <2>3. counted' \cap TasksOf(t) \in SUBSET TasksOf(t)
    BY Zenon
  <2>4. Cardinality(counted' \cap TasksOf(t)) = Cardinality(TasksOf(t))
          <=> counted' \cap TasksOf(t) = TasksOf(t)
    BY <2>2, <2>3, FS_Subset, Zenon
  <2>5. QED
    BY <2>1, <2>2, <2>4, Zenon
<1>9. QED
  BY <1>5, <1>6, <1>7, <1>8, Zenon

\* Counting a piece finishes it, and makes the worker that counted the last
\* one complete the torrent.
LEMMA CountPieceFinishes ==
  ASSUME IInv, NEW w \in Workers, CountPiece(w)
  PROVE  A!Next
<1> DEFINE t == task[w].tid
<1>1. /\ wpc[w] = "count" /\ GoesTo(w, "complete")
      /\ seen' = [seen EXCEPT ![w] = processed[t] + 1]
      /\ counted' = counted \cup {task[w]}
      /\ UNCHANGED <<torrents, task, mpc, cur, loaded>>
  BY Zenon DEF CountPiece, At, mainVars
<1>2. task[w] \in TasksOf(t) /\ t \in TID
  BY <1>1, TaskFacts, Zenon DEF IInv, Core, WorkerLocals, Busy
<1>3. task[w] \notin counted
  BY <1>1, <1>2, TaskFacts, Zenon DEF IInv, Core, NoDuplicateWork, IsHeld, Holds
<1> HIDE DEF t
<1>4. torrents[t] \in {"Downloading", "Stopped"}
  <2>1. Started(t)
    BY <1>1, Zenon DEF IInv, Core, TasksBorn, Busy, t
  <2>2. processed[t] < PiecesCount[t]
    BY <1>2, <1>3, CountedOneMore, Zenon
  <2>3. torrents[t] # "Completed"
    <3>1. processed[t] \in Nat /\ PiecesCount[t] \in Nat
      BY <1>2, ConstantsAssumption, Zenon DEF IInv, TypeOK
    <3>2. QED
      BY <1>2, <2>2, <3>1 DEF IInv, Core, CompletedCounted
  <2>4. QED
    BY <2>1, <2>3, Zenon DEF Started
<1>5. AbstractStatus[t] \in {"Downloading", "Stopped"}
  BY <1>2, <1>4, Zenon DEF AbstractStatus
<1>6. /\ AbstractFinished' = [AbstractFinished EXCEPT ![t] = @ \cup {task[w].piece}]
      /\ task[w].piece \in PiecesOf(t) \ AbstractFinished[t]
      /\ AbstractFinished'[t] = PiecesOf(t) <=> processed[t] + 1 = PiecesCount[t]
  BY <1>1, <1>2, <1>3, FinishedIsCounted, Zenon
<1>7. AbstractCompleting' = IF AbstractFinished'[t] = PiecesOf(t)
                              THEN AbstractCompleting \cup {t} ELSE AbstractCompleting
  <2>1. /\ wpc'[w] = "complete" /\ seen'[w] = processed[t] + 1
        /\ \A v \in Workers \ {w} : wpc'[v] = wpc[v] /\ seen'[v] = seen[v]
    BY <1>1, Zenon DEF GoesTo, IInv, TypeOK
  <2>2. \A v \in Workers \ {w}, u \in TID : Completes(v, u)' <=> Completes(v, u)
    BY <1>1, <2>1, Zenon DEF Completes, IsLast
  <2>3. \A u \in TID : ~Completes(w, u)
    BY <1>1, Zenon DEF Completes
  <2>4. \A u \in TID : Completes(w, u)' <=> u = t /\ processed[t] + 1 = PiecesCount[t]
    BY <1>1, <2>1, Zenon DEF Completes, IsLast, t
  <2>5. QED
    BY <1>2, <1>6, <2>2, <2>3, <2>4, Zenon DEF AbstractCompleting
<1>8. UNCHANGED AbstractStatus /\ UNCHANGED AbstractStopping
  BY <1>1, AbstractFrame, Zenon
<1>9. A!FinishPiece(t, task[w].piece)
  BY <1>2, <1>5, <1>6, <1>7, <1>8, Zenon DEF A!FinishPiece
<1>10. QED
  BY <1>2, <1>6, <1>9, Zenon DEF A!Next

\* Of the workers that have counted a piece of a torrent only one has counted
\* the last; exchanging the state, it completes the torrent.
LEMMA CheckCompletedCompletes ==
  ASSUME IInv, NEW w \in Workers, CheckCompleted(w)
  PROVE  [A!Next]_(A!vars)
<1> DEFINE t == task[w].tid
<1>1. /\ wpc[w] = "complete"
      /\ UNCHANGED <<counted, mpc, cur, loaded>>
      /\ torrents' = IF IsLast(w) THEN [torrents EXCEPT ![t] = "Completed"] ELSE torrents
  BY Zenon DEF CheckCompleted, At, mainVars, diskVars
<1>2. t \in TID
  BY <1>1, TaskFacts, Zenon DEF IInv, Core, WorkerLocals, Busy
<1>3. /\ wpc'[w] = "alive"
      /\ \A v \in Workers \ {w} : wpc'[v] = wpc[v] /\ task'[v] = task[v] /\ seen'[v] = seen[v]
  BY Zenon DEF CheckCompleted, GoesTo, IInv, TypeOK
<1>4. \A u \in TID : ~Completes(w, u)'
  BY <1>3, Zenon DEF Completes
<1>5. \A v \in Workers \ {w}, u \in TID : Completes(v, u)' <=> Completes(v, u)
  BY <1>3, Zenon DEF Completes, IsLast
<1>6. UNCHANGED AbstractFinished /\ UNCHANGED AbstractStopping
  BY <1>1, AbstractFrame, Zenon
<1>7. CASE ~IsLast(w)
  <2>1. \A u \in TID : ~Completes(w, u)
    BY <1>7, Zenon DEF Completes
  <2>2. UNCHANGED AbstractCompleting
    BY <1>4, <1>5, <2>1, Zenon DEF AbstractCompleting
  <2>3. UNCHANGED AbstractStatus
    BY <1>1, <1>7, AbstractFrame, Zenon
  <2>4. QED
    BY <1>6, <2>2, <2>3, Zenon DEF A!vars
<1>8. CASE IsLast(w)
  <2>1. \A u \in TID : Completes(w, u) <=> u = t
    BY <1>1, <1>8, Zenon DEF Completes
  <2>2. \A v \in Workers \ {w} : ~Completes(v, t)
    BY <1>1, <1>8, Zenon DEF Completes, IsLast, IInv, Core, SeenSound
  <2>3. t \in AbstractCompleting /\ AbstractCompleting' = AbstractCompleting \ {t}
    BY <1>2, <1>4, <1>5, <2>1, <2>2, Zenon DEF AbstractCompleting
  <2>4. AbstractStatus' = [AbstractStatus EXCEPT ![t] = "Completed"]
    BY <1>1, <1>2, <1>8, Zenon DEF AbstractStatus, IInv, TypeOK
  <2>5. A!Complete(t)
    BY <1>6, <2>3, <2>4, Zenon DEF A!Complete
  <2>6. QED
    BY <1>2, <2>5, Zenon DEF A!Next
<1>9. QED
  BY <1>7, <1>8, Zenon

\* add_torrent shows one change of the torrent to the outside: it fails, or it
\* starts once all tasks are emplaced.
LEMMA AddFailsOrStarts ==
  ASSUME IInv, AddAnnounceFails \/ AddRegisters \/ AddStarts
  PROVE  [A!Next]_(A!vars)
<1> USE DEF queueVars, torrentVars, workerVars, mainVars, diskVars, MainAt
<1>1. cur \in TID
  BY Zenon DEF AddAnnounceFails, AddRegisters, AddStarts, IInv, Core, MainLocals
<1>2. torrents[cur] \in {"Absent", "Loading"}
  BY <1>1, Zenon DEF AddAnnounceFails, AddRegisters, AddStarts, IInv, Core, MainLocals, EntriesSound
<1>3. AbstractStatus[cur] = "None"
  BY <1>1, <1>2, Zenon DEF AbstractStatus
<1>4. /\ UNCHANGED <<counted, wpc, task, seen>>
      /\ mpc # "remove_store" /\ mpc' # "remove_store"
  BY Zenon DEF AddAnnounceFails, AddRegisters, AddStarts
<1>5. UNCHANGED AbstractFinished /\ UNCHANGED AbstractCompleting /\ UNCHANGED AbstractStopping
  BY <1>4, AbstractFrame, Zenon
<1>6. torrents \in [TID -> TorrentStates]
  BY Zenon DEF IInv, TypeOK
<1>7. CASE AddAnnounceFails
  <2>1. AbstractStatus' = [AbstractStatus EXCEPT ![cur] = "Error"]
    BY <1>1, <1>6, <1>7, Zenon DEF AddAnnounceFails, AbstractStatus
  <2>2. A!Fail(cur)
    BY <1>3, <1>5, <2>1, Zenon DEF A!Fail
  <2>3. QED
    BY <1>1, <2>2, Zenon DEF A!Next
<1>8. CASE AddRegisters
  <2>1. UNCHANGED AbstractStatus
    BY <1>1, <1>2, <1>6, <1>8, Zenon DEF AddRegisters, AbstractStatus
  <2>2. QED
    BY <1>5, <2>1, Zenon DEF A!vars
<1>9. CASE AddStarts
  <2>1. AbstractStatus' = [AbstractStatus EXCEPT ![cur] = "Downloading"]
    BY <1>1, <1>6, <1>9, Zenon DEF AddStarts, AbstractStatus
  <2>2. A!Start(cur)
    BY <1>3, <1>5, <2>1, Zenon DEF A!Start
  <2>3. QED
    BY <1>1, <2>2, Zenon DEF A!Next
<1>10. QED
  BY <1>7, <1>8, <1>9, Zenon

\* remove_torrent decides with the state it loads and stops the torrent when
\* it stores.
LEMMA RemoveStops ==
  ASSUME IInv, RemoveLoads \/ RemoveStores
  PROVE  [A!Next]_(A!vars)
<1> USE DEF queueVars, torrentVars, workerVars, mainVars, diskVars, MainAt
<1>1. /\ cur \in TID
      /\ torrents[cur] \in {"Downloading", "Completed", "Stopped", "Error"}
  BY Zenon DEF RemoveLoads, RemoveStores, IInv, Core, MainLocals
<1>2. UNCHANGED <<counted, wpc, task, seen>>
  BY Zenon DEF RemoveLoads, RemoveStores
<1>3. UNCHANGED AbstractFinished /\ UNCHANGED AbstractCompleting
  BY <1>2, AbstractFrame, Zenon
<1>4. CASE RemoveLoads
  <2>1. AbstractStopping = {} /\ UNCHANGED AbstractStatus
    BY <1>4, AbstractFrame, Zenon DEF RemoveLoads, AbstractStopping
  <2>2. CASE torrents[cur] \in {"Completed", "Error"}
    <3>1. AbstractStopping' = {}
      BY <1>4, <2>2, Zenon DEF RemoveLoads, AbstractStopping
    <3>2. QED
      BY <1>3, <2>1, <3>1, Zenon DEF A!vars
  <2>3. CASE torrents[cur] \in {"Downloading", "Stopped"}
    <3>1. AbstractStopping' = {cur}
      BY <1>1, <1>4, <2>3, Zenon DEF RemoveLoads, AbstractStopping
    <3>2. AbstractStatus[cur] \in {"Downloading", "Stopped"}
      BY <1>1, <2>3, Zenon DEF AbstractStatus
    <3>3. A!DecideStop(cur)
      BY <1>3, <2>1, <3>1, <3>2, Zenon DEF A!DecideStop
    <3>4. QED
      BY <1>1, <3>3, Zenon DEF A!Next
  <2>4. QED
    BY <1>1, <2>2, <2>3, Zenon
<1>5. CASE RemoveStores
  <2>1. AbstractStopping' = {}
    BY <1>5, Zenon DEF RemoveStores, AbstractStopping
  <2>2. CASE loaded \in {"Completed", "Error"}
    <3>1. AbstractStopping = {}
      BY <2>2, Zenon DEF AbstractStopping
    <3>2. UNCHANGED AbstractStatus
      BY <1>5, <2>2, AbstractFrame, Zenon DEF RemoveStores
    <3>3. QED
      BY <1>3, <2>1, <3>1, <3>2, Zenon DEF A!vars
  <2>3. CASE loaded \notin {"Completed", "Error"}
    <3>1. AbstractStopping = {cur}
      BY <1>1, <1>5, <2>3, Zenon DEF RemoveStores, AbstractStopping
    <3>2. AbstractStatus' = [AbstractStatus EXCEPT ![cur] = "Stopped"]
      BY <1>1, <1>5, <2>3, Zenon DEF RemoveStores, AbstractStatus, IInv, TypeOK
    <3>3. A!Stop(cur)
      BY <1>3, <2>1, <3>1, <3>2, Zenon DEF A!Stop
    <3>4. QED
      BY <1>1, <3>3, Zenon DEF A!Next
  <2>4. QED
    BY <2>2, <2>3, Zenon
<1>6. QED
  BY <1>4, <1>5, Zenon

\* The other steps of the main thread, and the steps inside a call of the
\* queue, change nothing that Torrents knows of.
LEMMA OthersStutter ==
  ASSUME IInv,
         \/ AddFails \/ AddPrepares \/ AddEmplaces
         \/ \E t \in TID : RemoveTasks(t) \/ GuiLoadsState(t)
         \/ GuiLoadsCount \/ GuiReturns
         \/ ShutdownSkips \/ ShutdownTerminates \/ ShutdownJoins
         \/ \E t \in Workers \cup {Main} : QueueRuns(t)
         \/ \E w \in Workers : QueueWakes(w)
         \/ Done \/ UNCHANGED vars
  PROVE  UNCHANGED A!vars
<1> USE DEF queueVars, torrentVars, workerVars, mainVars, diskVars
<1>1. UNCHANGED <<torrents, counted, wpc, task, seen>>
  BY Zenon DEF AddFails, AddPrepares, AddEmplaces, RemoveTasks, GuiLoadsState, GuiLoadsCount,
         GuiReturns, ShutdownSkips, ShutdownTerminates, ShutdownJoins, QueueRuns,
         QueueWakes, Done, vars
<1>2. \/ UNCHANGED <<mpc, cur, loaded>>
      \/ mpc # "remove_store" /\ mpc' # "remove_store"
  BY Zenon DEF AddFails, AddPrepares, AddEmplaces, RemoveTasks, GuiLoadsState, GuiLoadsCount,
         GuiReturns, ShutdownSkips, ShutdownTerminates, ShutdownJoins, QueueRuns,
         QueueWakes, Done, vars, MainAt
<1>3. QED
  BY <1>1, <1>2, AbstractFrame, Zenon DEF A!vars

\* At the start there is no torrent.
LEMMA AbstractInit ==
  ASSUME Init
  PROVE  A!Init
<1>1. AbstractStatus = [t \in TID |-> "None"]
  BY Zenon DEF Init, AbstractStatus
<1>2. AbstractFinished = [t \in TID |-> {}]
  BY Zenon DEF Init, AbstractFinished
<1>3. AbstractCompleting = {}
  BY Zenon DEF Init, AbstractCompleting, Completes
<1>4. AbstractStopping = {}
  BY Zenon DEF Init, AbstractStopping
<1>5. QED
  BY <1>1, <1>2, <1>3, <1>4, Zenon DEF A!Init

\* The threads of Furrent, their queue and their locks implement Torrents:
\* each piece counts once, the torrent is completed by the worker that
\* counted its last piece and by no other, and a removal stops it.
THEOREM Refinement == Spec => ImplementsTorrents
<1>1. Init => A!Init
  BY AbstractInit, Zenon
<1>2. ASSUME IInv, [Next]_vars
      PROVE  [A!Next]_(A!vars)
  <2>1. CASE \E w \in Workers : Worker(w)
    BY <1>2, <2>1, WorkerStutters, CountPieceFinishes, CheckCompletedCompletes, Zenon
       DEF Worker, WorkerRuns
  <2>2. CASE User \/ MainRuns
    BY <1>2, <2>2, OthersStutter, AddFailsOrStarts, RemoveStops, Zenon DEF User, MainRuns
  <2>3. CASE \/ \E t \in Workers \cup {Main} : QueueRuns(t)
             \/ \E w \in Workers : QueueWakes(w)
             \/ Done \/ UNCHANGED vars
    BY <1>2, <2>3, OthersStutter, Zenon
  <2>4. QED
    BY <1>2, <2>1, <2>2, <2>3, Zenon DEF Next
<1>3. QED
  BY <1>1, <1>2, Invariance, PTL DEF Spec, ImplementsTorrents, A!Spec
=============================================================================
