------------------------ MODULE SharedQueue_proofs -------------------------
(***************************************************************************)
(* Proofs about SharedQueue for every set of threads, every set of items   *)
(* and any number of insertions.                                           *)
(***************************************************************************)
EXTENDS SharedQueue, TLAPS

\* Every call and every step inside a call of the queue leaves its list, its
\* flag and the call states of the threads well-formed.
LEMMA QueueTypeStep ==
  QueueTypeOK /\ [QueueNext]_queueVars => QueueTypeOK'
<1> SUFFICES ASSUME QueueTypeOK, [QueueNext]_queueVars
             PROVE  QueueTypeOK'
  OBVIOUS
<1> USE DEF QueueTypeOK, CallStates, Goes
<1>1. ASSUME NEW t \in Threads, Caller(t)
      PROVE  QueueTypeOK'
  <2>1. CASE TryExtractEmpty(t)
    BY <2>1 DEF TryExtractEmpty
  <2>2. ASSUME NEW policy \in Policies, NEW n \in work,
               TryExtract(t, policy, n)
        PROVE  QueueTypeOK'
    BY <2>2 DEF TryExtract
  <2>3. ASSUME NEW w \in Work, Emplace(t, w)
        PROVE  QueueTypeOK'
    BY <2>3 DEF Emplace, PushBack, Nodes
  <2>4. ASSUME NEW W \in SUBSET Work, Mutate(t, W)
        PROVE  QueueTypeOK'
    BY <2>4 DEF Mutate
  <2>5. CASE BeginSkipWaiting(t)
    BY <2>5 DEF BeginSkipWaiting
  <2>6. CASE WaitWork(t)
    BY <2>6 DEF WaitWork
  <2>7. CASE WaitEmpty(t)
    BY <2>7 DEF WaitEmpty
  <2>8. CASE ForceWakeup(t)
    BY <2>8 DEF ForceWakeup, WakeAll
  <2>9. QED
    BY <1>1, <2>1, <2>2, <2>3, <2>4, <2>5, <2>6, <2>7, <2>8 DEF Caller
<1>2. ASSUME NEW t \in Threads, Continue(t)
      PROVE  QueueTypeOK'
  BY <1>2 DEF Continue, NotifyWork, NotifyEmpty, RecheckWork, RecheckEmpty,
              WakeAll
<1>3. ASSUME NEW t \in Threads, SpuriousWake(t)
      PROVE  QueueTypeOK'
  BY <1>3 DEF SpuriousWake
<1>4. CASE UNCHANGED queueVars
  BY <1>4 DEF queueVars
<1>5. QED
  BY <1>1, <1>2, <1>3, <1>4 DEF QueueNext

\* A new queue is well-formed.
LEMMA QueueTypeInit == QueueInit => QueueTypeOK
<1>1. QueueInit => skip_waiting \in BOOLEAN
  BY Zenon DEF QueueInit
<1>2. QueueInit => call \in [Threads -> CallStates]
  BY DEF QueueInit, CallStates
<1>3. QED
  BY <1>1, <1>2 DEF QueueInit, QueueTypeOK

\* The list, the flag and the call states of the threads are well-formed.
THEOREM QueueTypeCorrect == QueueSpec => []QueueTypeOK
BY QueueTypeInit, QueueTypeStep, PTL DEF QueueSpec

\* One step of the queue preserves NoLostWakeup.  A thread falls asleep in
\* wait_work only when its predicate is false, and every step that makes the
\* predicate true leaves its thread about to notify.
LEMMA NoLostWakeupStep ==
  QueueTypeOK /\ NoLostWakeup /\ [QueueNext]_queueVars => NoLostWakeup'
<1> SUFFICES ASSUME QueueTypeOK, NoLostWakeup, [QueueNext]_queueVars
             PROVE  NoLostWakeup'
  OBVIOUS
<1> USE DEF QueueTypeOK, NoLostWakeup, WorkOrSkip, Goes
<1>1. ASSUME NEW t \in Threads, Caller(t)
      PROVE  NoLostWakeup'
  <2>1. CASE TryExtractEmpty(t)
    BY <2>1 DEF TryExtractEmpty
  <2>2. ASSUME NEW policy \in Policies, NEW n \in work,
               TryExtract(t, policy, n)
        PROVE  NoLostWakeup'
    BY <2>2 DEF TryExtract
  <2>3. ASSUME NEW w \in Work, Emplace(t, w)
        PROVE  NoLostWakeup'
    BY <2>3 DEF Emplace
  <2>4. ASSUME NEW W \in SUBSET Work, Mutate(t, W)
        PROVE  NoLostWakeup'
    BY <2>4 DEF Mutate
  <2>5. CASE BeginSkipWaiting(t)
    BY <2>5 DEF BeginSkipWaiting
  <2>6. CASE WaitWork(t)
    BY <2>6 DEF WaitWork
  <2>7. CASE WaitEmpty(t)
    BY <2>7 DEF WaitEmpty
  <2>8. CASE ForceWakeup(t)
    BY <2>8 DEF ForceWakeup, WakeAll
  <2>9. QED
    BY <1>1, <2>1, <2>2, <2>3, <2>4, <2>5, <2>6, <2>7, <2>8 DEF Caller
<1>2. ASSUME NEW t \in Threads, Continue(t)
      PROVE  NoLostWakeup'
  <2>1. CASE NotifyWork(t)
    BY <2>1 DEF NotifyWork, WakeAll
  <2>2. CASE NotifyEmpty(t)
    BY <2>2 DEF NotifyEmpty, WakeAll
  <2>3. CASE RecheckWork(t)
    BY <2>3 DEF RecheckWork
  <2>4. CASE RecheckEmpty(t)
    BY <2>4 DEF RecheckEmpty
  <2>5. QED
    BY <1>2, <2>1, <2>2, <2>3, <2>4 DEF Continue
<1>3. ASSUME NEW t \in Threads, SpuriousWake(t)
      PROVE  NoLostWakeup'
  BY <1>3 DEF SpuriousWake
<1>4. CASE UNCHANGED queueVars
  BY <1>4 DEF queueVars
<1>5. QED
  BY <1>1, <1>2, <1>3, <1>4 DEF QueueNext

\* A thread asleep in wait_work while there is work, or while the queue
\* skips waiting, is always about to be notified.
THEOREM NoWakeupIsLost == QueueSpec => []NoLostWakeup
<1>1. QueueInit => NoLostWakeup
  BY DEF QueueInit, NoLostWakeup
<1>2. QED
  BY <1>1, QueueTypeCorrect, NoLostWakeupStep, PTL DEF QueueSpec
=============================================================================
