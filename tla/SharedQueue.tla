---------------------------- MODULE SharedQueue ----------------------------
(***************************************************************************)
(* mt::SharedQueue<T>: a policy::Queue<T> (a std::list) behind one mutex,  *)
(* with the condition variables _new_work_available and                    *)
(* _all_work_dispatched.                                                   *)
(*                                                                         *)
(* A critical section of _mutex is one step.  What the code does after it  *)
(* has released the mutex (every notify_all) is a step of its own, so any  *)
(* call of another thread may come in between.  A condition_variable::wait *)
(* with a predicate is: test, sleep, be woken (possibly spuriously), take  *)
(* the mutex and test again.                                               *)
(*                                                                         *)
(* The list only grows at its end, so it is represented by the set of its  *)
(* nodes, each with the ticket it was appended under: the order of the     *)
(* list is the order of the tickets, begin() the smallest.                 *)
(***************************************************************************)
EXTENDS Integers, FiniteSets

CONSTANTS
  Threads,     \* threads that call the queue
  Work         \* values of the template parameter T

VARIABLES
  work,          \* _work._items: set of nodes [ticket, item]
  next_ticket,   \* ticket of the next node appended (position of end())
  skip_waiting,  \* _skip_waiting
  call           \* where each thread is inside a call of the queue

queueVars == <<work, next_ticket, skip_waiting, call>>

(***************************************************************************)
(* "none": the thread is not in a call.  "notify_work" (notify_empty): the *)
(* mutex is released and notify_all of _new_work_available                 *)
(* (_all_work_dispatched) is next.  "wait_*": asleep on the condition      *)
(* variable.  "woken_*": woken, the predicate is to be tested again.       *)
(***************************************************************************)
CallStates == {"none", "notify_work", "notify_empty",
               "wait_work", "woken_work", "wait_empty", "woken_empty"}

Policies == {"LIFO", "FIFO"}

Nodes == [ticket : Nat, item : Work]

\* The types of the state. Every node of the list has a place in it, that is,
\* a ticket.
QueueTypeOK ==
  /\ work \in SUBSET Nodes
  /\ next_ticket \in Nat
  /\ skip_waiting \in BOOLEAN
  /\ call \in [Threads -> CallStates]

QueueInit ==
  /\ work = {}
  /\ next_ticket = 0
  /\ skip_waiting = FALSE
  /\ call = [t \in Threads |-> "none"]

-----------------------------------------------------------------------------
(* policy::Queue *)

\* LIFOPolicy::extract returns begin(), FIFOPolicy::extract returns --end().
Picks(policy, n) ==
  /\ n \in work
  /\ \/ /\ policy = "LIFO"
        /\ \A m \in work : n.ticket <= m.ticket
     \/ /\ policy = "FIFO"
        /\ \A m \in work : m.ticket <= n.ticket

\* Queue::insert and Queue::emplace append at end().
PushBack(w) ==
  /\ work' = work \cup {[ticket |-> next_ticket, item |-> w]}
  /\ next_ticket' = next_ticket + 1

-----------------------------------------------------------------------------
(* The calls *)

\* The thread t, in call state from, goes to call state to.
Goes(t, from, to) ==
  /\ call[t] = from
  /\ call' = [call EXCEPT ![t] = to]

\* Fault: the flag is not part of the predicate.
WorkOnly == work # {}

\* The predicate wait_work waits for.
WorkOrSkip == work # {} \/ skip_waiting

\* The predicate wait_empty waits for.
EmptyOrSkip == work = {} \/ skip_waiting

\* try_extract of a queue with no item: the result is Error::Empty, and
\* the queue being empty is signalled again.
TryExtractEmpty(t) ==
  /\ work = {}
  /\ Goes(t, "none", "notify_empty")
  /\ UNCHANGED <<work, next_ticket, skip_waiting>>

\* try_extract that returns the item of node n.
TryExtract(t, policy, n) ==
  /\ Picks(policy, n)
  /\ work' = work \ {n}
  /\ Goes(t, "none", IF work' = {} THEN "notify_empty" ELSE "none")
  /\ UNCHANGED <<next_ticket, skip_waiting>>

\* insert and emplace, up to the notification.
Emplace(t, w) ==
  /\ PushBack(w)
  /\ Goes(t, "none", "notify_work")
  /\ UNCHANGED skip_waiting

\* mutate with a function that is true of the items in W and changes none
\* (as the one in Furrent::remove_torrent), up to the force_wakeup it ends
\* with.
Mutate(t, W) ==
  /\ work' = {n \in work : n.item \notin W}
  /\ Goes(t, "none", "notify_work")
  /\ UNCHANGED <<next_ticket, skip_waiting>>

\* begin_skip_waiting, up to the force_wakeup it ends with.
BeginSkipWaiting(t) ==
  /\ skip_waiting' = TRUE
  /\ Goes(t, "none", "notify_work")
  /\ UNCHANGED <<work, next_ticket>>

\* Fault: sleeps without a look at the predicate.
WaitWorkBlindly(t) ==
  /\ Goes(t, "none", "wait_work")
  /\ UNCHANGED <<work, next_ticket, skip_waiting>>

\* wait_work: returns at once when its predicate holds, else sleeps.
WaitWork(t) ==
  /\ Goes(t, "none", IF WorkOrSkip THEN "none" ELSE "wait_work")
  /\ UNCHANGED <<work, next_ticket, skip_waiting>>

\* wait_empty: returns at once when its predicate holds, else sleeps.
WaitEmpty(t) ==
  /\ Goes(t, "none", IF EmptyOrSkip THEN "none" ELSE "wait_empty")
  /\ UNCHANGED <<work, next_ticket, skip_waiting>>

-----------------------------------------------------------------------------
(* Condition variables *)

\* What notify_all does to the threads asleep in call state from.
WakeAll(from, to) ==
  [u \in Threads |-> IF call[u] = from THEN to ELSE call[u]]

\* force_wakeup, called on its own.
ForceWakeup(t) ==
  /\ call[t] = "none"
  /\ call' = WakeAll("wait_work", "woken_work")
  /\ UNCHANGED <<work, next_ticket, skip_waiting>>

\* Fault: notify_one.
NotifyOne(t) ==
  /\ call[t] = "notify_work"
  /\ \/ /\ \A u \in Threads : call[u] # "wait_work"
        /\ call' = [call EXCEPT ![t] = "none"]
     \/ \E u \in Threads :
          /\ call[u] = "wait_work"
          /\ call' = [call EXCEPT ![u] = "woken_work", ![t] = "none"]
  /\ UNCHANGED <<work, next_ticket, skip_waiting>>

\* The _new_work_available.notify_all() that ends insert, emplace, mutate
\* and begin_skip_waiting.
NotifyWork(t) ==
  /\ call[t] = "notify_work"
  /\ call' = [WakeAll("wait_work", "woken_work") EXCEPT ![t] = "none"]
  /\ UNCHANGED <<work, next_ticket, skip_waiting>>

\* The _all_work_dispatched.notify_all() that ends try_extract.
NotifyEmpty(t) ==
  /\ call[t] = "notify_empty"
  /\ call' = [WakeAll("wait_empty", "woken_empty") EXCEPT ![t] = "none"]
  /\ UNCHANGED <<work, next_ticket, skip_waiting>>

\* A woken thread of wait_work tests its predicate with the mutex held.
RecheckWork(t) ==
  /\ Goes(t, "woken_work", IF WorkOrSkip THEN "none" ELSE "wait_work")
  /\ UNCHANGED <<work, next_ticket, skip_waiting>>

\* The same for a woken thread of wait_empty.
RecheckEmpty(t) ==
  /\ Goes(t, "woken_empty", IF EmptyOrSkip THEN "none" ELSE "wait_empty")
  /\ UNCHANGED <<work, next_ticket, skip_waiting>>

\* std::condition_variable may wake a thread nobody notified.
SpuriousWake(t) ==
  /\ \/ Goes(t, "wait_work", "woken_work")
     \/ Goes(t, "wait_empty", "woken_empty")
  /\ UNCHANGED <<work, next_ticket, skip_waiting>>

-----------------------------------------------------------------------------
Caller(t) ==
  \/ TryExtractEmpty(t)
  \/ \E policy \in Policies, n \in work : TryExtract(t, policy, n)
  \/ \E w \in Work : Emplace(t, w)
  \/ \E W \in SUBSET Work : Mutate(t, W)
  \/ BeginSkipWaiting(t)
  \/ WaitWork(t)
  \/ WaitEmpty(t)
  \/ ForceWakeup(t)

\* The steps a thread takes inside a call once it is running.
Continue(t) ==
  \/ NotifyWork(t)
  \/ NotifyEmpty(t)
  \/ RecheckWork(t)
  \/ RecheckEmpty(t)

QueueNext == \E t \in Threads : Caller(t) \/ Continue(t) \/ SpuriousWake(t)

QueueSpec == QueueInit /\ [][QueueNext]_queueVars

\* A running thread keeps running; no caller is obliged to make a call.
QueueFairSpec == QueueSpec /\ \A t \in Threads : WF_queueVars(Continue(t))

-----------------------------------------------------------------------------
(* Properties *)

InWaitWork(t) == call[t] \in {"wait_work", "woken_work"}

\* No wakeup is lost: while work is available or the queue skips waiting, a
\* thread that sleeps in wait_work is about to be notified, although every
\* notify_all comes after the mutex is released.
NoLostWakeup ==
  \A t \in Threads :
    call[t] = "wait_work" /\ WorkOrSkip
      => \E u \in Threads : call[u] = "notify_work"

\* Work that stays available releases every thread of wait_work: it returns
\* unless the queue becomes empty again first.
WaitWorkReturns ==
  \A t \in Threads :
    InWaitWork(t) /\ work # {} ~> ~InWaitWork(t) \/ work = {}

\* begin_skip_waiting releases the threads of wait_work for good: from some
\* moment on none is inside wait_work between two of its own calls.
SkipReleasesWorkers ==
  \A t \in Threads : skip_waiting ~> [](call[t] # "wait_work")
=============================================================================
