------------------------------- MODULE Socket -------------------------------
(***************************************************************************)
(* Socket: blocking operations with a timeout over one asynchronous        *)
(* operation of asio.  Each method schedules an operation whose callback   *)
(* refers to variables of the method itself, runs the runtime until the    *)
(* operation completes or the time is up, and in the latter case closes    *)
(* the socket and runs the runtime until nothing is scheduled.             *)
(*                                                                         *)
(* The runtime is modelled from how Socket uses it.  An operation moves    *)
(* its bytes in parts.  It waits for the system, or has a callback queued  *)
(* with the outcome of the last part.                                      *)
(***************************************************************************)
EXTENDS Integers

CONSTANTS MaxParts   \* bound: parts of an operation

ASSUME SocketAssumption == MaxParts \in Nat \ {0}

Codes == {"none", "success", "aborted", "bad_descriptor", "failure"}

VARIABLES
  open,       \* engine->socket.is_open()
  connecting, \* the method that runs or ran last is connect
  op,         \* the scheduled operation: none, waiting or queued
  code,       \* the outcome that the queued callback carries
  parts,      \* the parts of the operation still to be moved
  ec,         \* the local variable that the callback sets
  phase,      \* where the method is
  result,     \* of the last method that returned: none, OK, Timeout, Other
  expired     \* the time was up in that call

socketVars == <<open, connecting, op, code, parts, ec, phase, result, expired>>

\* The types of the state: an operation never has fewer than no parts left.
SocketTypeOK ==
  /\ open \in BOOLEAN
  /\ connecting \in BOOLEAN
  /\ op \in {"none", "waiting", "queued"}
  /\ code \in Codes
  /\ parts \in 0 .. MaxParts
  /\ ec \in Codes
  /\ phase \in {"idle", "running", "expired", "draining"}
  /\ result \in {"none", "OK", "Timeout", "Other"}
  /\ expired \in BOOLEAN

SocketInit ==
  /\ open = FALSE
  /\ connecting = FALSE
  /\ op = "none"
  /\ code = "none"
  /\ parts = 0
  /\ ec = "none"
  /\ phase = "idle"
  /\ result = "none"
  /\ expired = FALSE

\* asio: an operation on a socket that is not open fails at once, one that
\* has nothing to move (the rest of a keep-alive) succeeds at once.
Schedule(n, usable) ==
  /\ parts' = n
  /\ \/ n = 0 /\ op' = "queued" /\ code' = "success"
     \/ n > 0 /\ usable /\ op' = "waiting" /\ code' = "none"
     \/ n > 0 /\ ~usable /\ op' = "queued" /\ code' = "bad_descriptor"

\* connect, which opens the socket, up to ctx.run_for.
Connect ==
  /\ phase = "idle"
  /\ ~open
  /\ open' = TRUE
  /\ connecting' = TRUE
  /\ Schedule(1, TRUE)
  /\ ec' = "success"
  /\ phase' = "running"
  /\ expired' = FALSE
  /\ UNCHANGED result

\* read or write of n parts, up to ctx.run_for.
Transfer(n) ==
  /\ phase = "idle"
  /\ connecting' = FALSE
  /\ Schedule(n, open)
  /\ ec' = "success"
  /\ phase' = "running"
  /\ expired' = FALSE
  /\ UNCHANGED <<open, result>>

\* The system has moved a part, or reports an error (the peer is gone).
SystemAnswers(c) ==
  /\ op = "waiting"
  /\ op' = "queued"
  /\ code' = c
  /\ UNCHANGED <<open, connecting, parts, ec, phase, result, expired>>

\* Fault: a part is taken for the whole.
RunCallbackOnce ==
  /\ phase \in {"running", "draining"}
  /\ op = "queued"
  /\ op' = "none"
  /\ code' = "none"
  /\ parts' = IF code = "success" THEN parts - 1 ELSE parts
  /\ ec' = code
  /\ UNCHANGED <<open, connecting, phase, result, expired>>

\* The runtime runs the queued callback: the operation goes on with its next
\* part, on the socket as it is now, or is over and sets ec.  async_connect
\* looks at the socket again, and on a closed one reports that the operation
\* was aborted, whatever the system answered (asio/impl/connect.hpp:391-395).
RunCallback ==
  /\ phase \in {"running", "draining"}
  /\ op = "queued"
  /\ IF code = "success" /\ parts > 1
       THEN Schedule(parts - 1, open) /\ UNCHANGED ec
       ELSE /\ op' = "none"
            /\ code' = "none"
            /\ parts' = IF code = "success" THEN 0 ELSE parts
            /\ ec' = IF connecting /\ ~open THEN "aborted" ELSE code
  /\ UNCHANGED <<open, connecting, phase, result, expired>>

\* run_for returns because the time is up: the runtime is not stopped.
Expire ==
  /\ phase = "running"
  /\ op # "none"
  /\ phase' = "expired"
  /\ expired' = TRUE
  /\ UNCHANGED <<open, connecting, op, code, parts, ec, result>>

\* Closing a socket aborts the operation that waits; a callback that is queued
\* already stays queued, with what the system answered.
Cancelled ==
  IF op = "waiting" THEN op' = "queued" /\ code' = "aborted"
                    ELSE UNCHANGED <<op, code>>

\* Fault: the socket is only shut down.
OnlyShutDown ==
  /\ phase = "expired"
  /\ Cancelled
  /\ phase' = "draining"
  /\ UNCHANGED <<open, connecting, parts, ec, result, expired>>

\* Fault: the runtime runs on, and the socket stays as it is.
RunOn ==
  /\ phase = "expired"
  /\ phase' = "draining"
  /\ UNCHANGED <<open, connecting, op, code, parts, ec, result, expired>>

\* Fault: run returns without running the callbacks.
CloseAndReturn ==
  /\ phase = "expired"
  /\ open' = FALSE
  /\ Cancelled
  /\ phase' = "idle"
  /\ result' = "Timeout"
  /\ UNCHANGED <<connecting, parts, ec, expired>>

\* Shuts the socket down, closes it, and runs the runtime again.
CloseExpired ==
  /\ phase = "expired"
  /\ open' = FALSE
  /\ Cancelled
  /\ phase' = "draining"
  /\ UNCHANGED <<connecting, parts, ec, result, expired>>

\* What the methods make of the error code.
Outcome(c) ==
  CASE c = "success" -> "OK"
    [] c = "aborted" -> "Timeout"
    [] OTHER -> "Other"

\* The runtime is stopped, nothing is scheduled: the method returns.
Return ==
  /\ phase \in {"running", "draining"}
  /\ op = "none"
  /\ result' = Outcome(ec)
  /\ ec' = "none"
  /\ phase' = "idle"
  /\ UNCHANGED <<open, connecting, op, code, parts, expired>>

\* close.
Close ==
  /\ phase = "idle"
  /\ open' = FALSE
  /\ result' = "OK"
  /\ connecting' = FALSE
  /\ expired' = FALSE
  /\ parts' = 0
  /\ UNCHANGED <<op, code, ec, phase>>

Method == RunCallback \/ Expire \/ CloseExpired \/ Return

SocketNext ==
  \/ Connect
  \/ \E n \in 0 .. MaxParts : Transfer(n)
  \/ \E c \in {"success", "failure"} : SystemAnswers(c)
  \/ RunCallback
  \/ Expire
  \/ CloseExpired
  \/ Return
  \/ Close

\* Time passes, and the runtime runs what is queued: weak fairness of the
\* steps of a method.  Nothing is assumed of the peer.
SocketSpec == SocketInit /\ [][SocketNext]_socketVars /\ WF_socketVars(Method)

-----------------------------------------------------------------------------
(* Properties *)

\* When a method has returned no callback is left that could run in a later
\* one: the callbacks write to variables of the method that scheduled them.
NothingLeftBehind == phase = "idle" => op = "none" /\ ec = "none"

\* A method whose time was up leaves the socket closed, however late the
\* operation completed, and a method that reports a timeout was late; connect
\* always reports it.  What the peer sends after a timeout is never read as
\* the answer to something else.
TimeoutCloses ==
  phase = "idle" =>
    /\ expired => ~open
    /\ result = "Timeout" => expired
    /\ connecting /\ expired => result = "Timeout"

\* A method that returns OK moved every part: an operation that was cut short
\* is never reported as done.  A read or a write that moved every part returns
\* OK, even if the time was up before its callback ran, and a connect that
\* returns OK leaves an open socket.
OKMeansComplete ==
  phase = "idle" =>
    /\ result \in {"none", "OK"} => parts = 0
    /\ parts = 0 /\ ~connecting => result \in {"none", "OK"}
    /\ connecting /\ result = "OK" => open

\* Every method returns, even if the peer never sends or reads a byte.
MethodsReturn == phase # "idle" ~> phase = "idle"

-----------------------------------------------------------------------------
(* The inductive invariant *)

\* What the runtime has scheduled: a waiting operation has parts left and no
\* outcome, and only the socket that was closed for the timeout aborts one.
OperationSound ==
  /\ op = "none" => phase # "expired"
  /\ op = "waiting" => parts > 0 /\ phase \in {"running", "expired"}
  /\ op = "queued" => /\ code # "none"
                      /\ parts = 0 => code = "success"
                      /\ code = "aborted" => phase = "draining"

\* The variable the callback refers to is set while its method runs, tells
\* whether everything was moved, and is gone with the method.
CallbackSound ==
  /\ phase = "idle" => op = "none" /\ ec = "none"
  /\ phase # "idle" => /\ ec # "none"
                       /\ op # "none" => ec = "success"
                       /\ op = "none" /\ ec = "success" => parts = 0
                       /\ op = "none" /\ parts = 0 /\ ~connecting => ec = "success"
                       /\ ec = "aborted" => phase = "draining"

\* The time is up exactly in the methods that close the socket; connect has an
\* open one until then, and an aborted operation after.
ExpirySound ==
  /\ phase # "idle" => (expired <=> phase \in {"expired", "draining"})
  /\ phase = "draining" => ~open
  /\ connecting /\ phase \in {"running", "expired"} => open
  /\ connecting /\ phase = "draining" /\ op = "none" => ec = "aborted"

SocketInv ==
  /\ SocketTypeOK
  /\ OperationSound
  /\ CallbackSound
  /\ ExpirySound
  /\ TimeoutCloses
  /\ OKMeansComplete
=============================================================================
