----------------------------- MODULE LabAdapter -----------------------------
(***************************************************************************)
(* Calls of the real, read-only oracle_sql adapter by the gateway of the   *)
(* lab launcher.  The protocol loop runs adapter.fetch in a new daemon     *)
(* thread and waits for it for a bounded time (adapters.run_with_timeout); *)
(* when the time is over it answers E_TIMEOUT and abandons the thread,     *)
(* which goes on.  Threads meet at the adapter's non-blocking lock.  Each  *)
(* call has its own thread and its own result box: they are all named by   *)
(* the number of the call.                                                 *)
(***************************************************************************)
EXTENDS Naturals

CONSTANTS
    Databases,   \* what a connection can lead to
    Authorized,  \* those that are the database the profile authorizes
    Privileged,  \* those where the session holds more than the profile allows
    None,
    MaxCalls     \* bound of the model: calls of a session

Calls == 1..MaxCalls

\* The codes a thread can end with, those of driver, credential, SQL source and
\* result checks taken together.
Codes == {"OK", "E_AUTHORIZATION_EXPIRED", "E_BUSY", "E_ADAPTER_FAILED",
          "E_PRIVILEGES_EXCESSIVE", "E_TARGET_MISMATCH", "E_TIMEOUT"}

\* A result: its code, the thread it comes from (0: the loop gave up) and the
\* database the rows were read from.
Result == [code: Codes, by: Calls \cup {0}, from: Databases \cup {None}]

ASSUME LabAssumption ==
    /\ Authorized \subseteq Databases
    /\ Privileged \subseteq Databases
    /\ None \notin Databases \cup Result
    /\ MaxCalls \in Nat

VARIABLES
    made,          \* calls made so far
    loop,          \* the call the protocol loop waits for, or 0
    serving,       \* FALSE after end of input
    pc,            \* where each thread is
    holder,        \* the call whose thread holds the lock, or 0
    conn,          \* per call: the database it is connected to
    rows,          \* per call: the database its rows were read from
    err,           \* per call: the error it is about to raise, or "OK"
    box,           \* per call: the result its thread left
    reply,         \* per call: what the client got
    expired        \* has the human authorization run out?

vars == <<made, loop, serving, pc, holder, conn, rows, err, box, reply, expired>>

loopVars == <<made, loop, serving, reply>>

Init ==
    /\ made = 0 /\ loop = 0 /\ serving = TRUE
    /\ pc = [n \in Calls |-> "none"]
    /\ holder = 0
    /\ conn = [n \in Calls |-> None]
    /\ rows = [n \in Calls |-> None]
    /\ err = [n \in Calls |-> "OK"]
    /\ box = [n \in Calls |-> None]
    /\ reply = [n \in Calls |-> None]
    /\ expired = FALSE

-----------------------------------------------------------------------------
(* The protocol loop: run_with_timeout.                                    *)

Call ==
    /\ serving /\ loop = 0 /\ made < MaxCalls
    /\ made' = made + 1
    /\ loop' = made + 1
    /\ pc' = [pc EXCEPT ![made + 1] = "start"]
    /\ UNCHANGED <<serving, holder, conn, rows, err, box, reply, expired>>

Reply(r) ==
    /\ reply' = [reply EXCEPT ![loop] = r]
    /\ loop' = 0
    /\ UNCHANGED <<made, serving, pc, holder, conn, rows, err, box, expired>>

\* The thread ended within the time limit.
Answer == loop # 0 /\ pc[loop] = "done" /\ Reply(box[loop])

\* Faults: the loop releases the lock of the thread it gives up; only a thread that did
\* not start is given up.
TimeoutUnlocks ==
    /\ loop # 0 /\ pc[loop] # "done"
    /\ reply' = [reply EXCEPT ![loop] = [code |-> "E_TIMEOUT", by |-> 0, from |-> None]]
    /\ loop' = 0
    /\ holder' = 0
    /\ UNCHANGED <<made, serving, pc, conn, rows, err, box, expired>>

TimeoutUnstarted ==
    /\ loop # 0 /\ pc[loop] = "start"
    /\ Reply([code |-> "E_TIMEOUT", by |-> 0, from |-> None])

\* It is still alive when the time limit is over.
Timeout ==
    /\ loop # 0 /\ pc[loop] # "done"
    /\ Reply([code |-> "E_TIMEOUT", by |-> 0, from |-> None])

\* The client closes the input: the process exits and its daemon threads die.
Eof ==
    /\ serving /\ loop = 0
    /\ serving' = FALSE
    /\ UNCHANGED <<made, loop, pc, holder, conn, rows, err, box, reply, expired>>

-----------------------------------------------------------------------------
(* A thread: OracleSqlAdapter.fetch.                                       *)

At(n, step) == serving /\ pc[n] = step

Goto(n, step) == pc' = [pc EXCEPT ![n] = step]

\* The step raises: the error is kept and the thread unwinds from step.
Raise(n, code, step) == err' = [err EXCEPT ![n] = code] /\ Goto(n, step)

\* The profile and the registration were compared at startup; only the
\* authorization can have changed.
Check(n) ==
    /\ At(n, "start")
    /\ \/ ~expired /\ Goto(n, "lock") /\ UNCHANGED err
       \/ expired /\ Raise(n, "E_AUTHORIZATION_EXPIRED", "report")
    /\ UNCHANGED <<loopVars, holder, conn, rows, box, expired>>

Lock(n) ==
    /\ At(n, "lock")
    /\ \/ holder = 0 /\ holder' = n /\ Goto(n, "connect") /\ UNCHANGED err
       \/ holder # 0 /\ Raise(n, "E_BUSY", "report") /\ UNCHANGED holder
    /\ UNCHANGED <<loopVars, conn, rows, box, expired>>

\* Fault: a failed connection leaves the lock taken.
ConnectKeepsLock(n) ==
    /\ At(n, "connect")
    /\ \/ /\ \E d \in Databases : conn' = [conn EXCEPT ![n] = d]
          /\ Goto(n, "session")
          /\ UNCHANGED err
       \/ Raise(n, "E_ADAPTER_FAILED", "report") /\ UNCHANGED conn
    /\ UNCHANGED <<loopVars, holder, rows, box, expired>>

Connect(n) ==
    /\ At(n, "connect")
    /\ \/ /\ \E d \in Databases : conn' = [conn EXCEPT ![n] = d]
          /\ Goto(n, "session")
          /\ UNCHANGED err
       \/ Raise(n, "E_ADAPTER_FAILED", "unlock") /\ UNCHANGED conn
    /\ UNCHANGED <<loopVars, holder, rows, box, expired>>

\* One round trip on the open connection: it passes when ok holds and raises
\* code when it does not; the driver may fail, or the deadline may have passed.
RoundTrip(n, step, ok, code, then) ==
    /\ At(n, step)
    /\ \/ ok /\ Goto(n, then) /\ UNCHANGED err
       \/ ~ok /\ Raise(n, code, "close")
       \/ \E c \in {"E_ADAPTER_FAILED", "E_TIMEOUT"} : Raise(n, c, "close")
    /\ UNCHANGED <<loopVars, holder, conn, box, expired>>

\* Fault: the evidence is read before the identity is verified.
CheckSessionOnly(n) ==
    /\ RoundTrip(n, "session", conn[n] \notin Privileged, "E_PRIVILEGES_EXCESSIVE", "query")
    /\ UNCHANGED rows

CheckSession(n) ==
    /\ RoundTrip(n, "session", conn[n] \notin Privileged, "E_PRIVILEGES_EXCESSIVE", "identity")
    /\ UNCHANGED rows

CheckIdentity(n) ==
    /\ RoundTrip(n, "identity", conn[n] \in Authorized, "E_TARGET_MISMATCH", "query")
    /\ UNCHANGED rows

\* The rows, unless they are refused or the driver fails.
Query(n) ==
    /\ RoundTrip(n, "query", TRUE, "OK", "close")
    /\ rows' = IF err'[n] = "OK" THEN [rows EXCEPT ![n] = conn[n]] ELSE rows

\* rollback and close; what was read may still be too large to return.
Close(n) ==
    /\ At(n, "close")
    /\ conn' = [conn EXCEPT ![n] = None]
    /\ \/ Goto(n, "unlock") /\ UNCHANGED err
       \/ err[n] = "OK" /\ Raise(n, "E_ADAPTER_FAILED", "unlock")
    /\ UNCHANGED <<loopVars, holder, rows, box, expired>>

Unlock(n) ==
    /\ At(n, "unlock")
    /\ holder' = 0
    /\ Goto(n, "report")
    /\ UNCHANGED <<loopVars, conn, rows, err, box, expired>>

\* Fault: one box, read by whichever call is waiting.
ReportShared(n) ==
    /\ At(n, "report")
    /\ box' = [box EXCEPT ![IF loop = 0 THEN n ELSE loop] =
                    [code |-> err[n], by |-> n,
                     from |-> IF err[n] = "OK" THEN rows[n] ELSE None]]
    /\ Goto(n, "done")
    /\ UNCHANGED <<loopVars, holder, conn, rows, err, expired>>

\* The thread fills its box and ends.
Report(n) ==
    /\ At(n, "report")
    /\ box' = [box EXCEPT ![n] = [code |-> err[n], by |-> n,
                                  from |-> IF err[n] = "OK" THEN rows[n] ELSE None]]
    /\ Goto(n, "done")
    /\ UNCHANGED <<loopVars, holder, conn, rows, err, expired>>

Thread(n) ==
    \/ Check(n) \/ Lock(n) \/ Connect(n) \/ CheckSession(n)
    \/ CheckIdentity(n) \/ Query(n) \/ Close(n) \/ Unlock(n) \/ Report(n)

-----------------------------------------------------------------------------
\* Time passes the end of the authorization.
Expire ==
    /\ serving /\ ~expired
    /\ expired' = TRUE
    /\ UNCHANGED <<loopVars, pc, holder, conn, rows, err, box>>

Next ==
    \/ Call \/ Answer \/ Timeout \/ Eof \/ Expire
    \/ \E n \in Calls : Thread(n)

Spec == Init /\ [][Next]_vars

\* join has a time limit, so the loop goes on whatever the thread does.
LoopSpec == Spec /\ WF_vars(Answer \/ Timeout)

\* The threads are scheduled, and every driver call returns (connect timeout,
\* call_timeout).
ThreadsRun == \A n \in Calls : WF_vars(Thread(n))

-----------------------------------------------------------------------------
Steps == {"none", "start", "lock", "connect", "session", "identity",
          "query", "close", "unlock", "report", "done"}

TypeOK ==
    /\ made \in 0..MaxCalls
    /\ loop \in 0..made
    /\ serving \in BOOLEAN
    /\ pc \in [Calls -> Steps]
    /\ holder \in Calls \cup {0}
    /\ conn \in [Calls -> Databases \cup {None}]
    /\ rows \in [Calls -> Databases \cup {None}]
    /\ err \in [Calls -> Codes]
    /\ box \in [Calls -> Result \cup {None}]
    /\ reply \in [Calls -> Result \cup {None}]
    /\ expired \in BOOLEAN

(***************************************************************************)
(* However many calls the gateway has abandoned, there is never a second   *)
(* connection: only the thread that holds the lock has one.                *)
(***************************************************************************)
OneConnection == \A n \in Calls : conn[n] # None => holder = n

(***************************************************************************)
(* Rows reach the gateway only from the database that the profile          *)
(* authorizes, in a session without excessive privileges, wherever a       *)
(* connection may have led.                                                *)
(***************************************************************************)
VerifiedEvidence ==
    \A n \in Calls :
        reply[n] # None /\ reply[n].code = "OK" => reply[n].from \in Authorized \ Privileged

(***************************************************************************)
(* The late result of an abandoned call never answers a later one.         *)
(***************************************************************************)
OwnResult == \A n \in Calls : reply[n] # None => reply[n].by \in {0, n}

(***************************************************************************)
(* A call is refused with E_BUSY only if an earlier one was abandoned: a   *)
(* call that was answered has released the lock.                           *)
(***************************************************************************)
BusyMeansAbandoned ==
    \A n \in Calls :
        reply[n] # None /\ reply[n].code = "E_BUSY" =>
            \E m \in 1..(n - 1) : reply[m].by = 0

(***************************************************************************)
(* A slow adapter never blocks the protocol loop: every call is answered,  *)
(* even if the driver never returns.                                       *)
(***************************************************************************)
LoopResponds == loop # 0 ~> loop = 0

(***************************************************************************)
(* If the driver always returns, an abandoned call does not keep the lock  *)
(* for ever.                                                               *)
(***************************************************************************)
LockReleased == ThreadsRun => (holder # 0 ~> (holder = 0 \/ ~serving))
=============================================================================
