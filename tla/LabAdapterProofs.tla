-------------------------- MODULE LabAdapterProofs --------------------------
(***************************************************************************)
(* The safety of the adapter's calls for any number of calls and           *)
(* databases.  The inductive invariant says where a thread can be: inside  *)
(* the lock only one at a time, with a connection only between connect and *)
(* close, and, unless it was abandoned, only while the loop waits for it.  *)
(***************************************************************************)
EXTENDS LabAdapter, TLAPS

Connected == {"session", "identity", "query", "close"}

Inside == Connected \cup {"connect", "unlock"}

\* Who holds the lock and who has a connection.
LockOf(n) ==
    /\ pc[n] \in Inside => holder = n
    /\ conn[n] # None => pc[n] \in Connected
    /\ holder = n => pc[n] \in Inside

LockInv == \A n \in Calls : LockOf(n)

\* What was verified by the time the rows are read, returned and answered.
Verified(d) == d \in Authorized \ Privileged

EvidenceOf(n) ==
    /\ pc[n] \in Connected => conn[n] \in Databases
    /\ pc[n] \in {"identity", "query"} => conn[n] \notin Privileged
    /\ pc[n] = "query" => conn[n] \in Authorized
    /\ pc[n] \in {"close", "unlock", "report"} /\ err[n] = "OK" => Verified(rows[n])
    /\ box[n] # None /\ box[n].code = "OK" => Verified(box[n].from)
    /\ reply[n] # None /\ reply[n].code = "OK" => Verified(reply[n].from)

EvidenceInv == \A n \in Calls : EvidenceOf(n)

ResultOf(n) ==
    /\ box[n] # None => box[n].by = n
    /\ reply[n] # None => reply[n].by \in {0, n}

ResultInv == \A n \in Calls : ResultOf(n)

\* The calls are made one after the other, and each made call but the one the
\* loop waits for has its reply.
LoopOf(n) ==
    /\ loop \in {0, made}
    /\ n > made => pc[n] = "none"
    /\ n <= made /\ n # loop => reply[n] # None
    /\ reply[n] # None => n <= made /\ n # loop
    /\ pc[n] = "done" => box[n] # None

LoopInv == \A n \in Calls : LoopOf(n)

Abandoned(m) == reply[m] # None /\ reply[m].by = 0

AbandonedBefore(n) == \E m \in 1..(n - 1) : Abandoned(m)

\* A thread that is still under way is the one the loop waits for, or was
\* abandoned; one that met E_BUSY while the loop waited found an abandoned one.
BusyOf(n) ==
    /\ pc[n] = "none" => err[n] = "OK" /\ box[n] = None
    /\ pc[n] \notin {"none", "done"} => n = loop \/ Abandoned(n)
    /\ n = loop /\ err[n] = "E_BUSY" => AbandonedBefore(n)
    /\ n = loop /\ box[n] # None /\ box[n].code = "E_BUSY" => AbandonedBefore(n)
    /\ reply[n] # None /\ reply[n].code = "E_BUSY" => AbandonedBefore(n)

BusyInv == \A n \in Calls : BusyOf(n)

(* Steps keep the types. *)
LEMMA TypeStep ==
    ASSUME TypeOK, [Next]_vars
    PROVE  TypeOK'
<1> USE LabAssumption DEF TypeOK, Calls, Codes, Result, Steps
<1>1. CASE Call
  BY <1>1 DEF Call
<1>2. CASE Answer
  BY <1>2 DEF Answer, Reply
<1>3. CASE Timeout
  BY <1>3 DEF Timeout, Reply
<1>4. CASE Eof
  BY <1>4 DEF Eof
<1>5. CASE Expire
  BY <1>5 DEF Expire, loopVars
<1>6. ASSUME NEW n \in Calls, Thread(n)
      PROVE  TypeOK'
  <2>1. CASE Check(n)
    BY <2>1 DEF Check, At, Goto, Raise, loopVars
  <2>2. CASE Lock(n)
    BY <2>2 DEF Lock, At, Goto, Raise, loopVars
  <2>3. CASE Connect(n)
    <3>1. conn' \in [Calls -> Databases \cup {None}]
      BY <2>3 DEF Connect
    <3>2. pc' \in [Calls -> Steps] /\ err' \in [Calls -> Codes]
      BY <2>3 DEF Connect, Goto, Raise
    <3>3. QED
      BY <2>3, <3>1, <3>2 DEF Connect, loopVars
  <2>4. CASE CheckSession(n)
    BY <2>4 DEF CheckSession, RoundTrip, At, Goto, Raise, loopVars
  <2>5. CASE CheckIdentity(n)
    BY <2>5 DEF CheckIdentity, RoundTrip, At, Goto, Raise, loopVars
  <2>6. CASE Query(n)
    BY <2>6 DEF Query, RoundTrip, At, Goto, Raise, loopVars
  <2>7. CASE Close(n)
    BY <2>7 DEF Close, At, Goto, Raise, loopVars
  <2>8. CASE Unlock(n)
    BY <2>8 DEF Unlock, At, Goto, Raise, loopVars
  <2>9. CASE Report(n)
    BY <2>9 DEF Report, At, Goto, Raise, loopVars
  <2>10. QED
    BY <1>6, <2>1, <2>2, <2>3, <2>4, <2>5, <2>6, <2>7, <2>8, <2>9 DEF Thread
<1>7. CASE UNCHANGED vars
  BY <1>7 DEF vars
<1>8. QED
  BY <1>1, <1>2, <1>3, <1>4, <1>5, <1>6, <1>7 DEF Next

(* Steps keep the order of the calls. *)
LEMMA LoopStep ==
    ASSUME TypeOK, LoopInv, [Next]_vars
    PROVE  LoopInv'
<1> SUFFICES ASSUME NEW m \in Calls PROVE LoopOf(m)'
  BY DEF LoopInv
<1> USE LabAssumption DEF TypeOK, LoopInv, LoopOf, Calls, Steps, Result, Codes
<1>1. CASE Call
  BY <1>1 DEF Call
<1>2. CASE Answer
  BY <1>2 DEF Answer, Reply
<1>3. CASE Timeout
  <2>1. [code |-> "E_TIMEOUT", by |-> 0, from |-> None] \in Result
    OBVIOUS
  <2>2. QED
    BY ONLY <1>3, <2>1, LabAssumption, TypeOK, LoopInv, m \in Calls
      DEF Timeout, Reply, TypeOK, LoopInv, LoopOf, Calls
<1>4. CASE Eof
  BY <1>4 DEF Eof
<1>5. CASE Expire
  BY <1>5 DEF Expire, loopVars
<1>6. ASSUME NEW n \in Calls, Thread(n)
      PROVE  LoopOf(m)'
  <2>1. CASE Check(n)
    BY <2>1 DEF Check, At, Goto, Raise, loopVars
  <2>2. CASE Lock(n)
    BY <2>2 DEF Lock, At, Goto, Raise, loopVars
  <2>3. CASE Connect(n)
    BY <2>3 DEF Connect, At, Goto, Raise, loopVars
  <2>4. CASE CheckSession(n)
    BY <2>4 DEF CheckSession, RoundTrip, At, Goto, Raise, loopVars
  <2>5. CASE CheckIdentity(n)
    BY <2>5 DEF CheckIdentity, RoundTrip, At, Goto, Raise, loopVars
  <2>6. CASE Query(n)
    BY <2>6 DEF Query, RoundTrip, At, Goto, Raise, loopVars
  <2>7. CASE Close(n)
    BY <2>7 DEF Close, At, Goto, Raise, loopVars
  <2>8. CASE Unlock(n)
    BY <2>8 DEF Unlock, At, Goto, Raise, loopVars
  <2>9. CASE Report(n)
    <3> DEFINE r == [code |-> err[n], by |-> n,
                     from |-> IF err[n] = "OK" THEN rows[n] ELSE None]
    <3>1. r \in Result
      OBVIOUS
    <3>2. box' = [box EXCEPT ![n] = r] /\ pc' = [pc EXCEPT ![n] = "done"]
          /\ pc[n] = "report" /\ UNCHANGED <<made, loop, reply>>
      BY <2>9 DEF Report, At, Goto, loopVars
    <3> HIDE DEF r
    <3>3. QED
      BY ONLY <3>1, <3>2, LabAssumption, TypeOK, LoopInv, m \in Calls, n \in Calls
        DEF TypeOK, LoopInv, LoopOf, Calls
  <2>10. QED
    BY <1>6, <2>1, <2>2, <2>3, <2>4, <2>5, <2>6, <2>7, <2>8, <2>9 DEF Thread
<1>7. CASE UNCHANGED vars
  BY <1>7 DEF vars
<1>8. QED
  BY <1>1, <1>2, <1>3, <1>4, <1>5, <1>6, <1>7 DEF Next

(* Steps keep the lock's part of the invariant. *)
LEMMA LockStep ==
    ASSUME TypeOK, LockInv, LoopInv, [Next]_vars
    PROVE  LockInv'
<1> SUFFICES ASSUME NEW m \in Calls PROVE LockOf(m)'
  BY DEF LockInv
<1> USE LabAssumption DEF TypeOK, LockInv, LoopInv, LockOf, LoopOf, Inside, Connected, Calls, Steps
<1>1. CASE Call
  BY <1>1 DEF Call
<1>2. CASE Answer
  BY <1>2 DEF Answer, Reply
<1>3. CASE Timeout
  BY <1>3 DEF Timeout, Reply
<1>4. CASE Eof
  BY <1>4 DEF Eof
<1>5. CASE Expire
  BY <1>5 DEF Expire, loopVars
<1>6. ASSUME NEW n \in Calls, Thread(n)
      PROVE  LockOf(m)'
  <2>1. CASE Check(n)
    BY <2>1 DEF Check, At, Goto, Raise, loopVars
  <2>2. CASE Lock(n)
    BY <2>2 DEF Lock, At, Goto, Raise, loopVars
  <2>3. CASE Connect(n)
    BY <2>3 DEF Connect, At, Goto, Raise, loopVars
  <2>4. CASE CheckSession(n)
    BY <2>4 DEF CheckSession, RoundTrip, At, Goto, Raise, loopVars
  <2>5. CASE CheckIdentity(n)
    BY <2>5 DEF CheckIdentity, RoundTrip, At, Goto, Raise, loopVars
  <2>6. CASE Query(n)
    BY <2>6 DEF Query, RoundTrip, At, Goto, Raise, loopVars
  <2>7. CASE Close(n)
    BY <2>7 DEF Close, At, Goto, Raise, loopVars
  <2>8. CASE Unlock(n)
    <3>1. holder' = 0 /\ pc' = [pc EXCEPT ![n] = "report"] /\ pc[n] = "unlock"
          /\ conn' = conn /\ holder = n
      BY <2>8 DEF Unlock, At, Goto
    <3>2. conn[n] = None
      BY <3>1
    <3>3. m # n => pc[m] \notin Inside
      BY <3>1
    <3>4. QED
      BY <3>1, <3>2, <3>3
  <2>9. CASE Report(n)
    BY <2>9 DEF Report, At, Goto, Raise, loopVars
  <2>10. QED
    BY <1>6, <2>1, <2>2, <2>3, <2>4, <2>5, <2>6, <2>7, <2>8, <2>9 DEF Thread
<1>7. CASE UNCHANGED vars
  BY <1>7 DEF vars
<1>8. QED
  BY <1>1, <1>2, <1>3, <1>4, <1>5, <1>6, <1>7 DEF Next

(* Steps keep the evidence part. *)
LEMMA EvidenceStep ==
    ASSUME TypeOK, LockInv, LoopInv, EvidenceInv, [Next]_vars
    PROVE  EvidenceInv'
<1> SUFFICES ASSUME NEW m \in Calls PROVE EvidenceOf(m)'
  BY DEF EvidenceInv
<1> USE LabAssumption DEF TypeOK, LockInv, LoopInv, EvidenceInv, LockOf, LoopOf, EvidenceOf, Inside, Connected, Verified, Calls, Steps, Codes
<1>1. CASE Call
  BY <1>1 DEF Call
<1>2. CASE Answer
  BY <1>2 DEF Answer, Reply
<1>3. CASE Timeout
  BY <1>3 DEF Timeout, Reply
<1>4. CASE Eof
  BY <1>4 DEF Eof
<1>5. CASE Expire
  BY <1>5 DEF Expire, loopVars
<1>6. ASSUME NEW n \in Calls, Thread(n)
      PROVE  EvidenceOf(m)'
  <2>1. CASE Check(n)
    BY <2>1 DEF Check, At, Goto, Raise, loopVars
  <2>2. CASE Lock(n)
    BY <2>2 DEF Lock, At, Goto, Raise, loopVars
  <2>3. CASE Connect(n)
    BY <2>3 DEF Connect, At, Goto, Raise, loopVars
  <2>4. CASE CheckSession(n)
    <3>1. pc[n] = "session" /\ UNCHANGED <<conn, rows, box, reply>>
      BY <2>4 DEF CheckSession, RoundTrip, At, loopVars
    <3>2. m # n => pc'[m] = pc[m] /\ err'[m] = err[m]
      BY <2>4 DEF CheckSession, RoundTrip, Goto, Raise
    <3>3. m = n => \/ pc'[m] = "identity" /\ conn[m] \notin Privileged
                   \/ pc'[m] = "close" /\ err'[m] # "OK"
      BY <2>4 DEF CheckSession, RoundTrip, Goto, Raise
    <3>4. QED
      BY <3>1, <3>2, <3>3
  <2>5. CASE CheckIdentity(n)
    BY <2>5 DEF CheckIdentity, RoundTrip, At, Goto, Raise, loopVars
  <2>6. CASE Query(n)
    BY <2>6 DEF Query, RoundTrip, At, Goto, Raise, loopVars
  <2>7. CASE Close(n)
    BY <2>7 DEF Close, At, Goto, Raise, loopVars
  <2>8. CASE Unlock(n)
    BY <2>8 DEF Unlock, At, Goto, Raise, loopVars
  <2>9. CASE Report(n)
    BY <2>9 DEF Report, At, Goto, Raise, loopVars
  <2>10. QED
    BY <1>6, <2>1, <2>2, <2>3, <2>4, <2>5, <2>6, <2>7, <2>8, <2>9 DEF Thread
<1>7. CASE UNCHANGED vars
  BY <1>7 DEF vars
<1>8. QED
  BY <1>1, <1>2, <1>3, <1>4, <1>5, <1>6, <1>7 DEF Next

(* Steps keep the results apart. *)
LEMMA ResultStep ==
    ASSUME TypeOK, LoopInv, ResultInv, [Next]_vars
    PROVE  ResultInv'
<1> SUFFICES ASSUME NEW m \in Calls PROVE ResultOf(m)'
  BY DEF ResultInv
<1> USE LabAssumption DEF TypeOK, LoopInv, ResultInv, LoopOf, ResultOf, Calls
<1>1. CASE Call
  BY <1>1 DEF Call
<1>2. CASE Answer
  BY <1>2 DEF Answer, Reply
<1>3. CASE Timeout
  BY <1>3 DEF Timeout, Reply
<1>4. CASE Eof
  BY <1>4 DEF Eof
<1>5. CASE Expire
  BY <1>5 DEF Expire, loopVars
<1>6. ASSUME NEW n \in Calls, Thread(n)
      PROVE  ResultOf(m)'
  <2>1. CASE Check(n)
    BY <2>1 DEF Check, At, Goto, Raise, loopVars
  <2>2. CASE Lock(n)
    BY <2>2 DEF Lock, At, Goto, Raise, loopVars
  <2>3. CASE Connect(n)
    BY <2>3 DEF Connect, At, Goto, Raise, loopVars
  <2>4. CASE CheckSession(n)
    BY <2>4 DEF CheckSession, RoundTrip, At, Goto, Raise, loopVars
  <2>5. CASE CheckIdentity(n)
    BY <2>5 DEF CheckIdentity, RoundTrip, At, Goto, Raise, loopVars
  <2>6. CASE Query(n)
    BY <2>6 DEF Query, RoundTrip, At, Goto, Raise, loopVars
  <2>7. CASE Close(n)
    BY <2>7 DEF Close, At, Goto, Raise, loopVars
  <2>8. CASE Unlock(n)
    BY <2>8 DEF Unlock, At, Goto, Raise, loopVars
  <2>9. CASE Report(n)
    BY <2>9 DEF Report, At, Goto, Raise, loopVars
  <2>10. QED
    BY <1>6, <2>1, <2>2, <2>3, <2>4, <2>5, <2>6, <2>7, <2>8, <2>9 DEF Thread
<1>7. CASE UNCHANGED vars
  BY <1>7 DEF vars
<1>8. QED
  BY <1>1, <1>2, <1>3, <1>4, <1>5, <1>6, <1>7 DEF Next

(* Steps keep the account of the abandoned calls. *)
LEMMA BusyStep ==
    ASSUME TypeOK, LoopInv, ResultInv, LockInv, BusyInv, [Next]_vars
    PROVE  BusyInv'
<1> SUFFICES ASSUME NEW m \in Calls PROVE BusyOf(m)'
  BY DEF BusyInv
<1> USE LabAssumption DEF TypeOK, LoopInv, ResultInv, LockInv, BusyInv, LoopOf, ResultOf, LockOf, BusyOf, Inside, Connected, Calls, Codes, Steps
<1>1. CASE Call
  <2>1. (AbandonedBefore(m)' <=> AbandonedBefore(m)) /\ (Abandoned(m)' <=> Abandoned(m))
    BY <1>1 DEF Call, loopVars, Abandoned, AbandonedBefore
  <2>2. QED
    BY <1>1, <2>1 DEF Call, loopVars
<1>2. CASE Answer
  <2>1. loop \in Calls /\ reply[loop] = None /\ box[loop] # None /\ pc[loop] = "done"
        /\ reply' = [reply EXCEPT ![loop] = box[loop]] /\ loop' = 0
        /\ UNCHANGED <<pc, box, err>>
    BY <1>2 DEF Answer, Reply
  <2>2. \A k \in Calls : Abandoned(k) => Abandoned(k)'
    BY <2>1 DEF Abandoned
  <2>3. AbandonedBefore(m) => AbandonedBefore(m)'
    BY <2>2 DEF AbandonedBefore
  <2>4. m # loop => reply'[m] = reply[m]
    BY <2>1
  <2>5. m = loop => reply'[m] = box[m]
    BY <2>1
  <2>6. QED
    BY <2>1, <2>2, <2>3, <2>4, <2>5
<1>3. CASE Timeout
  <2> DEFINE r == [code |-> "E_TIMEOUT", by |-> 0, from |-> None]
  <2>1. loop \in Calls /\ reply[loop] = None
        /\ reply' = [reply EXCEPT ![loop] = r] /\ loop' = 0
        /\ UNCHANGED <<pc, box, err>>
    BY <1>3 DEF Timeout, Reply
  <2>2. r \in Result /\ r.by = 0 /\ r.code # "E_BUSY" /\ r # None
    BY DEF Result
  <2> HIDE DEF r
  <2>3. \A k \in Calls : Abandoned(k) => Abandoned(k)'
    BY <2>1, <2>2 DEF Abandoned
  <2>4. AbandonedBefore(m) => AbandonedBefore(m)'
    BY <2>3 DEF AbandonedBefore
  <2>5. m # loop => reply'[m] = reply[m]
    BY <2>1
  <2>6. m = loop => reply'[m] = r /\ Abandoned(m)'
    BY <2>1, <2>2 DEF Abandoned
  <2>7. QED
    BY <2>1, <2>2, <2>3, <2>4, <2>5, <2>6
<1>4. CASE Eof
  <2>1. (AbandonedBefore(m)' <=> AbandonedBefore(m)) /\ (Abandoned(m)' <=> Abandoned(m))
    BY <1>4 DEF Eof, loopVars, Abandoned, AbandonedBefore
  <2>2. QED
    BY <1>4, <2>1 DEF Eof, loopVars
<1>5. CASE Expire
  <2>1. (AbandonedBefore(m)' <=> AbandonedBefore(m)) /\ (Abandoned(m)' <=> Abandoned(m))
    BY <1>5 DEF Expire, loopVars, Abandoned, AbandonedBefore
  <2>2. QED
    BY <1>5, <2>1 DEF Expire, loopVars
<1>6. ASSUME NEW n \in Calls, Thread(n)
      PROVE  BusyOf(m)'
  <2>0. UNCHANGED loopVars /\ (AbandonedBefore(m)' <=> AbandonedBefore(m)) /\ (Abandoned(m)' <=> Abandoned(m))
    <3>1. UNCHANGED loopVars
      BY <1>6 DEF Thread, Check, Lock, Connect, CheckSession, CheckIdentity, Query, Close, Unlock, Report, RoundTrip
    <3>2. QED
      BY <3>1 DEF loopVars, Abandoned, AbandonedBefore
  <2>1. CASE Check(n)
    BY <2>0, <2>1 DEF Check, At, Goto, Raise, loopVars
  <2>2. CASE Lock(n)
    <3>1. pc[n] = "lock" /\ UNCHANGED <<loop, reply, box>>
      BY <2>2 DEF Lock, At, loopVars
    <3>2. m # n => pc'[m] = pc[m] /\ err'[m] = err[m]
      BY <2>2 DEF Lock, Goto, Raise
    <3>3. m = n /\ err'[m] = "E_BUSY" /\ err[m] # "E_BUSY" => holder # 0
      BY <2>2 DEF Lock, Raise
    <3>4. m = n => pc'[m] # "none"
      BY <2>2 DEF Lock, Goto, Raise
    <3>5. ASSUME holder # 0, n = loop
          PROVE  AbandonedBefore(n)
      <4>1. holder \in Calls /\ pc[holder] \in Inside
        BY <3>5
      <4>2. holder # n
        BY <3>1, <4>1
      <4>3. Abandoned(holder)
        BY <3>5, <4>1, <4>2
      <4>4. holder <= made /\ n = made
        BY <3>5, <4>1
      <4>5. holder \in 1..(n - 1)
        BY <4>1, <4>2, <4>4
      <4>6. QED
        BY <4>3, <4>5 DEF AbandonedBefore
    <3>6. CASE m = n
      BY <2>0, <3>1, <3>3, <3>4, <3>5, <3>6
    <3>7. CASE m # n
      BY <2>0, <3>1, <3>2, <3>7
    <3>8. QED
      BY <3>6, <3>7
  <2>3. CASE Connect(n)
    BY <2>0, <2>3 DEF Connect, At, Goto, Raise, loopVars
  <2>4. CASE CheckSession(n)
    <3>1. pc[n] \notin {"none", "done"} /\ UNCHANGED <<loop, reply, box>>
      BY <2>4 DEF CheckSession, RoundTrip, At, loopVars
    <3>2. IF m = n THEN pc'[m] # "none" ELSE pc'[m] = pc[m] /\ err'[m] = err[m]
      BY <2>4 DEF CheckSession, RoundTrip, Goto, Raise
    <3>3. err'[m] = "E_BUSY" => err[m] = "E_BUSY"
      BY <2>4 DEF CheckSession, RoundTrip, Raise
    <3>4. QED
      BY <2>0, <3>1, <3>2, <3>3
  <2>5. CASE CheckIdentity(n)
    <3>1. pc[n] \notin {"none", "done"} /\ UNCHANGED <<loop, reply, box>>
      BY <2>5 DEF CheckIdentity, RoundTrip, At, loopVars
    <3>2. IF m = n THEN pc'[m] # "none" ELSE pc'[m] = pc[m] /\ err'[m] = err[m]
      BY <2>5 DEF CheckIdentity, RoundTrip, Goto, Raise
    <3>3. err'[m] = "E_BUSY" => err[m] = "E_BUSY"
      BY <2>5 DEF CheckIdentity, RoundTrip, Raise
    <3>4. QED
      BY <2>0, <3>1, <3>2, <3>3
  <2>6. CASE Query(n)
    <3>1. pc[n] \notin {"none", "done"} /\ UNCHANGED <<loop, reply, box>>
      BY <2>6 DEF Query, RoundTrip, At, loopVars
    <3>2. IF m = n THEN pc'[m] # "none" ELSE pc'[m] = pc[m] /\ err'[m] = err[m]
      BY <2>6 DEF Query, RoundTrip, Goto, Raise
    <3>3. err'[m] = "E_BUSY" => err[m] = "E_BUSY"
      BY <2>6 DEF Query, RoundTrip, Raise
    <3>4. QED
      BY <2>0, <3>1, <3>2, <3>3
  <2>7. CASE Close(n)
    BY <2>0, <2>7 DEF Close, At, Goto, Raise, loopVars
  <2>8. CASE Unlock(n)
    BY <2>0, <2>8 DEF Unlock, At, Goto, Raise, loopVars
  <2>9. CASE Report(n)
    BY <2>0, <2>9 DEF Report, At, Goto, Raise, loopVars
  <2>10. QED
    BY <1>6, <2>1, <2>2, <2>3, <2>4, <2>5, <2>6, <2>7, <2>8, <2>9 DEF Thread
<1>7. CASE UNCHANGED vars
  BY <1>7 DEF vars, Abandoned, AbandonedBefore
<1>8. QED
  BY <1>1, <1>2, <1>3, <1>4, <1>5, <1>6, <1>7 DEF Next

Inv == TypeOK /\ LockInv /\ EvidenceInv /\ ResultInv /\ LoopInv /\ BusyInv

(* The inductive invariant holds in every reachable state. *)
THEOREM LabInv == Spec => []Inv
<1>1. Init => Inv
  <2> SUFFICES ASSUME Init PROVE Inv
    OBVIOUS
  <2> USE LabAssumption DEF Init
  <2>1. TypeOK
    <3>1. made \in 0..MaxCalls /\ loop \in 0..made
      OBVIOUS
    <3>2. err \in [Calls -> Codes] /\ pc \in [Calls -> Steps]
      BY DEF Codes, Steps
    <3>3. QED
      BY <3>1, <3>2 DEF TypeOK
  <2>2. LockInv
    BY DEF LockInv, LockOf, Calls, Inside, Connected
  <2>3. EvidenceInv
    BY DEF EvidenceInv, EvidenceOf, Connected
  <2>4. ResultInv
    BY DEF ResultInv, ResultOf
  <2>5. LoopInv
    BY DEF LoopInv, LoopOf, Calls
  <2>6. BusyInv
    BY DEF BusyInv, BusyOf, Calls
  <2>7. QED
    BY <2>1, <2>2, <2>3, <2>4, <2>5, <2>6 DEF Inv
<1>2. Inv /\ [Next]_vars => Inv'
  BY TypeStep, LockStep, EvidenceStep, ResultStep, LoopStep, BusyStep DEF Inv
<1>3. QED
  BY <1>1, <1>2, PTL DEF Spec

(***************************************************************************)
(* The protocol loop and the threads of oracle_sql keep their types.       *)
(***************************************************************************)
THEOREM LabTypeOK == Spec => []TypeOK
<1>1. Inv => TypeOK
  BY DEF Inv
<1>2. QED
  BY <1>1, LabInv, PTL

(***************************************************************************)
(* The lock of OracleSqlAdapter admits one connection at a time, however   *)
(* many calls run_with_timeout has abandoned.                              *)
(***************************************************************************)
THEOREM LabOneConnection == Spec => []OneConnection
<1>1. Inv => OneConnection
  BY DEF Inv, LockInv, LockOf, OneConnection, TypeOK, Inside
<1>2. QED
  BY <1>1, LabInv, PTL

(***************************************************************************)
(* Evidence comes only from the authorized database and session: every     *)
(* path from connect to the reply passes _check_session and                *)
(* _check_identity on that connection.                                     *)
(***************************************************************************)
THEOREM LabVerifiedEvidence == Spec => []VerifiedEvidence
<1>1. Inv => VerifiedEvidence
  BY DEF Inv, EvidenceInv, EvidenceOf, VerifiedEvidence, Verified
<1>2. QED
  BY <1>1, LabInv, PTL

(***************************************************************************)
(* A late result of run_with_timeout never answers another call.           *)
(***************************************************************************)
THEOREM LabOwnResult == Spec => []OwnResult
<1>1. Inv => OwnResult
  BY DEF Inv, ResultInv, ResultOf, OwnResult
<1>2. QED
  BY <1>1, LabInv, PTL

(***************************************************************************)
(* E_BUSY is the consequence of an abandoned call and of nothing else.     *)
(***************************************************************************)
THEOREM LabBusyMeansAbandoned == Spec => []BusyMeansAbandoned
<1>1. Inv => BusyMeansAbandoned
  BY DEF Inv, BusyInv, BusyOf, BusyMeansAbandoned, AbandonedBefore, Abandoned
<1>2. QED
  BY <1>1, LabInv, PTL
=============================================================================
