-------------------------- MODULE AdviceFlowProofs --------------------------
(***************************************************************************)
(* That a directory never holds the files of two commands, nor part of     *)
(* what a command reported, is shown for any inputs and any artifacts: the *)
(* proof uses nothing of _cmd, only the names of the files of an artifact. *)
(*                                                                         *)
(* SetsAreWhole is not inductive.  While a command writes, its directory   *)
(* holds exactly the files it has written so far, and is none where        *)
(* another command has reported success (FlowInv).                         *)
(*                                                                         *)
(* What the files say is the second part: ContentInv follows an advisory   *)
(* from the inputs it was made of to the decision on its digest and the    *)
(* e-stack that decision allowed.                                          *)
(***************************************************************************)
EXTENDS AdviceFlow, FiniteSetTheorems, TLAPS

FileNames == {"artifact_manifest.json", "estack.json", "advisory.json", "advisory.md",
              "document.json", "document.md"}

\* A directory that holds the files s of artifact a and nothing else.
Holds(d, s, a) == dirs[d] = [n \in s |-> a]

\* The first k files of an artifact.
Written(a, k) == {Names(a)[i] : i \in 1..k}

\* k files are written and the rest is to do.
JobAt(k) ==
    /\ k < Len(Names(job.artifact))
    /\ job = [dir |-> job.dir, artifact |-> job.artifact, todo |-> job.todo]
    /\ job.todo \in Seq(FileNames)
    /\ Len(job.todo) = Len(Names(job.artifact)) - k
    /\ \A i \in 1..Len(job.todo) : job.todo[i] = Names(job.artifact)[k + i]
    /\ Holds(job.dir, Written(job.artifact, k), job.artifact)

JobInv ==
    job # None => /\ job.dir \in Dirs /\ ~Refused(job.dir)
                  /\ \A r \in reported : r.dir # job.dir
                  /\ \E k \in Nat : JobAt(k)

DirInv(d) ==
    \/ dirs[d] = << >>
    \/ ~Refused(d) /\ \E a, s : Manifest \in s /\ Holds(d, s, a)

ReportInv(r) == r.dir \in Dirs /\ Holds(r.dir, ToSet(Names(r.artifact)), r.artifact)

FlowInv ==
    /\ DOMAIN dirs = Dirs
    /\ JobInv
    /\ \A d \in Dirs : DirInv(d)
    /\ \A r \in reported : ReportInv(r)

---------------------------------------------------------------------------
\* Tuples are sequences.
LEMMA PairIsSeq ==
    ASSUME NEW S, NEW p \in S, NEW q \in S
    PROVE  <<p, q>> \in Seq(S) /\ Len(<<p, q>>) = 2
OBVIOUS

\* The same for triples.
LEMMA TripleIsSeq ==
    ASSUME NEW S, NEW p \in S, NEW q \in S, NEW r \in S
    PROVE  <<p, q, r>> \in Seq(S) /\ Len(<<p, q, r>>) = 3
OBVIOUS

\* Names: at least two different names, the manifest first.
LEMMA NamesShape ==
    ASSUME NEW a
    PROVE  /\ Names(a) \in Seq(FileNames)
           /\ Len(Names(a)) \in {2, 3}
           /\ Names(a)[1] = Manifest
           /\ \A i, j \in 1..Len(Names(a)) : Names(a)[i] = Names(a)[j] => i = j
           /\ ToSet(Names(a)) = Written(a, Len(Names(a)))
<1>1. CASE Names(a) = <<"artifact_manifest.json", "estack.json">>
  <2>1. Names(a) \in Seq(FileNames) /\ Len(Names(a)) = 2
    BY <1>1, PairIsSeq DEF FileNames
  <2>2. Names(a)[1] = "artifact_manifest.json" /\ Names(a)[2] = "estack.json"
    BY <1>1
  <2>3. QED BY <2>1, <2>2 DEF Manifest, ToSet, Written
<1>2. CASE Names(a) = <<"artifact_manifest.json", "advisory.json", "advisory.md">>
  <2>1. Names(a) \in Seq(FileNames) /\ Len(Names(a)) = 3
    BY <1>2, TripleIsSeq DEF FileNames
  <2>2. /\ Names(a)[1] = "artifact_manifest.json" /\ Names(a)[2] = "advisory.json"
        /\ Names(a)[3] = "advisory.md"
    BY <1>2
  <2>3. QED BY <2>1, <2>2 DEF Manifest, ToSet, Written
<1>3. CASE Names(a) = <<"artifact_manifest.json", "document.json", "document.md">>
  <2>1. Names(a) \in Seq(FileNames) /\ Len(Names(a)) = 3
    BY <1>3, TripleIsSeq DEF FileNames
  <2>2. /\ Names(a)[1] = "artifact_manifest.json" /\ Names(a)[2] = "document.json"
        /\ Names(a)[3] = "document.md"
    BY <1>3
  <2>3. QED BY <2>1, <2>2 DEF Manifest, ToSet, Written
<1>4. QED BY <1>1, <1>2, <1>3, Zenon DEF Names, Manifest

\* An empty directory is one that holds no file of any artifact.
LEMMA EmptyHolds ==
    ASSUME NEW a PROVE << >> = [n \in {} |-> a]
OBVIOUS

\* What holds the first k files of an artifact holds its manifest, or nothing.
LEMMA WrittenManifest ==
    ASSUME NEW a, NEW k \in Nat, k <= Len(Names(a)), k # 0
    PROVE  Manifest \in Written(a, k)
BY NamesShape DEF Written

\* Before the first file there is none.
LEMMA WrittenNone ==
    ASSUME NEW a PROVE Written(a, 0) = {}
BY DEF Written

\* The next file is a new one.
LEMMA WrittenNext ==
    ASSUME NEW a, NEW k \in Nat, k < Len(Names(a))
    PROVE  /\ Names(a)[k + 1] \notin Written(a, k)
           /\ Written(a, k + 1) = Written(a, k) \cup {Names(a)[k + 1]}
<1>1. Names(a)[k + 1] \notin Written(a, k)
  BY NamesShape DEF Written
<1>2. 1..(k + 1) = (1..k) \cup {k + 1}
  OBVIOUS
<1>3. Written(a, k + 1) = Written(a, k) \cup {Names(a)[k + 1]}
  BY <1>2 DEF Written
<1>4. QED BY <1>1, <1>3

---------------------------------------------------------------------------
\* Empty directories and no command.
LEMMA FlowInit == Init => FlowInv
<1>1. SUFFICES ASSUME Init PROVE FlowInv
  OBVIOUS
<1>2. DOMAIN dirs = Dirs /\ \A d \in Dirs : dirs[d] = << >>
  BY <1>1 DEF Init
<1>3. QED BY <1>1, <1>2 DEF Init, FlowInv, JobInv, DirInv

\* _write_set looks for every name first: where there is a manifest it stops, and
\* every directory that is not empty has one.
LEMMA StartKeeps ==
    ASSUME FlowInv, job = None, NEW d \in Dirs, NEW artifact, Start(d, artifact)
    PROVE  FlowInv'
<1>1. dirs[d] = << >>
  BY NamesShape DEF FlowInv, DirInv, Start, Exists, Holds, ToSet
<1>2. \A r \in reported : r.dir # d
  <2>1. SUFFICES ASSUME NEW r \in reported PROVE dirs[r.dir] # << >>
    BY <1>1
  <2>2. Manifest \in Written(r.artifact, Len(Names(r.artifact)))
    BY NamesShape, WrittenManifest
  <2>3. Manifest \in DOMAIN dirs[r.dir]
    BY <2>2, NamesShape DEF FlowInv, ReportInv, Holds
  <2>4. QED BY <2>3
<1>3. job' = [dir |-> d, artifact |-> artifact, todo |-> Names(artifact)]
  BY DEF Start
<1>4. JobAt(0)'
  <2>1. dirs'[d] = [n \in Written(artifact, 0) |-> artifact]
    BY <1>1, EmptyHolds, WrittenNone DEF Start
  <2>2. QED BY <1>3, <2>1, NamesShape DEF JobAt, Holds
<1>5. JobInv'
  BY <1>2, <1>3, <1>4 DEF JobInv, Start, Refused
<1>6. (DOMAIN dirs = Dirs)' /\ (\A e \in Dirs : DirInv(e))' /\ (\A r \in reported : ReportInv(r))'
  BY DEF FlowInv, Start, DirInv, ReportInv, Holds, Refused
<1>7. QED BY <1>5, <1>6 DEF FlowInv

\* One more file, or the last and a report of success.
LEMMA WriteKeeps ==
    ASSUME FlowInv, Write
    PROVE  FlowInv'
<1>1. job # None /\ job.dir \in Dirs /\ ~Refused(job.dir) /\ \A r \in reported : r.dir # job.dir
  BY DEF Write, FlowInv, JobInv
<1>2. PICK k \in Nat : JobAt(k)
  BY <1>1 DEF FlowInv, JobInv
<1> DEFINE a == job.artifact
           N == Names(a)
<1>3. /\ k < Len(N) /\ Len(N) \in Nat /\ Len(job.todo) = Len(N) - k
      /\ job.todo \in Seq(FileNames) /\ Head(job.todo) = N[k + 1]
  <2>1. Len(N) \in Nat
    BY NamesShape
  <2>2. /\ k < Len(N) /\ Len(job.todo) = Len(N) - k /\ job.todo \in Seq(FileNames)
        /\ \A i \in 1..Len(job.todo) : job.todo[i] = N[k + i]
    BY <1>2, Zenon DEF JobAt
  <2>3. 1 \in 1..Len(job.todo)
    BY <2>1, <2>2
  <2>4. job.todo[1] = N[k + 1]
    BY <2>2, <2>3
  <2>5. QED BY <2>1, <2>2, <2>3, <2>4
<1>4. dirs[job.dir] = [n \in Written(a, k) |-> a]
  BY <1>2 DEF JobAt, Holds
<1>5. ~Exists(job.dir, Head(job.todo))
  BY <1>3, <1>4, WrittenNext DEF Exists
<1>6. /\ dirs' = [dirs EXCEPT ![job.dir] =
                     [n \in DOMAIN dirs[job.dir] \cup {Head(job.todo)} |->
                         IF n = Head(job.todo) THEN job.artifact ELSE dirs[job.dir][n]]]
      /\ job' = IF Len(job.todo) = 1 THEN None ELSE [job EXCEPT !.todo = Tail(@)]
      /\ reported' = IF Len(job.todo) = 1
                     THEN reported \cup {[dir |-> job.dir, artifact |-> job.artifact]}
                     ELSE reported
  BY <1>5 DEF Write
<1>7. /\ DOMAIN dirs' = Dirs
      /\ \A d \in Dirs : d # job.dir => dirs'[d] = dirs[d]
      /\ dirs'[job.dir] = [n \in Written(a, k + 1) |-> a]
  <2>1. DOMAIN dirs' = Dirs /\ \A d \in Dirs : d # job.dir => dirs'[d] = dirs[d]
    BY <1>1, <1>6 DEF FlowInv
  <2>2. dirs'[job.dir] = [n \in DOMAIN dirs[job.dir] \cup {Head(job.todo)} |->
                            IF n = Head(job.todo) THEN a ELSE dirs[job.dir][n]]
    BY <1>1, <1>6 DEF FlowInv
  <2>3. DOMAIN dirs[job.dir] \cup {Head(job.todo)} = Written(a, k + 1)
    BY <1>3, <1>4, WrittenNext
  <2>4. \A n \in Written(a, k) : dirs[job.dir][n] = a
    BY <1>4
  <2>5. QED BY <2>1, <2>2, <2>3, <2>4, <1>3, <1>4, WrittenNext
<1>8. \A d \in Dirs : DirInv(d)'
  <2>1. Manifest \in Written(a, k + 1)
    BY <1>3, WrittenManifest
  <2>2. SUFFICES ASSUME NEW d \in Dirs PROVE DirInv(d)'
    OBVIOUS
  <2>3. CASE d = job.dir
    BY <1>1, <1>7, <2>1, <2>3, Zenon DEF DirInv, Holds, Refused
  <2>4. CASE d # job.dir
    BY <1>7, <2>4 DEF FlowInv, DirInv, Holds, Refused
  <2>5. QED BY <2>3, <2>4
<1>9. \A r \in reported : ReportInv(r)'
  BY <1>1, <1>7 DEF FlowInv, ReportInv, Holds
<1>10. CASE Len(job.todo) = 1
  <2>1. job' = None /\ reported' = reported \cup {[dir |-> job.dir, artifact |-> a]}
    BY <1>6, <1>10
  <2>2. dirs'[job.dir] = [n \in ToSet(N) |-> a]
    <3>1. k + 1 = Len(N)
      <4>1. \A x, y \in Nat : x - y = 1 => y + 1 = x
        OBVIOUS
      <4>2. Len(N) \in Nat /\ Len(N) - k = 1
        BY <1>3, <1>10
      <4>3. QED BY <4>1, <4>2
    <3>2. ToSet(N) = Written(a, Len(N))
      BY NamesShape
    <3>3. QED BY <1>7, <3>1, <3>2
  <2>3. \A r \in reported' : ReportInv(r)'
    BY <1>1, <1>9, <2>1, <2>2 DEF ReportInv, Holds
  <2>4. QED BY <1>7, <1>8, <2>1, <2>3 DEF FlowInv, JobInv
<1>11. CASE Len(job.todo) # 1
  <2>1. job' = [job EXCEPT !.todo = Tail(@)] /\ reported' = reported
    BY <1>6, <1>11
  <2>2. job' = [dir |-> job.dir, artifact |-> a, todo |-> Tail(job.todo)]
    BY <1>2, <2>1 DEF JobAt
  <2>3. /\ Tail(job.todo) \in Seq(FileNames) /\ Len(Tail(job.todo)) = Len(N) - (k + 1)
        /\ \A i \in 1..Len(Tail(job.todo)) : Tail(job.todo)[i] = job.todo[i + 1]
    BY <1>3, <1>11
  <2>4. \A i \in 1..Len(Tail(job.todo)) : Tail(job.todo)[i] = N[(k + 1) + i]
    <3>1. \A i \in 1..Len(job.todo) : job.todo[i] = N[k + i]
      BY <1>2, Zenon DEF JobAt
    <3>2. SUFFICES ASSUME NEW i \in 1..Len(Tail(job.todo))
                   PROVE  Tail(job.todo)[i] = N[(k + 1) + i]
      OBVIOUS
    <3>3. i + 1 \in 1..Len(job.todo) /\ k + (i + 1) = (k + 1) + i
      <4>1. Len(Tail(job.todo)) = Len(job.todo) - 1 /\ Len(job.todo) \in Nat
        BY <1>3, <1>11
      <4>2. QED BY <4>1
    <3>4. QED BY <2>3, <3>1, <3>3
  <2>5. k + 1 < Len(N)
    BY <1>3, <1>11
  <2>6. JobAt(k + 1)'
    BY <1>7, <2>2, <2>3, <2>4, <2>5 DEF JobAt, Holds
  <2>7. JobInv'
    BY <1>1, <2>1, <2>2, <2>6 DEF JobInv, Refused
  <2>8. QED BY <1>7, <1>8, <1>9, <2>1, <2>7 DEF FlowInv
<1>12. QED BY <1>10, <1>11

\* Every step keeps the invariant; a review and a crash change no file.
LEMMA FlowStep ==
    ASSUME FlowInv, [Next]_vars PROVE FlowInv'
<1>1. CASE job = None /\ \E d \in Dirs, artifact \in _cmd : Start(d, artifact)
  BY <1>1, StartKeeps
<1>2. CASE Write
  BY <1>2, WriteKeeps
<1>3. CASE Crash
  BY <1>3 DEF Crash, FlowInv, JobInv, DirInv, ReportInv, Holds, Refused
<1>4. CASE UNCHANGED <<dirs, job, reported>>
  BY <1>4 DEF FlowInv, JobInv, JobAt, DirInv, ReportInv, Holds, Refused
<1>5. QED BY <1>1, <1>2, <1>3, <1>4 DEF Next, Review, vars

\* The invariant gives the property.
LEMMA FlowInvImplies == FlowInv => SetsAreWhole
<1>1. SUFFICES ASSUME FlowInv PROVE SetsAreWhole
  OBVIOUS
<1>2. \A r \in reported : dirs[r.dir] = [n \in ToSet(Names(r.artifact)) |-> r.artifact]
  BY <1>1 DEF FlowInv, ReportInv, Holds
<1>3. ASSUME NEW d \in Dirs
      PROVE  /\ Cardinality(Range(dirs[d])) <= 1
             /\ Refused(d) => dirs[d] = << >>
  <2>1. CASE dirs[d] = << >>
    <3>1. Range(dirs[d]) = {}
      BY <2>1 DEF Range
    <3>2. Cardinality(Range(dirs[d])) = 0
      BY <3>1, FS_EmptySet
    <3>3. QED BY <2>1, <3>2
  <2>2. CASE ~Refused(d) /\ \E a, s : Manifest \in s /\ Holds(d, s, a)
    <3>1. PICK a, s : Manifest \in s /\ dirs[d] = [n \in s |-> a]
      BY <2>2 DEF Holds
    <3>2. Range(dirs[d]) = {a}
      BY <3>1 DEF Range
    <3>3. Cardinality({a}) = 1
      BY FS_Singleton
    <3>4. Cardinality(Range(dirs[d])) = 1
      BY <3>2, <3>3
    <3>5. QED BY <2>2, <3>4
  <2>3. QED BY <1>1, <2>1, <2>2 DEF FlowInv, DirInv
<1>4. QED BY <1>2, <1>3 DEF SetsAreWhole

\* Whatever the commands are given and whenever they die, a directory holds the
\* files of one command only, and all of them once it returned OK (cli._write_set).
THEOREM FlowSetsAreWhole == Spec => []SetsAreWhole
<1>1. Init => FlowInv
  BY FlowInit
<1>2. FlowInv /\ [Next]_vars => FlowInv'
  BY FlowStep
<1>3. FlowInv => SetsAreWhole
  BY FlowInvImplies
<1>4. QED BY <1>1, <1>2, <1>3, PTL DEF Spec

-----------------------------------------------------------------------------
(* What the operators of ChangeAdvisory say.                               *)

\* Where no error comes first there is none (the lists here are short).
LEMMA NoFirstError ==
    ASSUME NEW errors, DOMAIN errors \subseteq 1..3, FirstError(errors) = None
    PROVE  \A i \in DOMAIN errors : errors[i] = None
<1> DEFINE raised == {i \in DOMAIN errors : errors[i] # None}
<1> SUFFICES ASSUME raised # {} PROVE FALSE
  OBVIOUS
<1>1. errors[CHOOSE i \in raised : \A j \in raised : i <= j] = None
  BY DEF FirstError
<1>2. raised \subseteq {1, 2, 3}
  OBVIOUS
<1>3. \E i \in raised : \A j \in raised : i <= j
  <2>1. CASE 1 \in raised
    BY <1>2, <2>1
  <2>2. CASE 1 \notin raised /\ 2 \in raised
    BY <1>2, <2>2
  <2>3. CASE 1 \notin raised /\ 2 \notin raised
    BY <1>2, <2>3
  <2> QED
    BY <2>1, <2>2, <2>3
<1> DEFINE first == CHOOSE i \in raised : \A j \in raised : i <= j
<1>4. first \in raised
  BY <1>3
<1> QED
  BY <1>1, <1>4

LEMMA NoRaise ==
    ASSUME NEW condition, NEW code, code # None, RaiseIf(condition, code) = None
    PROVE  ~condition
BY DEF RaiseIf

\* verify_authorization accepts a decision on exactly this artifact with this
\* digest, by somebody else than its proposers.
LEMMA Verified ==
    ASSUME NEW a, NEW decision, NEW artifact, NEW digest, NEW proposers,
           verify_authorization_error(a, decision, artifact, digest, proposers) = None
    PROVE  /\ a.decision = decision /\ a.artifact = artifact /\ a.digest = digest
           /\ a.reviewer \notin proposers
<1> DEFINE e1 == RaiseIf(a.decision # decision, "E_AUTH_INVALID")
           e2 == RaiseIf(a.artifact # artifact \/ a.digest # digest, "E_AUTH_DIGEST_MISMATCH")
           e3 == RaiseIf(a.reviewer \in proposers, "E_AUTH_SELF_APPROVAL")
<1>1. FirstError(<<e1, e2, e3>>) = None
  BY DEF verify_authorization_error
<1> HIDE DEF e1, e2, e3
<1>2. DOMAIN <<e1, e2, e3>> = 1..3
  OBVIOUS
<1>3. \A i \in 1..3 : <<e1, e2, e3>>[i] = None
  BY <1>1, <1>2, NoFirstError
<1>4. e1 = None /\ e2 = None /\ e3 = None
  BY <1>3
<1> QED
  BY <1>4, NoRaise, ErrorAssumption DEF e1, e2, e3

\* One record of human_authorizations, accepted.
LEMMA Accepted ==
    ASSUME NEW changes, NEW a, NEW proposers,
           AuthorizationError(changes, a, proposers) = None
    PROVE  a.artifact = changes[a.artifact[2]].id
           /\ a.digest = content_digest(changes[a.artifact[2]])
<1> DEFINE chg == changes[a.artifact[2]]
           e1 == RaiseIf(/\ a.decision # "REJECTED"
                         /\ chg.readiness \in {"BLOCKED", "INSUFFICIENT_EVIDENCE"},
                         "E_TRANSITION_DENIED")
           e2 == verify_authorization_error(a, a.decision, chg.id, content_digest(chg), proposers)
<1>1. FirstError(<<e1, e2>>) = None
  BY ErrorAssumption DEF AuthorizationError
<1> HIDE DEF e1, e2
<1>2. DOMAIN <<e1, e2>> = 1..2
  OBVIOUS
<1>3. \A i \in 1..2 : <<e1, e2>>[i] = None
  BY <1>1, <1>2, NoFirstError
<1>4. e2 = None
  BY <1>3
<1> QED
  BY <1>4, Verified DEF e2

-----------------------------------------------------------------------------
(* What is true of every change that is shown.                             *)

\* Nothing holds it back only if everything is settled.
Settled(c) ==
    c.readiness = "READY_FOR_HUMAN_REVIEW" =>
        /\ c.rca_state = "CONFIRMED" /\ c.evidence # {}
        /\ \A g \in GATES : c.gates[g] \in NON_BLOCKING
        /\ license_dependent(c.domain) => c.gates["license"] = "PASS"

\* Somebody approved it who had read exactly this.
ApprovedIn(c, D) ==
    c.status = "APPROVED_BY_HUMAN" =>
        \E d \in D : /\ d.auth.decision = "APPROVED"
                     /\ d.auth.artifact = c.id
                     /\ Artifact(d.seen) = Artifact(c)

\* A change of the e-stack that is approved is ready.
EstackReady(c) ==
    c.status = "APPROVED_BY_HUMAN" =>
        /\ \A i \in 1..(HUMAN_REVIEW - 1) : c.stages[i] = "PASS"
        /\ \A k \in ESTACK_COMPAT_CHECKS : c.compatibility[k] = "PASS"
        /\ c.stages[PROMOTE] = "NOT_RUN"
        /\ c.approval.reviewer # c.proposer

\* A decision is signed on the digest of what was read.
DecisionOk(d) ==
    /\ d.auth.decision \in {"APPROVED", "REJECTED"}
    /\ d.auth.artifact = d.seen.id
    /\ d.auth.digest = content_digest(d.seen)

\* A digest that covers every other field.
SealedOk(a) ==
    /\ {"digest", "changes"} \subseteq DOMAIN a
    /\ a.digest = [a EXCEPT !.digest = None]

ArtifactOk(a, D) ==
    /\ a.type \in {"change_advisory", "document", "estack_change_governance"}
    /\ a.type = "estack_change_governance" => ApprovedIn(a.change, D) /\ EstackReady(a.change)
    /\ a.type # "estack_change_governance" =>
            \A c \in ToSet(a.changes) : ApprovedIn(c, D) /\ Settled(c)
    /\ a.type = "change_advisory" => SealedOk(a)

\* More decisions leave what was approved approved.
LEMMA MoreDecisions ==
    ASSUME NEW a, NEW D, NEW E, D \subseteq E, ArtifactOk(a, D)
    PROVE  ArtifactOk(a, E)
<1>1. \A c : ApprovedIn(c, D) => ApprovedIn(c, E)
  BY DEF ApprovedIn
<1> QED
  BY <1>1 DEF ArtifactOk

ChangeFields ==
    {"id", "status", "readiness", "blockers", "review_reasons", "hypotheses", "findings",
     "evidence", "rca_state", "domain", "objective", "steps", "risk", "gates", "approval",
     "report"}

\* A proposal: not approved, and ready only when everything is settled.
ProposalOk(c) ==
    /\ DOMAIN c = ChangeFields
    /\ c.status # "APPROVED_BY_HUMAN"
    /\ Settled(c)

LEMMA ReadyFromView ==
    ASSUME NEW view, NEW rec, NEW supporting, NEW declared, NEW domain, NEW gates,
           gates = _gate_view(declared, domain),
           \E f : declared = [g \in GATES |-> f[g]],
           _readiness(blockers(gates, rec, supporting), review_reasons(view, gates), supporting)
               = "READY_FOR_HUMAN_REVIEW"
    PROVE  /\ view.root_cause.completeness = "CONFIRMED" /\ supporting # {}
           /\ \A g \in GATES : gates[g] \in NON_BLOCKING
           /\ license_dependent(domain) => gates["license"] = "PASS"
<1>1. /\ supporting # {} /\ blockers(gates, rec, supporting) = {}
      /\ review_reasons(view, gates) = {}
  BY DEF _readiness
<1>2. \A g \in GATES : gates[g] # "FAIL"
  BY <1>1 DEF blockers
<1>3. \A g \in GATES : gates[g] \in NON_BLOCKING \cup {"FAIL"}
  BY <1>1 DEF review_reasons
<1>4. view.root_cause.completeness = "CONFIRMED"
  BY <1>1 DEF review_reasons
<1>5. license_dependent(domain) => gates["license"] = "PASS"
  <2> SUFFICES ASSUME license_dependent(domain) PROVE gates["license"] = "PASS"
    OBVIOUS
  <2>1. "license" \in GATES /\ gates["license"] \in {"PASS", "NOT_APPLICABLE"}
    BY <1>2, <1>3 DEF GATES, NON_BLOCKING
  <2>2. gates["license"] # "NOT_APPLICABLE"
    <3>1. CASE declared["license"] = "NOT_APPLICABLE"
      <4>1. gates = [declared EXCEPT !["license"] = "UNKNOWN"]
        BY <3>1 DEF _gate_view
      <4>2. gates["license"] = "UNKNOWN"
        BY <2>1, <4>1
      <4> QED
        BY <4>2
    <3>2. CASE declared["license"] # "NOT_APPLICABLE"
      BY <3>2 DEF _gate_view
    <3> QED
      BY <3>1, <3>2
  <2> QED
    BY <2>1, <2>2
<1> QED
  BY <1>1, <1>2, <1>3, <1>4, <1>5

LEMMA ChangeOk ==
    ASSUME NEW view, NEW rec, NEW n, NEW linked, NEW declared,
           \E f : declared = [g \in GATES |-> f[g]]
    PROVE  ProposalOk(Change(view, rec, n, linked, _gate_view(declared, linked[1].domain)))
<1> DEFINE gates == _gate_view(declared, linked[1].domain)
           supporting == UNION {h.supporting : h \in ToSet(linked)}
           blocking == blockers(gates, rec, supporting)
           reviewing == review_reasons(view, gates)
           readiness == _readiness(blocking, reviewing, supporting)
           c == Change(view, rec, n, linked, gates)
<1>1. /\ c.readiness = readiness /\ c.rca_state = view.root_cause.completeness
      /\ c.evidence = supporting /\ c.gates = gates /\ c.domain = linked[1].domain
      /\ c.status \in {"DRAFT", "REVIEW_REQUIRED"}
      /\ DOMAIN c = ChangeFields
  <2> HIDE DEF gates, supporting
  <2> QED
    BY DEF Change, ChangeFields, supporting
<1>2. readiness = "READY_FOR_HUMAN_REVIEW" =>
          /\ view.root_cause.completeness = "CONFIRMED" /\ supporting # {}
          /\ \A g \in GATES : gates[g] \in NON_BLOCKING
          /\ license_dependent(linked[1].domain) => gates["license"] = "PASS"
  BY ReadyFromView
<1> HIDE DEF c, gates, supporting, readiness
<1>3. ProposalOk(c)
  BY <1>1, <1>2 DEF ProposalOk, Settled
<1> QED
  BY <1>3 DEF c, gates

\* What a declaration does not change.
LEMMA SameArtifact ==
    ASSUME NEW c, NEW e, DOMAIN c = ChangeFields, DOMAIN e = ChangeFields,
           \A f \in ChangeFields \ {"status", "approval", "report"} : e[f] = c[f]
    PROVE  Artifact(e) = Artifact(c) /\ e.id = c.id /\ (Settled(c) => Settled(e))
<1>1. Artifact(e) = Artifact(c)
  BY DEF Artifact
<1>2. {"id", "readiness", "rca_state", "evidence", "gates", "domain"}
          \subseteq ChangeFields \ {"status", "approval", "report"}
  BY DEF ChangeFields
<1>3. /\ e.id = c.id /\ e.readiness = c.readiness /\ e.rca_state = c.rca_state
      /\ e.evidence = c.evidence /\ e.gates = c.gates /\ e.domain = c.domain
  BY <1>2
<1> QED
  BY <1>1, <1>3 DEF Settled

\* A change after all declarations: it is approved by a record on it, or not.
LEMMA Declared ==
    ASSUME NEW c, ProposalOk(c), NEW n, NEW reports, NEW records, NEW e,
           e = Authorize(Report(c, n, reports), n, records)
    PROVE  /\ Artifact(e) = Artifact(c) /\ e.id = c.id /\ Settled(e)
           /\ e.status = "APPROVED_BY_HUMAN" =>
                \E i \in DOMAIN records : records[i].artifact[2] = n
                                        /\ records[i].decision # "REJECTED"
<1> DEFINE b == Report(c, n, reports)
           said == IF n \in ToSet(reports) THEN "HUMAN_REPORTED" ELSE c.report
           i == CHOOSE j \in LastOn(records, n) : TRUE
           a == records[i]
           st == IF a.decision = "REJECTED" THEN "REJECTED" ELSE "APPROVED_BY_HUMAN"
<1>1. DOMAIN c = ChangeFields /\ c.status # "APPROVED_BY_HUMAN" /\ Settled(c)
  BY DEF ProposalOk
<1>2. b = [c EXCEPT !.report = said]
  BY DEF Report
<1> HIDE DEF b, said
<1>3. /\ DOMAIN b = ChangeFields /\ b.status = c.status
      /\ \A f \in ChangeFields \ {"status", "approval", "report"} : b[f] = c[f]
  BY <1>1, <1>2 DEF ChangeFields
<1>4. CASE LastOn(records, n) = {}
  <2>1. e = b
    BY <1>4 DEF Authorize, b
  <2> QED
    BY <1>1, <1>3, <2>1, SameArtifact
<1>5. CASE LastOn(records, n) # {}
  <2>1. e = [b EXCEPT !.status = st, !.approval = a]
    BY <1>5 DEF Authorize, b
  <2>2. i \in LastOn(records, n)
    BY <1>5
  <2>3. i \in DOMAIN records /\ a.artifact[2] = n
    BY <2>2 DEF LastOn
  <2>4. st = "APPROVED_BY_HUMAN" => a.decision # "REJECTED"
    OBVIOUS
  <2> HIDE DEF a, st, i
  <2>5. /\ DOMAIN e = ChangeFields /\ e.status = st
        /\ \A f \in ChangeFields \ {"status", "approval", "report"} : e[f] = c[f]
    BY <1>3, <2>1 DEF ChangeFields
  <2>6. Artifact(e) = Artifact(c) /\ e.id = c.id /\ Settled(e)
    BY <1>1, <2>5, SameArtifact
  <2> QED
    BY <2>3, <2>4, <2>5, <2>6 DEF a
<1> QED
  BY <1>4, <1>5

\* At most three records, all from S.
ShortList(s, S) == DOMAIN s \subseteq 1..3 /\ \A i \in DOMAIN s : s[i] \in S

LEMMA SelectionShort ==
    ASSUME NEW s \in Selections PROVE ShortList(s, Authorizations)
<1>1. CASE s = <<>>
  BY <1>1 DEF ShortList
<1>2. ASSUME NEW a \in Authorizations, s = <<a>> PROVE ShortList(s, Authorizations)
  <2>1. DOMAIN s = {1} /\ s[1] = a
    BY <1>2
  <2> QED
    BY <2>1 DEF ShortList
<1>3. ASSUME NEW a \in Authorizations, NEW b \in Authorizations, s = <<a, b>>
      PROVE  ShortList(s, Authorizations)
  <2>1. DOMAIN s = 1..2 /\ s[1] = a /\ s[2] = b
    BY <1>3
  <2>2. \A i \in 1..2 : i = 1 \/ i = 2
    OBVIOUS
  <2> QED
    BY <2>1, <2>2 DEF ShortList
<1> QED
  BY <1>1, <1>2, <1>3 DEF Selections

\* A context file with the records it lists, or none.
Context(c, s) ==
    [gates |-> c.gates, proposers |-> c.proposers, reports |-> c.reports, authorizations |-> s]

ContextOf(x, S) == x = None \/ \E c, s : ShortList(s, S) /\ x = Context(c, s)

\* parse_change_context gives every gate a status.
LEMMA Parsed ==
    ASSUME NEW x, NEW S, ContextOf(x, S)
    PROVE  /\ \E f : parse_change_context(x).gates = [g \in GATES |-> f[g]]
           /\ ShortList(parse_change_context(x).authorizations, S)
<1> DEFINE p == parse_change_context(x)
<1>1. CASE x = None
  <2>1. p.gates = [g \in GATES |-> "UNKNOWN"] /\ p.authorizations = <<>>
    BY <1>1 DEF parse_change_context, EmptyContext
  <2>2. p.gates = [g \in GATES |-> p.gates[g]]
    BY <2>1
  <2> QED
    BY <2>1, <2>2 DEF ShortList
<1>2. CASE x # None
  <2>1. PICK c, s : /\ ShortList(s, S)
                    /\ x = [gates |-> c.gates, proposers |-> c.proposers,
                             reports |-> c.reports, authorizations |-> s]
    BY <1>2 DEF ContextOf, Context
  <2> DEFINE G == [g \in GATES |-> IF g \in DOMAIN x.gates THEN x.gates[g] ELSE "UNKNOWN"]
  <2>2. p = [x EXCEPT !.gates = G]
    BY <1>2 DEF parse_change_context
  <2>3. G = [g \in GATES |-> G[g]]
    OBVIOUS
  <2> HIDE DEF G
  <2>4. p.gates = G /\ p.authorizations = s
    BY <2>1, <2>2
  <2> QED
    BY <2>1, <2>3, <2>4
<1> QED
  BY <1>1, <1>2

\* The advisory: every change settled as it says, and approved as reviewed.
LEMMA AdvisoryOk ==
    ASSUME NEW view, NEW x, NEW D, \A d \in D : DecisionOk(d),
           ContextOf(x, {d.auth : d \in D}),
           build_change_advisory_error(view, x) = None
    PROVE  ArtifactOk(build_change_advisory(view, x), D)
<1> DEFINE ctx == parse_change_context(x)
           proposed == Proposals(view, ctx)
           records == ctx.authorizations
           final(n) == Authorize(Report(proposed[n], n, ctx.reports), n, records)
           changes == [n \in DOMAIN proposed |-> final(n)]
           adv == Advisory(view, changes)
           out == Sealed(adv)
<1>1. /\ \E f : ctx.gates = [g \in GATES |-> f[g]]
      /\ ShortList(records, {d.auth : d \in D})
  BY Parsed
<1>2. \A n \in DOMAIN proposed : ProposalOk(proposed[n])
  <2> DEFINE proposing == SelectSeq(view.recommendations, LAMBDA r : Proposing(view, r))
             linked(n) == Linked(view, proposing[n])
  <2>1. proposed = [n \in DOMAIN proposing |->
            Change(view, proposing[n], n, linked(n), _gate_view(ctx.gates, linked(n)[1].domain))]
    BY DEF Proposals
  <2> HIDE DEF proposing, linked, ctx, proposed
  <2> QED
    BY <1>1, <2>1, ChangeOk
<1>3. \A i \in DOMAIN records : AuthorizationError(proposed, records[i], ctx.proposers) = None
  <2> DEFINE errors == [i \in DOMAIN records |->
                          AuthorizationError(proposed, records[i], ctx.proposers)]
  <2>1. FirstError(errors) = None
    BY ErrorAssumption DEF build_change_advisory_error
  <2>2. DOMAIN errors = DOMAIN records /\ DOMAIN errors \subseteq 1..3
    BY <1>1 DEF ShortList
  <2>3. \A i \in DOMAIN errors : errors[i] = None
    BY <2>1, <2>2, NoFirstError
  <2> QED
    BY <2>2, <2>3
<1>4. build_change_advisory(view, x) = out
  BY DEF build_change_advisory
<1> HIDE DEF ctx, proposed, records
<1>5. ASSUME NEW n \in DOMAIN proposed PROVE ApprovedIn(final(n), D) /\ Settled(final(n))
  <2>1. /\ Artifact(final(n)) = Artifact(proposed[n]) /\ final(n).id = proposed[n].id
        /\ Settled(final(n))
        /\ final(n).status = "APPROVED_BY_HUMAN" =>
               \E i \in DOMAIN records : records[i].artifact[2] = n
                                       /\ records[i].decision # "REJECTED"
    BY <1>2, Declared
  <2> HIDE DEF final
  <2>2. ASSUME final(n).status = "APPROVED_BY_HUMAN"
        PROVE  \E d \in D : /\ d.auth.decision = "APPROVED"
                            /\ d.auth.artifact = final(n).id
                            /\ Artifact(d.seen) = Artifact(final(n))
    <3>1. PICK i \in DOMAIN records : records[i].artifact[2] = n
                                     /\ records[i].decision # "REJECTED"
      BY <2>1, <2>2
    <3>2. PICK d \in D : d.auth = records[i]
      BY <1>1 DEF ShortList
    <3>3. /\ records[i].artifact = proposed[n].id
          /\ records[i].digest = content_digest(proposed[n])
      BY <1>3, <3>1, Accepted
    <3>4. DecisionOk(d)
      OBVIOUS
    <3> QED
      BY <2>1, <3>1, <3>2, <3>3, <3>4 DEF DecisionOk, content_digest
  <2> QED
    BY <2>1, <2>2 DEF ApprovedIn
<1> HIDE DEF final
<1>6. \A c \in ToSet(changes) : ApprovedIn(c, D) /\ Settled(c)
  BY <1>5 DEF ToSet
<1> HIDE DEF changes
<1>7. /\ adv.type = "change_advisory" /\ adv.changes = changes
      /\ {"type", "digest", "changes"} \subseteq DOMAIN adv
  BY DEF Advisory
<1> HIDE DEF adv
<1>8. out = [adv EXCEPT !.digest = [adv EXCEPT !.digest = None]]
  BY DEF Sealed, AdvisoryDigest
<1> HIDE DEF out
<1>9. out.type = "change_advisory" /\ out.changes = changes
      /\ out.digest = [adv EXCEPT !.digest = None] /\ DOMAIN out = DOMAIN adv
  BY <1>7, <1>8
<1>10. [out EXCEPT !.digest = None] = [adv EXCEPT !.digest = None]
  BY <1>7, <1>8
<1>11. SealedOk(out)
  BY <1>7, <1>9, <1>10 DEF SealedOk
<1>12. ArtifactOk(out, D)
  BY <1>6, <1>9, <1>11 DEF ArtifactOk
<1> QED
  BY <1>4, <1>12

\* The report on a change of the e-stack.
LEMMA EstackOk ==
    ASSUME NEW r, NEW a, NEW D, \A d \in D : DecisionOk(d),
           a = None \/ a \in {d.auth : d \in D},
           NEW x, x = [stages |-> r.stages, compatibility |-> r.compatibility,
                       proposer |-> r.proposer, authorization |-> a],
           build_estack_change_error(x) = None
    PROVE  ArtifactOk(build_estack_change(x), D)
<1> DEFINE c == EstackChange(x)
           out == build_estack_change(x)
           e1 == RaiseIf(x.stages[PROMOTE] # "NOT_RUN", "E_TRANSITION_DENIED")
           e2 == RaiseIf(\E i, j \in DOMAIN x.stages :
                    i < j /\ x.stages[i] # "PASS" /\ x.stages[j] = "PASS", "E_INPUT_INVALID")
           e3 == IF x.authorization = None THEN None
                 ELSE IF governance_state(x) # "PENDING_HUMAN_REVIEW" THEN "E_TRANSITION_DENIED"
                 ELSE verify_authorization_error(x.authorization, "APPROVED", <<"CHG", 0>>,
                                                 content_digest(c), {x.proposer})
           fields == {"id", "status", "governance", "proposer", "stages", "compatibility",
                      "approval"}
<1>1. FirstError(<<e1, e2, e3>>) = None
  BY DEF build_estack_change_error
<1> HIDE DEF e1, e2, e3
<1>2. DOMAIN <<e1, e2, e3>> = 1..3
  OBVIOUS
<1>3. \A i \in 1..3 : <<e1, e2, e3>>[i] = None
  BY <1>1, <1>2, NoFirstError
<1>4. e1 = None /\ e3 = None
  BY <1>3
<1>5. x.stages[PROMOTE] = "NOT_RUN" /\ x.authorization = a
  BY <1>4, NoRaise, ErrorAssumption DEF e1
<1>6. /\ DOMAIN c = fields /\ c.id = <<"CHG", 0>> /\ c.stages = x.stages
      /\ c.compatibility = x.compatibility /\ c.proposer = x.proposer
      /\ c.status \in {"REVIEW_REQUIRED", "DRAFT"}
  BY DEF EstackChange
<1>7. CASE a = None
  <2>1. out.type = "estack_change_governance" /\ out.change = c
    BY <1>5, <1>7 DEF build_estack_change
  <2> HIDE DEF out, c
  <2> QED
    BY <1>6, <2>1 DEF ArtifactOk, ApprovedIn, EstackReady, out
<1>8. CASE a # None
  <2>1. governance_state(x) = "PENDING_HUMAN_REVIEW"
    BY <1>4, <1>5, <1>8, ErrorAssumption DEF e3
  <2>2. verify_authorization_error(a, "APPROVED", <<"CHG", 0>>, content_digest(c), {x.proposer})
            = None
    BY <1>4, <1>5, <1>8, <2>1 DEF e3
  <2>3. /\ a.decision = "APPROVED" /\ a.artifact = <<"CHG", 0>> /\ a.digest = content_digest(c)
        /\ a.reviewer # x.proposer
    BY <2>2, Verified
  <2>4. /\ \A i \in 1..(HUMAN_REVIEW - 1) : x.stages[i] = "PASS"
        /\ \A k \in ESTACK_COMPAT_CHECKS : x.compatibility[k] = "PASS"
    BY <2>1 DEF governance_state
  <2> DEFINE e == [c EXCEPT !.status = "APPROVED_BY_HUMAN", !.approval = a]
  <2>5. out.type = "estack_change_governance" /\ out.change = e
    BY <1>5, <1>8 DEF build_estack_change
  <2> HIDE DEF c
  <2>6. /\ DOMAIN e = fields /\ e.approval = a /\ e.id = c.id /\ e.stages = c.stages
        /\ e.compatibility = c.compatibility /\ e.proposer = c.proposer
        /\ \A f \in fields \ {"status", "approval", "report"} : e[f] = c[f]
    BY <1>6
  <2> HIDE DEF e, out, fields
  <2>7. Artifact(e) = Artifact(c)
    BY <1>6, <2>6 DEF Artifact
  <2>8. PICK d \in D : d.auth = a
    BY <1>8
  <2>9. ApprovedIn(e, D)
    BY <1>6, <2>3, <2>6, <2>7, <2>8 DEF ApprovedIn, DecisionOk, content_digest
  <2>10. EstackReady(e)
    BY <1>5, <1>6, <2>3, <2>4, <2>6 DEF EstackReady
  <2>11. ArtifactOk(out, D)
    BY <2>5, <2>9, <2>10 DEF ArtifactOk
  <2> QED
    BY <2>11 DEF out
<1> QED
  BY <1>7, <1>8

ChangesOk(changes, D) == \A c \in ToSet(changes) : ApprovedIn(c, D) /\ Settled(c)

\* A document shows the changes it is given, or none.
LEMMA DocumentOk ==
    ASSUME NEW kind, NEW status, NEW state, NEW warnings, NEW changes, NEW sources, NEW D,
           ChangesOk(changes, D)
    PROVE  ArtifactOk(_base(kind, status, state, warnings, changes, sources), D)
<1> DEFINE out == _base(kind, status, state, warnings, changes, sources)
<1>1. out.type = "document" /\ out.changes = changes
  BY DEF _base
<1> HIDE DEF out
<1>2. ArtifactOk(out, D)
  BY <1>1 DEF ArtifactOk, ChangesOk
<1> QED
  BY <1>2 DEF out

LEMMA DocumentsOk ==
    ASSUME NEW D
    PROVE  /\ \A x : ArtifactOk(build_assessment_report(x), D)
           /\ \A v, r : ArtifactOk(build_post_incident_review(v, r), D)
           /\ \A a : ChangesOk(a.changes, D) =>
                /\ ArtifactOk(build_change_report(a), D)
                /\ \A v : ArtifactOk(build_rca_report(v, a), D)
                         /\ ArtifactOk(build_executive_summary(v, a), D)
<1>1. ChangesOk(<<>>, D)
  BY DEF ChangesOk, ToSet
<1>2. \A x : ArtifactOk(build_assessment_report(x), D)
  BY <1>1, DocumentOk DEF build_assessment_report
<1>3. \A v, r : ArtifactOk(build_post_incident_review(v, r), D)
  BY <1>1, DocumentOk DEF build_post_incident_review
<1>4. ASSUME NEW a, ChangesOk(a.changes, D)
      PROVE  /\ ArtifactOk(build_change_report(a), D)
             /\ \A v : ArtifactOk(build_rca_report(v, a), D)
                      /\ ArtifactOk(build_executive_summary(v, a), D)
  <2>1. ChangesOk(ChangesOf(a), D)
    BY <1>1, <1>4 DEF ChangesOf
  <2>2. ArtifactOk(build_change_report(a), D)
    BY <1>4, DocumentOk DEF build_change_report
  <2>3. \A v : ArtifactOk(build_rca_report(v, a), D)
    BY <2>1, DocumentOk DEF build_rca_report
  <2>4. \A v : ArtifactOk(build_executive_summary(v, a), D)
    BY <2>1, DocumentOk DEF build_executive_summary
  <2> QED
    BY <2>2, <2>3, <2>4
<1> QED
  BY <1>2, <1>3, <1>4

\* An advisory somebody edited by hand has another digest than the one in it,
\* unless the edit changed nothing.
LEMMA AlteredShows ==
    ASSUME NEW w, SealedOk(w), validate_advisory_error(Altered(w)) = None
    PROVE  Altered(w).changes = w.changes
<1> DEFINE X == [n \in DOMAIN w.changes |->
                    [w.changes[n] EXCEPT !.status = "APPROVED_BY_HUMAN"]]
           a == Altered(w)
<1>1. a = [w EXCEPT !.changes = X]
  BY DEF Altered
<1>2. a.digest = AdvisoryDigest(a)
  <2> DEFINE e1 == RaiseIf(a.type # "change_advisory", "E_INPUT_INVALID")
             e2 == RaiseIf(a.digest # AdvisoryDigest(a), "E_INPUT_INVALID")
  <2>1. FirstError(<<e1, e2>>) = None
    BY DEF validate_advisory_error
  <2> HIDE DEF e1, e2
  <2>2. DOMAIN <<e1, e2>> = 1..2
    OBVIOUS
  <2>3. \A i \in 1..2 : <<e1, e2>>[i] = None
    BY <2>1, <2>2, NoFirstError
  <2>4. e2 = None
    BY <2>3
  <2> QED
    BY <2>4, NoRaise, ErrorAssumption DEF e2
<1> HIDE DEF X, a
<1>3. {"digest", "changes"} \subseteq DOMAIN w /\ w.digest = [w EXCEPT !.digest = None]
  BY DEF SealedOk
<1>4. a.digest = w.digest /\ a.changes = X /\ DOMAIN a = DOMAIN w
  BY <1>1, <1>3
<1>5. a.digest = [a EXCEPT !.digest = None]
  BY <1>2 DEF AdvisoryDigest
<1>6. a.digest["changes"] = X
  BY <1>3, <1>4, <1>5
<1>7. w.digest["changes"] = w.changes
  BY <1>3
<1> QED
  BY <1>4, <1>6, <1>7 DEF a

\* What is on disk, what is being written and what was signed.
ContentInv ==
    /\ \A a \in Published : ArtifactOk(a, decisions)
    /\ job # None => ArtifactOk(job.artifact, decisions)
    /\ \A d \in decisions : DecisionOk(d)

\* An advisory that a command accepts shows what the one on disk shows.
LEMMA ValidatedOk ==
    ASSUME ContentInv, NEW a \in Validated
    PROVE  ChangesOk(a.changes, decisions)
<1>1. a \in AdvisoryFiles /\ validate_advisory_error(a) = None
  BY DEF Validated
<1>2. PICK w \in OnDisk("change_advisory") : a = w \/ a = Altered(w)
  BY <1>1 DEF AdvisoryFiles
<1>3. w \in Published /\ w.type = "change_advisory"
  BY DEF OnDisk, Published
<1>4. ChangesOk(w.changes, decisions) /\ SealedOk(w)
  BY <1>3 DEF ContentInv, ArtifactOk, ChangesOk
<1>5. a.changes = w.changes
  BY <1>1, <1>2, <1>4, AlteredShows
<1> QED
  BY <1>4, <1>5

LEMMA AdvisoriesOk ==
    ASSUME ContentInv, NEW view, NEW a \in Advisories(view)
    PROVE  ArtifactOk(a, decisions) /\ ChangesOk(a.changes, decisions)
<1> DEFINE contexts == {None} \cup
                    {[gates |-> c.gates, proposers |-> c.proposers, reports |-> c.reports,
                      authorizations |-> s] : c \in Contexts, s \in Selections}
<1>1. PICK x \in contexts : /\ build_change_advisory_error(view, x) = None
                           /\ a = build_change_advisory(view, x)
  BY DEF Advisories
<1>2. ContextOf(x, {d.auth : d \in decisions})
  <2>1. CASE x = None
    BY <2>1 DEF ContextOf
  <2>2. CASE x # None
    <3>1. PICK c \in Contexts, s \in Selections :
              x = [gates |-> c.gates, proposers |-> c.proposers, reports |-> c.reports,
                   authorizations |-> s]
      BY <2>2
    <3>2. x = Context(c, s)
      BY <3>1 DEF Context
    <3> DEFINE S == {d.auth : d \in decisions}
    <3>3. ShortList(s, S)
      BY SelectionShort DEF Authorizations
    <3> HIDE DEF S, contexts
    <3>4. ContextOf(x, S)
      BY <3>2, <3>3 DEF ContextOf
    <3> QED
      BY <3>4 DEF S
  <2> QED
    BY <2>1, <2>2
<1>3. ArtifactOk(a, decisions)
  BY <1>1, <1>2, AdvisoryOk DEF ContentInv
<1>4. a.type = "change_advisory"
  <2>1. PICK y, z : a = [Advisory(y, z) EXCEPT !.digest = AdvisoryDigest(Advisory(y, z))]
    BY <1>1 DEF build_change_advisory, Sealed
  <2> DEFINE adv == Advisory(y, z)
             dg == AdvisoryDigest(adv)
  <2>2. adv.type = "change_advisory" /\ "type" \in DOMAIN adv
    BY DEF Advisory
  <2> HIDE DEF adv, dg
  <2>3. a = [adv EXCEPT !.digest = dg]
    BY <2>1 DEF adv, dg
  <2> QED
    BY <2>2, <2>3
<1> QED
  BY <1>3, <1>4 DEF ArtifactOk, ChangesOk

\* Whatever command runs, on whatever files: its artifact is in order.
LEMMA CommandOk ==
    ASSUME ContentInv, NEW a \in _cmd
    PROVE  ArtifactOk(a, decisions)
<1>1. CASE a \in _cmd_advise
  BY <1>1, AdvisoriesOk DEF _cmd_advise
<1>2. CASE a \in _cmd_advise_estack
  <2>1. PICK r \in Requests, u \in {None} \cup Authorizations :
            LET x == [stages |-> r.stages, compatibility |-> r.compatibility,
                      proposer |-> r.proposer, authorization |-> u]
            IN  build_estack_change_error(x) = None /\ a = build_estack_change(x)
    BY <1>2 DEF _cmd_advise_estack
  <2>2. u = None \/ u \in {d.auth : d \in decisions}
    BY DEF Authorizations
  <2> QED
    BY <2>1, <2>2, EstackOk DEF ContentInv
<1>3. ASSUME NEW kind \in Kinds, a \in _cmd_document(kind) PROVE ArtifactOk(a, decisions)
  <2>1. ASSUME NEW v, NEW b \in Advisories(v) \cup Validated
        PROVE  ChangesOk(b.changes, decisions)
    BY AdvisoriesOk, ValidatedOk
  <2>2. CASE kind = "assessment"
    BY <1>3, <2>2, DocumentsOk DEF _cmd_document
  <2>3. CASE kind = "change"
    BY <1>3, <2>3, ValidatedOk, DocumentsOk DEF _cmd_document
  <2>4. CASE kind = "rca"
    <3>1. PICK v \in Views : \E b \in Advisories(v) \cup Validated : a = build_rca_report(v, b)
      BY <1>3, <2>4 DEF _cmd_document
    <3>2. PICK b \in Advisories(v) \cup Validated : a = build_rca_report(v, b)
      BY <3>1
    <3> QED
      BY <2>1, <3>2, DocumentsOk
  <2>5. CASE kind = "executive"
    <3>1. PICK v \in Views : \E b \in Advisories(v) \cup Validated :
              a = build_executive_summary(v, b)
      BY <1>3, <2>5 DEF _cmd_document
    <3>2. PICK b \in Advisories(v) \cup Validated : a = build_executive_summary(v, b)
      BY <3>1
    <3> QED
      BY <2>1, <3>2, DocumentsOk
  <2>6. CASE kind = "post-incident"
    <3>1. PICK v \in Views, r \in Reviews : a = build_post_incident_review(v, r)
      BY <1>3, <2>6 DEF _cmd_document
    <3> QED
      BY <3>1, DocumentsOk
  <2> QED
    BY <2>2, <2>3, <2>4, <2>5, <2>6 DEF Kinds
<1> QED
  BY <1>1, <1>2, <1>3 DEF _cmd

-----------------------------------------------------------------------------

LEMMA ContentInit == Init => ContentInv
<1> SUFFICES ASSUME Init PROVE ContentInv
  OBVIOUS
<1>1. \A d \in Dirs : Range(dirs[d]) = {}
  BY DEF Init, Range
<1>2. Published = {}
  BY <1>1 DEF Published
<1> QED
  BY <1>2 DEF Init, ContentInv

LEMMA ContentStep ==
    ASSUME FlowInv, ContentInv, [Next]_vars PROVE ContentInv'
<1>1. ASSUME UNCHANGED <<dirs, decisions>>, job' = job \/ job' = None PROVE ContentInv'
  BY <1>1 DEF ContentInv, Published
<1>2. ASSUME job = None, NEW d \in Dirs, NEW artifact \in _cmd, Start(d, artifact)
      PROVE  ContentInv'
  <2>1. /\ UNCHANGED <<dirs, decisions>>
        /\ job' = [dir |-> d, artifact |-> artifact, todo |-> Names(artifact)]
    BY <1>2 DEF Start
  <2>2. job'.artifact = artifact
    BY <2>1
  <2>3. ArtifactOk(artifact, decisions)
    BY CommandOk
  <2> QED
    BY <2>1, <2>2, <2>3 DEF ContentInv, Published
<1>3. CASE Write
  <2>1. job # None /\ job.dir \in Dirs /\ decisions' = decisions /\ DOMAIN dirs = Dirs
    BY <1>3 DEF Write, FlowInv, JobInv
  <2>2. PICK k \in Nat : JobAt(k)
    BY <2>1 DEF FlowInv, JobInv
  <2>3. job' # None => job'.artifact = job.artifact
    <3>1. job' = None \/ job' = [job EXCEPT !.todo = Tail(@)]
      BY <1>3 DEF Write
    <3>2. job = [dir |-> job.dir, artifact |-> job.artifact, todo |-> job.todo]
      BY <2>2 DEF JobAt
    <3> QED
      BY <3>1, <3>2
  <2>4. Published' \subseteq Published \cup {job.artifact}
    <3>1. CASE dirs' = dirs
      BY <3>1 DEF Published
    <3> DEFINE h == Head(job.todo)
               new == [n \in DOMAIN dirs[job.dir] \cup {h} |->
                          IF n = h THEN job.artifact ELSE dirs[job.dir][n]]
    <3>2. CASE dirs' = [dirs EXCEPT ![job.dir] = new]
      <4>1. Range(new) \subseteq Range(dirs[job.dir]) \cup {job.artifact}
        BY DEF Range
      <4> HIDE DEF new
      <4>2. \A d \in Dirs : dirs'[d] = IF d = job.dir THEN new ELSE dirs[d]
        BY <2>1, <3>2
      <4>3. \A d \in Dirs : Range(dirs'[d]) \subseteq Range(dirs[d]) \cup {job.artifact}
        BY <4>1, <4>2
      <4> QED
        BY <4>3 DEF Published
    <3> QED
      BY <1>3, <3>1, <3>2 DEF Write
  <2> QED
    BY <2>1, <2>3, <2>4 DEF ContentInv
<1>4. CASE Crash
  BY <1>1, <1>4 DEF Crash
<1>5. ASSUME NEW r, NEW decision \in {"APPROVED", "REJECTED"}, NEW c, Review(r, decision, c)
      PROVE  ContentInv'
  <2> DEFINE d == [auth |-> [decision |-> decision, artifact |-> c.id,
                             digest |-> content_digest(c), reviewer |-> r],
                   seen |-> c]
  <2>1. UNCHANGED <<dirs, job>> /\ decisions' = decisions \cup {d}
    BY <1>5 DEF Review
  <2>2. DecisionOk(d)
    BY DEF DecisionOk
  <2> HIDE DEF d
  <2>3. \A a : ArtifactOk(a, decisions) => ArtifactOk(a, decisions')
    BY <2>1, MoreDecisions
  <2> QED
    BY <2>1, <2>2, <2>3 DEF ContentInv, Published
<1>6. CASE UNCHANGED vars
  BY <1>1, <1>6 DEF vars
<1> QED
  BY <1>2, <1>3, <1>4, <1>5, <1>6 DEF Next

\* Every state of the flow has its files in order and their content too.
LEMMA FlowContent == Spec => []ContentInv
<1>1. Init => FlowInv /\ ContentInv
  BY FlowInit, ContentInit
<1>2. FlowInv /\ ContentInv /\ [Next]_vars => FlowInv' /\ ContentInv'
  BY FlowStep, ContentStep
<1>3. QED BY <1>1, <1>2, PTL DEF Spec

\* A change is shown as approved, in any advisory, governance report or
\* document, only if a reviewer approved it having read exactly this change;
\* for any incidents, catalogs, contexts and requests, also when an advisory
\* was edited by hand (common.content_digest, authorization.verify_authorization,
\* documents.validate_advisory).
THEOREM FlowApprovedAsReviewed == Spec => []ApprovedAsReviewed
<1>1. ContentInv => ApprovedAsReviewed
  BY DEF ContentInv, ArtifactOk, ApprovedIn, ApprovedAsReviewed, Shown
<1> QED
  BY <1>1, FlowContent, PTL

\* A change of the e-stack is approved only when every stage before the review
\* and every compatibility check passed, nothing is promoted, and its reviewer
\* is not its proposer (change.build_estack_change).
THEOREM FlowEstackApproved == Spec => []EstackApprovedWhenReady
<1>1. ContentInv => EstackApprovedWhenReady
  BY DEF ContentInv, ArtifactOk, EstackReady, EstackApprovedWhenReady
<1> QED
  BY <1>1, FlowContent, PTL

\* A change that nothing holds back rests on a confirmed cause and evidence, and
\* every gate of it is settled, the licence of a licensed domain confirmed,
\* whatever the context declared (change._gate_view, change._readiness).
THEOREM FlowReadySettled == Spec => []ReadyMeansSettled
<1>1. ContentInv => ReadyMeansSettled
  BY DEF ContentInv, ArtifactOk, Settled, ReadyMeansSettled, Shown
<1> QED
  BY <1>1, FlowContent, PTL
=============================================================================
