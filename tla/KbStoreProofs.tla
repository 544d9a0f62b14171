--------------------------- MODULE KbStoreProofs ---------------------------
(***************************************************************************)
(* The safety of the knowledge base, for any number of entries,            *)
(* candidates, reviewers and authorizations.  The first part is about the  *)
(* operators of KbManifest: what kb-add and kb-transition preserve of a    *)
(* manifest.  The second is about the life cycle whose steps they are, and *)
(* the third shows that it implements KbGuidance.  The fourth is about the *)
(* store with its files and processes, with any number of concurrent       *)
(* writers, and the fifth about the store with a single one, the working   *)
(* assumption of the documentation.                                        *)
(***************************************************************************)
EXTENDS KbStore, SequenceTheorems, FiniteSetTheorems, TLAPS

\* l is r with the event e at the end of its history.
Extended(r, l, e, by) ==
    /\ l \in VersionRecord
    /\ l.state = e.to /\ l.cand = r.cand /\ l.supBy = by
    /\ Len(r.hist) \in Nat
    /\ DOMAIN r.hist = 1..Len(r.hist)
    /\ DOMAIN l.hist = 1..(Len(r.hist) + 1)
    /\ \A i \in DOMAIN r.hist : l.hist[i] = r.hist[i]
    /\ l.hist[Len(r.hist) + 1] = e

LEMMA LogProperties ==
    ASSUME NEW r \in VersionRecord, NEW e \in Event, NEW by \in Nat
    PROVE  Extended(r, Log(r, e, by), e, by)
  <1> DEFINE l == Log(r, e, by)
  <1>1. r.hist \in Seq(Event) /\ r.cand \in Candidates /\ e.to \in KbState
    BY DEF VersionRecord, Event
  <1>2. l = [state |-> e.to, cand |-> r.cand, supBy |-> by, hist |-> Append(r.hist, e)]
    BY DEF Log
  <1>3. /\ Append(r.hist, e) \in Seq(Event)
        /\ Len(Append(r.hist, e)) = Len(r.hist) + 1
        /\ \A i \in 1..Len(r.hist) : Append(r.hist, e)[i] = r.hist[i]
        /\ Append(r.hist, e)[Len(r.hist) + 1] = e
    BY <1>1, AppendProperties
  <1>4. DOMAIN r.hist = 1..Len(r.hist) /\ DOMAIN Append(r.hist, e) = 1..(Len(r.hist) + 1)
        /\ Len(r.hist) \in Nat
    BY <1>1, <1>3, LenProperties
  <1>5. l \in VersionRecord
    BY <1>1, <1>2, <1>3 DEF VersionRecord
  <1> QED
    BY <1>2, <1>3, <1>4, <1>5 DEF Extended

\* A sequence is updated point by point.
LEMMA PointwiseSeq ==
    ASSUME NEW S, NEW s \in Seq(S), NEW f, f = [i \in DOMAIN s |-> f[i]],
           \A i \in DOMAIN s : f[i] \in S
    PROVE  f \in Seq(S) /\ Len(f) = Len(s) /\ DOMAIN f = DOMAIN s
  <1>1. DOMAIN s = 1..Len(s) /\ Len(s) \in Nat
    BY LenProperties
  <1>2. f \in [1..Len(s) -> S]
    BY <1>1
  <1>3. f \in Seq(S)
    BY <1>1, <1>2, SeqDef
  <1> QED
    BY <1>1, <1>2, <1>3, LenProperties

\* Every event a transition logs is an event.
LEMMA NewEventType ==
    ASSUME NEW from \in KbState, NEW to \in KbState,
           NEW id \in AuthIds \cup {None}, NEW rev \in Reviewers \cup {None},
           NEW at \in Stamps \cup {None}
    PROVE  /\ NewEvent(from, to, id, rev, at) \in Event
           /\ NewEvent(from, to, id, rev, at).to = to
  BY DEF NewEvent, Event

\* n is m after the transition, version by version.
Rewritten(m, n, kb, v, to, id, rev, at) ==
    /\ n \in Manifest
    /\ \A k \in KbIds : Versions(n, k) = Versions(m, k) /\ Len(n[k]) = Len(m[k])
    /\ \A k \in KbIds : k # kb => n[k] = m[k]
    /\ n[kb][v] = Log(m[kb][v], NewEvent(m[kb][v].state, to, id, rev, at), m[kb][v].supBy)
    /\ \A w \in Versions(m, kb) : w # v =>
        /\ Supersedes(m, kb, v, to, w) =>
            n[kb][w] = Log(m[kb][w], NewEvent("PUBLISHED", "SUPERSEDED", id, rev, at), v)
        /\ ~Supersedes(m, kb, v, to, w) => n[kb][w] = m[kb][w]

\* The same, as far as the states and the articles go.
Restated(m, n, kb, v, to) ==
    /\ \A k \in KbIds : Versions(n, k) = Versions(m, k)
    /\ \A k \in KbIds : k # kb => n[k] = m[k]
    /\ \A k \in KbIds : \A w \in Versions(m, k) : n[k][w].cand = m[k][w].cand
    /\ n[kb][v].state = to
    /\ \A w \in Versions(m, kb) : w # v =>
        /\ Supersedes(m, kb, v, to, w) => n[kb][w].state = "SUPERSEDED"
        /\ ~Supersedes(m, kb, v, to, w) => n[kb][w] = m[kb][w]

LEMMA TransitionShape ==
    ASSUME NEW m \in Manifest, NEW kb \in KbIds, NEW v \in Versions(m, kb),
           NEW to \in KbState, NEW id \in AuthIds \cup {None},
           NEW rev \in Reviewers \cup {None}, NEW at \in Stamps \cup {None},
           NEW n, n = TransitionTo(m, kb, v, to, id, rev, at)
    PROVE  Rewritten(m, n, kb, v, to, id, rev, at)
  <1> DEFINE new(w) == IF w = v
                       THEN Log(m[kb][w], NewEvent(m[kb][w].state, to, id, rev, at), m[kb][w].supBy)
                       ELSE IF Supersedes(m, kb, v, to, w)
                            THEN Log(m[kb][w], NewEvent("PUBLISHED", "SUPERSEDED", id, rev, at), v)
                            ELSE m[kb][w]
             f == [w \in DOMAIN m[kb] |-> new(w)]
  <1>1. m[kb] \in Seq(VersionRecord) /\ DOMAIN m = KbIds
    BY DEF Manifest
  <1>2. n = [m EXCEPT ![kb] = f]
    BY DEF TransitionTo
  <1>3. DOMAIN m[kb] = 1..Len(m[kb]) /\ Len(m[kb]) \in Nat
    BY <1>1, LenProperties
  <1>4. \A w \in DOMAIN m[kb] : m[kb][w] \in VersionRecord
    BY <1>1, <1>3, ElementOfSeq
  <1>5. v \in Nat /\ v \in DOMAIN m[kb]
    BY <1>3 DEF Versions
  <1>6. ASSUME NEW w \in DOMAIN m[kb]
        PROVE  new(w) \in VersionRecord
    <2>1. m[kb][w] \in VersionRecord /\ m[kb][w].state \in KbState /\ m[kb][w].supBy \in Nat
      BY <1>4 DEF VersionRecord
    <2>2. "PUBLISHED" \in KbState /\ "SUPERSEDED" \in KbState
      BY DEF KbState
    <2>3. /\ NewEvent(m[kb][w].state, to, id, rev, at) \in Event
          /\ NewEvent("PUBLISHED", "SUPERSEDED", id, rev, at) \in Event
      BY <2>1, <2>2, NewEventType
    <2>4. /\ Log(m[kb][w], NewEvent(m[kb][w].state, to, id, rev, at), m[kb][w].supBy) \in VersionRecord
          /\ Log(m[kb][w], NewEvent("PUBLISHED", "SUPERSEDED", id, rev, at), v) \in VersionRecord
      BY <1>5, <2>1, <2>3, LogProperties DEF Extended
    <2> QED
      BY <2>1, <2>4
  <1> HIDE DEF new
  <1>7. f \in Seq(VersionRecord) /\ Len(f) = Len(m[kb]) /\ DOMAIN f = DOMAIN m[kb]
    <2>1. f = [w \in DOMAIN m[kb] |-> f[w]] /\ \A w \in DOMAIN m[kb] : f[w] \in VersionRecord
      BY <1>6
    <2> HIDE DEF f
    <2> QED
      BY <1>1, <2>1, PointwiseSeq
  <1>8. \A w \in DOMAIN m[kb] : f[w] = new(w)
    OBVIOUS
  <1> HIDE DEF f
  <1>9. n \in Manifest /\ n[kb] = f /\ \A k \in KbIds \ {kb} : n[k] = m[k]
    BY <1>1, <1>2, <1>7 DEF Manifest
  <1>10. \A k \in KbIds : Versions(n, k) = Versions(m, k) /\ Len(n[k]) = Len(m[k])
    BY <1>7, <1>9 DEF Versions
  <1>11. n[kb][v] = new(v) /\ \A w \in Versions(m, kb) : n[kb][w] = new(w)
    BY <1>5, <1>8, <1>9 DEF Versions
  <1>12. n[kb][v] = Log(m[kb][v], NewEvent(m[kb][v].state, to, id, rev, at), m[kb][v].supBy)
    BY <1>11 DEF new
  <1>13. ASSUME NEW w \in Versions(m, kb), w # v
         PROVE  /\ Supersedes(m, kb, v, to, w) =>
                    n[kb][w] = Log(m[kb][w], NewEvent("PUBLISHED", "SUPERSEDED", id, rev, at), v)
                /\ ~Supersedes(m, kb, v, to, w) => n[kb][w] = m[kb][w]
    BY <1>11, <1>13 DEF new
  <1> QED
    BY <1>9, <1>10, <1>12, <1>13 DEF Rewritten

\* n is m with one more version, the others as they were.
Enlarged(m, n, c) ==
    /\ n \in Manifest
    /\ \A k \in KbIds : k # c.kb => n[k] = m[k]
    /\ Len(m[c.kb]) \in Nat
    /\ Versions(m, c.kb) = 1..Len(m[c.kb])
    /\ Versions(n, c.kb) = 1..(Len(m[c.kb]) + 1)
    /\ \A w \in Versions(m, c.kb) : n[c.kb][w] = m[c.kb][w]
    /\ n[c.kb][Len(m[c.kb]) + 1] = NewVersion(c)

LEMMA AddShape ==
    ASSUME NEW m \in Manifest, NEW c \in Candidates
    PROVE  Enlarged(m, AddTo(m, c), c)
  <1> DEFINE kb == c.kb
             s == Append(m[kb], NewVersion(c))
  <1>1. kb \in KbIds
    BY KbAssumption DEF CandidateRecord
  <1>2. NewVersion(c) \in VersionRecord
    <2>1. LifecycleState(c) \in KbState
      BY DEF LifecycleState, KbState
    <2>2. NewEvent(None, LifecycleState(c), None, None, None) \in Event
      BY <2>1 DEF NewEvent, Event
    <2>3. <<NewEvent(None, LifecycleState(c), None, None, None)>> \in Seq(Event)
      BY <2>2
    <2> QED
      BY <2>1, <2>3 DEF NewVersion, VersionRecord
  <1>3. m[kb] \in Seq(VersionRecord) /\ DOMAIN m = KbIds
    BY <1>1 DEF Manifest
  <1>4. AddTo(m, c) = [m EXCEPT ![kb] = s]
    BY DEF AddTo
  <1>5. /\ s \in Seq(VersionRecord) /\ Len(s) = Len(m[kb]) + 1
        /\ \A i \in 1..Len(m[kb]) : s[i] = m[kb][i]
        /\ s[Len(m[kb]) + 1] = NewVersion(c)
    BY <1>2, <1>3, AppendProperties
  <1>6. DOMAIN s = 1..Len(s) /\ DOMAIN m[kb] = 1..Len(m[kb]) /\ Len(m[kb]) \in Nat
    BY <1>3, <1>5, LenProperties
  <1> HIDE DEF s, kb
  <1>7. /\ AddTo(m, c) \in Manifest /\ AddTo(m, c)[kb] = s
        /\ \A k \in KbIds \ {kb} : AddTo(m, c)[k] = m[k]
    BY <1>1, <1>3, <1>4, <1>5 DEF Manifest
  <1> QED
    BY <1>5, <1>6, <1>7 DEF Versions, kb, Enlarged

LEMMA TransitionStates ==
    ASSUME NEW m, NEW n, NEW kb \in KbIds, NEW v \in Versions(m, kb),
           NEW to, NEW id, NEW rev, NEW at,
           Rewritten(m, n, kb, v, to, id, rev, at)
    PROVE  Restated(m, n, kb, v, to)
  <1>1. \A r, e, by : Log(r, e, by).state = e.to /\ Log(r, e, by).cand = r.cand
    BY DEF Log
  <1>2. \A from, t : NewEvent(from, t, id, rev, at).to = t
    BY DEF NewEvent
  <1>3. n[kb][v].state = to /\ n[kb][v].cand = m[kb][v].cand
    BY <1>1, <1>2 DEF Rewritten
  <1>4. ASSUME NEW w \in Versions(m, kb), w # v
        PROVE  /\ n[kb][w].cand = m[kb][w].cand
               /\ Supersedes(m, kb, v, to, w) => n[kb][w].state = "SUPERSEDED"
               /\ ~Supersedes(m, kb, v, to, w) => n[kb][w] = m[kb][w]
    <2>1. CASE Supersedes(m, kb, v, to, w)
      BY <1>1, <1>2, <1>4, <2>1 DEF Rewritten
    <2>2. CASE ~Supersedes(m, kb, v, to, w)
      BY <1>4, <2>2 DEF Rewritten
    <2> QED
      BY <2>1, <2>2
  <1> QED
    BY <1>3, <1>4 DEF Rewritten, Restated

\* Rejected and retired versions stay so: no version becomes live again.
LEMMA TransitionKeepsDiffer ==
    ASSUME NEW m, NEW n, NEW kb \in KbIds, NEW v \in Versions(m, kb),
           NEW to, Restated(m, n, kb, v, to),
           LiveVersionsDiffer(m), <<m[kb][v].state, to>> \in KB_TRANSITIONS
    PROVE  LiveVersionsDiffer(n)
  <1>1. \A k \in KbIds : Versions(n, k) = Versions(m, k)
    BY DEF Restated
  <1>2. /\ \A k \in KbIds : k # kb => n[k] = m[k]
        /\ \A k \in KbIds : \A w \in Versions(m, k) : n[k][w].cand = m[k][w].cand
        /\ n[kb][v].state = to
        /\ \A w \in Versions(m, kb) : w # v =>
            /\ Supersedes(m, kb, v, to, w) => n[kb][w].state = "SUPERSEDED"
            /\ ~Supersedes(m, kb, v, to, w) => n[kb][w] = m[kb][w]
    BY DEF Restated
  <1>3. m[kb][v].state \notin {"RETIRED", "REJECTED"}
    BY DEF KB_TRANSITIONS
  <1>4. ASSUME NEW k \in KbIds, NEW w \in Versions(m, k),
               m[k][w].state \in {"RETIRED", "REJECTED"}
        PROVE  n[k][w].state \in {"RETIRED", "REJECTED"}
    <2>1. CASE k # kb
      BY <1>2, <1>4, <2>1
    <2>2. CASE k = kb
      <3>1. w # v /\ m[kb][w].state \notin CURRENT_GUIDANCE
        BY <1>3, <1>4, <2>2 DEF CURRENT_GUIDANCE
      <3> QED
        BY <1>2, <1>4, <2>2, <3>1 DEF Supersedes
    <2> QED
      BY <2>1, <2>2
  <1>5. \A k \in KbIds : Compared(n, k) \subseteq Compared(m, k)
    BY <1>1, <1>4 DEF Compared
  <1> QED
    BY <1>1, <1>2, <1>5 DEF LiveVersionsDiffer, Compared

(***************************************************************************)
(* The heart of the matter: a version becomes current only by publication. *)
(* Either it supersedes, and the publication withdraws the others, or no   *)
(* other open version says something else, and none can say the same.      *)
(***************************************************************************)
LEMMA TransitionKeepsOneCurrent ==
    ASSUME NEW m, NEW n, NEW kb \in KbIds, NEW v \in Versions(m, kb),
           NEW to, Restated(m, n, kb, v, to),
           LiveVersionsDiffer(m), AtMostOneCurrent(m), Allowed(m, kb, v, to)
    PROVE  AtMostOneCurrent(n)
  <1>1. \A k \in KbIds : Versions(n, k) = Versions(m, k)
    BY DEF Restated
  <1>2. /\ \A k \in KbIds : k # kb => n[k] = m[k]
        /\ \A k \in KbIds : \A w \in Versions(m, k) : n[k][w].cand = m[k][w].cand
        /\ n[kb][v].state = to
        /\ \A w \in Versions(m, kb) : w # v =>
            /\ Supersedes(m, kb, v, to, w) => n[kb][w].state = "SUPERSEDED"
            /\ ~Supersedes(m, kb, v, to, w) => n[kb][w] = m[kb][w]
    BY DEF Restated
  <1>3. ASSUME NEW w \in CurrentVersions(n, kb), w # v
        PROVE  w \in CurrentVersions(m, kb) /\ ~Supersedes(m, kb, v, to, w)
    BY <1>1, <1>2, <1>3 DEF CurrentVersions, CURRENT_GUIDANCE
  <1>4. ASSUME NEW w \in CurrentVersions(n, kb), w # v, v \in CurrentVersions(n, kb)
        PROVE  FALSE
    <2>1. w \in CurrentVersions(m, kb) /\ ~Supersedes(m, kb, v, to, w)
      BY <1>3, <1>4
    <2>2. to \in CURRENT_GUIDANCE
      BY <1>2, <1>4 DEF CurrentVersions
    <2>3. v \notin CurrentVersions(m, kb)
      BY <1>4, <2>1 DEF AtMostOneCurrent
    <2>4. m[kb][v].state \notin CURRENT_GUIDANCE
      BY <2>3 DEF CurrentVersions
    <2>5. m[kb][v].state = "APPROVED_BY_HUMAN" /\ to = "PUBLISHED"
      BY <2>2, <2>4 DEF Allowed, KB_TRANSITIONS, CURRENT_GUIDANCE
    <2>6. OpenConflicts(m, kb, v) = {} /\ m[kb][v].cand.supersedes # kb
      BY <1>4, <2>1, <2>5 DEF Allowed, GATED, Supersedes, CurrentVersions
    <2>7. m[kb][w].state \in CURRENT_GUIDANCE /\ w \in Versions(m, kb) \ {v}
      BY <1>4, <2>1 DEF CurrentVersions
    <2>8. m[kb][w].cand.rec = m[kb][v].cand.rec
      BY <2>6, <2>7 DEF OpenConflicts, OPEN_STATES, CURRENT_GUIDANCE
    <2>9. v \in Compared(m, kb) /\ w \in Compared(m, kb)
      BY <2>5, <2>7 DEF Compared, CURRENT_GUIDANCE
    <2> QED
      BY <1>4, <2>8, <2>9 DEF LiveVersionsDiffer
  <1>5. ASSUME NEW k \in KbIds, NEW x \in CurrentVersions(n, k), NEW y \in CurrentVersions(n, k)
        PROVE  x = y
    <2>1. CASE k # kb
      BY <1>1, <1>2, <1>5, <2>1 DEF CurrentVersions, AtMostOneCurrent
    <2>2. CASE k = kb /\ x # v /\ y # v
      BY <1>3, <1>5, <2>2 DEF AtMostOneCurrent
    <2>3. CASE k = kb /\ (x = v \/ y = v)
      BY <1>4, <1>5, <2>3
    <2> QED
      BY <2>1, <2>2, <2>3
  <1> QED
    BY <1>5 DEF AtMostOneCurrent

\* An approval or a publication on record stays on record.
LEMMA LogKeepsDecisions ==
    ASSUME NEW r \in VersionRecord, NEW e \in Event, NEW by \in Nat, NEW l, l = Log(r, e, by)
    PROVE  /\ \A i \in DOMAIN r.hist : \A to : DecidedAt(r, i, to) => DecidedAt(l, i, to)
           /\ DOMAIN r.hist \subseteq DOMAIN l.hist
           /\ ApprovedThenPublished(r) => ApprovedThenPublished(l)
  <1>1. /\ l.cand = r.cand /\ Len(r.hist) \in Nat
        /\ DOMAIN r.hist = 1..Len(r.hist) /\ DOMAIN l.hist = 1..(Len(r.hist) + 1)
        /\ \A i \in DOMAIN r.hist : l.hist[i] = r.hist[i]
    <2>1. Extended(r, l, e, by)
      BY LogProperties
    <2> QED
      BY <2>1 DEF Extended
  <1>2. \A i \in DOMAIN r.hist : \A to : DecidedAt(r, i, to) => DecidedAt(l, i, to)
    BY <1>1 DEF DecidedAt
  <1>3. DOMAIN r.hist \subseteq DOMAIN l.hist
    BY <1>1
  <1>4. ASSUME ApprovedThenPublished(r)
        PROVE  ApprovedThenPublished(l)
    <2>1. PICK i, j \in DOMAIN r.hist :
             /\ i < j /\ DecidedAt(r, i, "APPROVED_BY_HUMAN") /\ DecidedAt(r, j, "PUBLISHED")
             /\ r.hist[i].auth # r.hist[j].auth
      BY <1>4 DEF ApprovedThenPublished
    <2>2. /\ i \in DOMAIN l.hist /\ j \in DOMAIN l.hist
          /\ DecidedAt(l, i, "APPROVED_BY_HUMAN") /\ DecidedAt(l, j, "PUBLISHED")
          /\ l.hist[i].auth # l.hist[j].auth
      BY <1>1, <1>2, <1>3, <2>1
    <2>3. QualityGate(l.cand)
      BY <1>1, <1>4 DEF ApprovedThenPublished
    <2> QED
      BY <2>1, <2>2, <2>3 DEF ApprovedThenPublished
  <1> QED
    BY <1>2, <1>3, <1>4

\* What is asked of one version record.
RecordOk(r) ==
    /\ r.state = "APPROVED_BY_HUMAN" =>
        /\ QualityGate(r.cand)
        /\ \E i \in DOMAIN r.hist : DecidedAt(r, i, "APPROVED_BY_HUMAN")
    /\ r.state \in CURRENT_GUIDANCE => ApprovedThenPublished(r)

LEMMA ApprovalByRecord ==
    ASSUME NEW m
    PROVE  ApprovalOnRecord(m) <=> \A kb \in KbIds : \A v \in Versions(m, kb) : RecordOk(m[kb][v])
  BY DEF ApprovalOnRecord, RecordOk

\* Only the record of v matters: the others are as they were or superseded.
LEMMA TransitionKeepsApproval ==
    ASSUME NEW m, NEW n, NEW kb \in KbIds, NEW v \in Versions(m, kb),
           NEW to, Restated(m, n, kb, v, to),
           ApprovalOnRecord(m), RecordOk(n[kb][v])
    PROVE  ApprovalOnRecord(n)
  <1>1. SUFFICES ASSUME NEW k \in KbIds, NEW w \in Versions(n, k)
                 PROVE  RecordOk(n[k][w])
    BY ApprovalByRecord
  <1>2. w \in Versions(m, k) /\ RecordOk(m[k][w])
    BY ApprovalByRecord DEF Restated
  <1>3. CASE k # kb
    BY <1>2, <1>3 DEF Restated
  <1>4. CASE k = kb /\ w = v
    BY <1>4
  <1>5. CASE k = kb /\ w # v /\ Supersedes(m, kb, v, to, w)
    <2>1. n[k][w].state = "SUPERSEDED"
      BY <1>2, <1>5 DEF Restated
    <2> QED
      BY <2>1 DEF RecordOk, CURRENT_GUIDANCE
  <1>6. CASE k = kb /\ w # v /\ ~Supersedes(m, kb, v, to, w)
    BY <1>2, <1>6 DEF Restated
  <1> QED
    BY <1>3, <1>4, <1>5, <1>6

\* The version record of a listed version.
LEMMA ListedRecord ==
    ASSUME NEW m \in Manifest, NEW kb \in KbIds, NEW v \in Versions(m, kb)
    PROVE  m[kb][v] \in VersionRecord /\ m[kb][v].state \in KbState /\ m[kb][v].supBy \in Nat
           /\ m[kb][v].cand \in Candidates /\ v \in Nat
  <1>1. m[kb] \in Seq(VersionRecord)
    BY DEF Manifest
  <1>2. DOMAIN m[kb] = 1..Len(m[kb]) /\ Len(m[kb]) \in Nat
    BY <1>1, LenProperties
  <1>3. m[kb][v] \in VersionRecord
    BY <1>1, <1>2, ElementOfSeq DEF Versions
  <1> QED
    BY <1>2, <1>3 DEF VersionRecord, Versions

\* What the transition does to the history of version w: at most one event is
\* added, under the authorization of the transition.
Logged(m, n, kb, v, to, id, w) ==
    /\ n[kb][w].cand = m[kb][w].cand
    /\ DOMAIN m[kb][w].hist \subseteq DOMAIN n[kb][w].hist
    /\ \A i \in DOMAIN m[kb][w].hist : n[kb][w].hist[i] = m[kb][w].hist[i]
    /\ \A i, j \in DOMAIN n[kb][w].hist \ DOMAIN m[kb][w].hist : i = j
    /\ \A i \in DOMAIN n[kb][w].hist \ DOMAIN m[kb][w].hist :
        /\ n[kb][w].hist[i].auth = id
        /\ n[kb][w].hist[i].to = n[kb][w].state
        /\ \/ w = v /\ n[kb][w].state = to
           \/ w # v /\ Supersedes(m, kb, v, to, w)
              /\ n[kb][w].state = "SUPERSEDED" /\ n[kb][w].supBy = v
    /\ w = v => \E i \in DOMAIN n[kb][w].hist : n[kb][w].hist[i].auth = id
    /\ n[kb][w].supBy = m[kb][w].supBy \/ Supersedes(m, kb, v, to, w)

\* The same of all versions of the entry.
Recorded(m, n, kb, v, to, id) ==
    \A w \in Versions(m, kb) : Logged(m, n, kb, v, to, id, w)

LEMMA TransitionHistory ==
    ASSUME NEW m \in Manifest, NEW n, NEW kb \in KbIds, NEW v \in Versions(m, kb),
           NEW to \in KbState, NEW id \in AuthIds \cup {None},
           NEW rev \in Reviewers \cup {None}, NEW at \in Stamps \cup {None},
           Rewritten(m, n, kb, v, to, id, rev, at)
    PROVE  Recorded(m, n, kb, v, to, id)
  <1> SUFFICES ASSUME NEW w \in Versions(m, kb)
               PROVE  Logged(m, n, kb, v, to, id, w)
    BY DEF Recorded
  <1> DEFINE r == m[kb][w]
             l == n[kb][w]
  <1>1. r \in VersionRecord /\ r.state \in KbState /\ r.supBy \in Nat /\ v \in Nat
    BY ListedRecord
  <1>2. \A from, t : NewEvent(from, t, id, rev, at).to = t /\ NewEvent(from, t, id, rev, at).auth = id
    BY DEF NewEvent
  <1>3. "PUBLISHED" \in KbState /\ "SUPERSEDED" \in KbState
    BY DEF KbState
  <1>4. ASSUME NEW e \in Event, NEW by \in Nat, l = Log(r, e, by), e.auth = id
        PROVE  /\ l.cand = r.cand /\ l.state = e.to /\ l.supBy = by
               /\ DOMAIN r.hist \subseteq DOMAIN l.hist
               /\ \A i \in DOMAIN r.hist : l.hist[i] = r.hist[i]
               /\ \A i, j \in DOMAIN l.hist \ DOMAIN r.hist : i = j
               /\ \A i \in DOMAIN l.hist \ DOMAIN r.hist : l.hist[i] = e
               /\ \E i \in DOMAIN l.hist : l.hist[i].auth = id
    <2> HIDE DEF r, l
    <2>1. Extended(r, l, e, by)
      BY <1>1, <1>4, LogProperties
    <2>2. /\ l.cand = r.cand /\ l.state = e.to /\ l.supBy = by
          /\ \A i \in DOMAIN r.hist : l.hist[i] = r.hist[i]
          /\ l.hist[Len(r.hist) + 1] = e
      BY <2>1 DEF Extended
    <2>3. /\ DOMAIN r.hist \subseteq DOMAIN l.hist
          /\ \A i \in DOMAIN l.hist \ DOMAIN r.hist : i = Len(r.hist) + 1
          /\ Len(r.hist) + 1 \in DOMAIN l.hist
      BY <2>1 DEF Extended
    <2> QED
      BY <1>4, <2>2, <2>3
  <1>5. CASE w = v
    <2> DEFINE e == NewEvent(r.state, to, id, rev, at)
    <2>1. e \in Event /\ e.to = to /\ e.auth = id /\ l = Log(r, e, r.supBy)
      BY <1>1, <1>2, <1>5, NewEventType DEF Rewritten
    <2> HIDE DEF e
    <2> QED
      BY <1>1, <1>4, <1>5, <2>1 DEF Logged
  <1>6. CASE w # v /\ Supersedes(m, kb, v, to, w)
    <2> DEFINE e == NewEvent("PUBLISHED", "SUPERSEDED", id, rev, at)
    <2>1. e \in Event /\ e.to = "SUPERSEDED" /\ e.auth = id
      BY <1>2, <1>3, NewEventType
    <2>2. l = Log(r, e, v)
      BY <1>6 DEF Rewritten
    <2> HIDE DEF e
    <2> QED
      BY <1>1, <1>4, <1>6, <2>1, <2>2 DEF Logged
  <1>7. CASE w # v /\ ~Supersedes(m, kb, v, to, w)
    <2>1. n[kb][w] = m[kb][w]
      BY <1>7 DEF Rewritten
    <2> QED
      BY <1>7, <2>1 DEF Logged
  <1> QED
    BY <1>5, <1>6, <1>7

\* A version that was superseded leaves that state only for retirement.
LEMMA TransitionKeepsSuperseded ==
    ASSUME NEW m, NEW n, NEW kb \in KbIds, NEW v \in Versions(m, kb), NEW to, NEW id,
           Restated(m, n, kb, v, to), SupersededStays(m),
           Recorded(m, n, kb, v, to, id),
           <<m[kb][v].state, to>> \in KB_TRANSITIONS
    PROVE  SupersededStays(n)
  <1> SUFFICES ASSUME NEW k \in KbIds, NEW w \in Versions(n, k), NEW i \in DOMAIN n[k][w].hist,
                      n[k][w].hist[i].to = "SUPERSEDED"
               PROVE  n[k][w].state \in {"SUPERSEDED", "RETIRED"}
    BY DEF SupersededStays
  <1>1. w \in Versions(m, k)
    BY DEF Restated
  <1>2. CASE k # kb
    <2>1. n[k] = m[k]
      BY <1>2 DEF Restated
    <2> QED
      BY <1>1, <2>1 DEF SupersededStays
  <1>3. CASE k = kb /\ i \notin DOMAIN m[kb][w].hist
    BY <1>1, <1>3 DEF Recorded, Logged
  <1>4. CASE k = kb /\ i \in DOMAIN m[kb][w].hist
    <2>1. m[kb][w].state \in {"SUPERSEDED", "RETIRED"}
      BY <1>1, <1>4 DEF Recorded, Logged, SupersededStays
    <2>2. CASE w = v
      <3>1. to = "RETIRED"
        BY <2>1, <2>2 DEF KB_TRANSITIONS
      <3> QED
        BY <1>4, <2>2, <3>1 DEF Restated
    <2>3. CASE w # v
      <3>1. n[kb][w] = m[kb][w]
        BY <1>1, <1>4, <2>1, <2>3 DEF Restated, Supersedes, CURRENT_GUIDANCE
      <3> QED
        BY <1>4, <2>1, <3>1
    <2> QED
      BY <2>2, <2>3
  <1> QED
    BY <1>2, <1>3, <1>4

\* An authorization that is new to the entry marks a single decision.
LEMMA TransitionKeepsDecidedOnce ==
    ASSUME NEW m, NEW n, NEW kb \in KbIds, NEW v \in Versions(m, kb), NEW to,
           NEW id, id = None \/ (id \in AuthIds /\ id \notin UsedAuths(m, kb)),
           Restated(m, n, kb, v, to), DecidedOnce(m), SupersededStays(m),
           Recorded(m, n, kb, v, to, id)
    PROVE  DecidedOnce(n)
  <1> SUFFICES ASSUME NEW k \in KbIds, NEW x \in Versions(n, k), NEW y \in Versions(n, k),
                      NEW i \in DOMAIN n[k][x].hist, NEW j \in DOMAIN n[k][y].hist,
                      n[k][x].hist[i].auth # None, n[k][x].hist[i].auth = n[k][y].hist[j].auth,
                      <<x, i>> # <<y, j>>
               PROVE  /\ x # y
                      /\ \/ /\ n[k][x].hist[i].to = "PUBLISHED" /\ n[k][y].hist[j].to = "SUPERSEDED"
                            /\ n[k][y].supBy = x
                         \/ /\ n[k][y].hist[j].to = "PUBLISHED" /\ n[k][x].hist[i].to = "SUPERSEDED"
                            /\ n[k][x].supBy = y
                         \/ n[k][x].hist[i].to = "SUPERSEDED" /\ n[k][y].hist[j].to = "SUPERSEDED"
    BY DEF DecidedOnce
  <1>1. x \in Versions(m, k) /\ y \in Versions(m, k)
    BY DEF Restated
  <1>2. CASE k # kb
    <2>1. n[k] = m[k]
      BY <1>2 DEF Restated
    <2> QED
      BY <1>1, <2>1 DEF DecidedOnce
  <1>3. CASE k = kb
    <2>1. x \in Versions(m, kb) /\ y \in Versions(m, kb)
      BY <1>1, <1>3
    <2>2. Logged(m, n, kb, v, to, id, x) /\ Logged(m, n, kb, v, to, id, y)
      BY <2>1 DEF Recorded
    <2>3. ASSUME NEW w \in Versions(m, kb), NEW l \in DOMAIN m[kb][w].hist, id # None
          PROVE  m[kb][w].hist[l].auth # id
      BY <2>3 DEF UsedAuths
    \* An old event of a superseded version keeps what it says.
    <2>4. ASSUME NEW w \in Versions(m, kb), NEW l \in DOMAIN m[kb][w].hist,
                 m[kb][w].hist[l].to = "SUPERSEDED"
          PROVE  n[kb][w].supBy = m[kb][w].supBy
      <3>1. m[kb][w].state \notin CURRENT_GUIDANCE
        BY <2>4 DEF SupersededStays, CURRENT_GUIDANCE
      <3> QED
        BY <3>1 DEF Recorded, Logged, Supersedes
    <2>5. CASE i \in DOMAIN m[kb][x].hist /\ j \in DOMAIN m[kb][y].hist
      <3>1. n[kb][x].hist[i] = m[kb][x].hist[i] /\ n[kb][y].hist[j] = m[kb][y].hist[j]
        BY <2>2, <2>5 DEF Logged
      <3>2. /\ x # y
            /\ \/ /\ m[kb][x].hist[i].to = "PUBLISHED" /\ m[kb][y].hist[j].to = "SUPERSEDED"
                  /\ m[kb][y].supBy = x
               \/ /\ m[kb][y].hist[j].to = "PUBLISHED" /\ m[kb][x].hist[i].to = "SUPERSEDED"
                  /\ m[kb][x].supBy = y
               \/ m[kb][x].hist[i].to = "SUPERSEDED" /\ m[kb][y].hist[j].to = "SUPERSEDED"
        BY <1>3, <2>1, <2>5, <3>1 DEF DecidedOnce
      <3> QED
        BY <1>3, <2>1, <2>4, <2>5, <3>1, <3>2
    <2>6. CASE i \notin DOMAIN m[kb][x].hist /\ j \in DOMAIN m[kb][y].hist
      <3>1. n[kb][x].hist[i].auth = id /\ n[kb][y].hist[j] = m[kb][y].hist[j]
        BY <1>3, <2>2, <2>6 DEF Logged
      <3> QED
        BY <1>3, <2>1, <2>3, <2>6, <3>1
    <2>7. CASE i \in DOMAIN m[kb][x].hist /\ j \notin DOMAIN m[kb][y].hist
      <3>1. n[kb][x].hist[i] = m[kb][x].hist[i] /\ n[kb][y].hist[j].auth = id
        BY <1>3, <2>2, <2>7 DEF Logged
      <3> QED
        BY <1>3, <2>1, <2>3, <2>7, <3>1
    <2>8. CASE i \notin DOMAIN m[kb][x].hist /\ j \notin DOMAIN m[kb][y].hist
      <3>1. x # y
        BY <1>3, <2>2, <2>8 DEF Logged
      <3>2. /\ n[kb][x].hist[i].to = n[kb][x].state
            /\ \/ x = v /\ n[kb][x].state = to
               \/ /\ x # v /\ to = "PUBLISHED" /\ n[kb][x].state = "SUPERSEDED"
                  /\ n[kb][x].supBy = v
        BY <1>3, <2>2, <2>8 DEF Logged, Supersedes
      <3>3. /\ n[kb][y].hist[j].to = n[kb][y].state
            /\ \/ y = v /\ n[kb][y].state = to
               \/ /\ y # v /\ to = "PUBLISHED" /\ n[kb][y].state = "SUPERSEDED"
                  /\ n[kb][y].supBy = v
        BY <1>3, <2>2, <2>8 DEF Logged, Supersedes
      <3> QED
        BY <1>3, <3>1, <3>2, <3>3
    <2> QED
      BY <2>5, <2>6, <2>7, <2>8
  <1> QED
    BY <1>2, <1>3

\* The authorizations used on an entry grow by the one of the transition.
LEMMA TransitionSpends ==
    ASSUME NEW m, NEW n, NEW kb \in KbIds, NEW v \in Versions(m, kb), NEW to, NEW id,
           Restated(m, n, kb, v, to),
           Recorded(m, n, kb, v, to, id)
    PROVE  /\ id \in AuthIds => UsedAuths(n, kb) = UsedAuths(m, kb) \cup {id}
           /\ id \notin AuthIds => UsedAuths(n, kb) = UsedAuths(m, kb)
           /\ \A k \in KbIds : k # kb => UsedAuths(n, k) = UsedAuths(m, k)
  <1>1. ASSUME NEW a \in UsedAuths(n, kb)
        PROVE  a \in UsedAuths(m, kb) \/ a = id
    <2>1. PICK w \in Versions(n, kb) : \E i \in DOMAIN n[kb][w].hist : n[kb][w].hist[i].auth = a
      BY DEF UsedAuths
    <2>2. PICK i \in DOMAIN n[kb][w].hist : n[kb][w].hist[i].auth = a
      BY <2>1
    <2>3. w \in Versions(m, kb) /\ Logged(m, n, kb, v, to, id, w)
      BY DEF Restated, Recorded
    <2> QED
      BY <2>2, <2>3 DEF Logged, UsedAuths
  <1>2. ASSUME NEW a \in UsedAuths(m, kb)
        PROVE  a \in UsedAuths(n, kb)
    <2>1. PICK w \in Versions(m, kb) : \E i \in DOMAIN m[kb][w].hist : m[kb][w].hist[i].auth = a
      BY DEF UsedAuths
    <2>2. PICK i \in DOMAIN m[kb][w].hist : m[kb][w].hist[i].auth = a
      BY <2>1
    <2>3. w \in Versions(n, kb) /\ i \in DOMAIN n[kb][w].hist /\ n[kb][w].hist[i].auth = a
      BY <2>2 DEF Restated, Recorded, Logged
    <2> QED
      BY <2>3 DEF UsedAuths
  <1>3. id \in AuthIds => id \in UsedAuths(n, kb)
    <2>1. Logged(m, n, kb, v, to, id, v) /\ v \in Versions(n, kb)
      BY DEF Restated, Recorded
    <2>2. \E i \in DOMAIN n[kb][v].hist : n[kb][v].hist[i].auth = id
      BY <2>1 DEF Logged
    <2> QED
      BY <2>1, <2>2 DEF UsedAuths
  <1>4. UsedAuths(n, kb) \subseteq AuthIds
    BY DEF UsedAuths
  <1>5. /\ id \in AuthIds => UsedAuths(n, kb) = UsedAuths(m, kb) \cup {id}
        /\ id \notin AuthIds => UsedAuths(n, kb) = UsedAuths(m, kb)
    BY <1>1, <1>2, <1>3, <1>4
  <1>6. \A k \in KbIds : k # kb => UsedAuths(n, k) = UsedAuths(m, k)
    BY DEF Restated, UsedAuths, Versions
  <1> QED
    BY <1>5, <1>6

\* A new version uses no authorization and is neither current nor withdrawn.
LEMMA AddLeavesGuidance ==
    ASSUME NEW m \in Manifest, NEW c \in Candidates, NEW n, Enlarged(m, n, c), NEW k \in KbIds
    PROVE  /\ UsedAuths(n, k) = UsedAuths(m, k)
           /\ \A S : S \cap {"CANDIDATE", "DRAFT", "REJECTED"} = {} =>
                {v \in Versions(n, k) : n[k][v].state \in S}
                = {v \in Versions(m, k) : m[k][v].state \in S}
  <1> DEFINE new == Len(m[c.kb]) + 1
  <1>1. CASE k # c.kb
    BY <1>1 DEF Enlarged, UsedAuths, Versions
  <1>2. CASE k = c.kb
    <2>1. /\ Versions(n, k) = Versions(m, k) \cup {new}
          /\ \A w \in Versions(m, k) : n[k][w] = m[k][w]
          /\ n[k][new] = NewVersion(c)
      BY <1>2 DEF Enlarged
    <2>2. /\ NewVersion(c).state \in {"CANDIDATE", "DRAFT", "REJECTED"}
          /\ NewVersion(c).hist = <<NewEvent(None, LifecycleState(c), None, None, None)>>
          /\ NewEvent(None, LifecycleState(c), None, None, None).auth = None
      BY DEF NewVersion, LifecycleState, NewEvent
    <2>3. \A i \in DOMAIN n[k][new].hist : n[k][new].hist[i].auth \notin AuthIds
      BY <2>1, <2>2, KbAssumption
    <2> HIDE DEF new
    <2>4. UsedAuths(n, k) = UsedAuths(m, k)
      BY <2>1, <2>3 DEF UsedAuths
    <2> QED
      BY <2>1, <2>2, <2>4
  <1> QED
    BY <1>1, <1>2

(***************************************************************************)
(* A transition without human decision keeps the invariant.                *)
(***************************************************************************)
THEOREM MoveKeepsInv ==
    ASSUME NEW m, ManifestInv(m), NEW kb \in KbIds, NEW v \in Versions(m, kb),
           NEW to \in KbState, CanMove(m, kb, v, to)
    PROVE  ManifestInv(MoveTo(m, kb, v, to))
  <1> DEFINE n == MoveTo(m, kb, v, to)
             e == NewEvent(m[kb][v].state, to, None, None, None)
  <1>1. m \in Manifest /\ m[kb][v] \in VersionRecord /\ m[kb][v].state \in KbState
        /\ m[kb][v].supBy \in Nat
    BY ListedRecord DEF ManifestInv
  <1>2. n = TransitionTo(m, kb, v, to, None, None, None)
    BY DEF MoveTo
  <1> HIDE DEF n
  <1>3. Rewritten(m, n, kb, v, to, None, None, None)
    BY <1>1, <1>2, TransitionShape
  <1>4. Restated(m, n, kb, v, to)
    BY <1>3, TransitionStates
  <1>5. LiveVersionsDiffer(n)
    BY <1>4, TransitionKeepsDiffer DEF ManifestInv, CanMove, Allowed
  <1>6. AtMostOneCurrent(n)
    BY <1>4, TransitionKeepsOneCurrent DEF ManifestInv, CanMove
  <1>7. RecordOk(n[kb][v])
    <2>1. n[kb][v].state = to
      BY <1>4 DEF Restated
    <2>2. to # "APPROVED_BY_HUMAN" /\ (to \in CURRENT_GUIDANCE => m[kb][v].state = "PUBLISHED")
      BY DEF CanMove, Allowed, IsHumanDecision, KB_TRANSITIONS, HUMAN_DECISION_TRANSITIONS,
             CURRENT_GUIDANCE
    <2>3. m[kb][v].state = "PUBLISHED" => ApprovedThenPublished(m[kb][v])
      BY DEF ManifestInv, ApprovalOnRecord, CURRENT_GUIDANCE
    <2>4. e \in Event /\ n[kb][v] = Log(m[kb][v], e, m[kb][v].supBy)
      BY <1>1, <1>3, NewEventType DEF Rewritten
    <2> HIDE DEF e
    <2>5. ApprovedThenPublished(m[kb][v]) => ApprovedThenPublished(n[kb][v])
      BY <1>1, <2>4, LogKeepsDecisions
    <2> QED
      BY <2>1, <2>2, <2>3, <2>5 DEF RecordOk
  <1>8. ApprovalOnRecord(n)
    BY <1>4, <1>7, TransitionKeepsApproval DEF ManifestInv
  <1>9. n \in Manifest
    BY <1>3 DEF Rewritten
  <1>10. Recorded(m, n, kb, v, to, None)
    BY <1>1, <1>3, TransitionHistory
  <1>11. SupersededStays(n)
    BY <1>4, <1>10, TransitionKeepsSuperseded DEF ManifestInv, CanMove, Allowed
  <1>12. DecidedOnce(n)
    BY <1>4, <1>10, TransitionKeepsDecidedOnce DEF ManifestInv
  <1> QED
    BY <1>5, <1>6, <1>8, <1>9, <1>11, <1>12 DEF ManifestInv, n

(***************************************************************************)
(* A human decision keeps the invariant.                                   *)
(***************************************************************************)
THEOREM DecideKeepsInv ==
    ASSUME NEW m, ManifestInv(m), NEW kb \in KbIds, NEW v \in Versions(m, kb),
           NEW to \in KbState, NEW a, a.id \in AuthIds, a.rev \in Reviewers, a.at \in Stamps,
           CanDecide(m, kb, v, to, a)
    PROVE  ManifestInv(DecideTo(m, kb, v, to, a))
  <1> DEFINE n == DecideTo(m, kb, v, to, a)
             r == m[kb][v]
             e == NewEvent(r.state, to, a.id, a.rev, a.at)
  <1>1. m \in Manifest /\ r \in VersionRecord /\ r.state \in KbState /\ r.supBy \in Nat
    BY ListedRecord DEF ManifestInv
  <1>2. n = TransitionTo(m, kb, v, to, a.id, a.rev, a.at)
    BY DEF DecideTo
  <1> HIDE DEF n
  <1>3. Rewritten(m, n, kb, v, to, a.id, a.rev, a.at)
    BY <1>1, <1>2, TransitionShape
  <1>4. Restated(m, n, kb, v, to)
    BY <1>3, TransitionStates
  <1>5. LiveVersionsDiffer(n)
    BY <1>4, TransitionKeepsDiffer DEF ManifestInv, CanDecide, Allowed
  <1>6. AtMostOneCurrent(n)
    BY <1>4, TransitionKeepsOneCurrent DEF ManifestInv, CanDecide
  <1>7. RecordOk(n[kb][v])
    <2> DEFINE l == n[kb][v]
               j == Len(r.hist) + 1
    <2> SUFFICES RecordOk(l)
      OBVIOUS
    <2>1. l.state = to /\ l.cand = r.cand
      BY <1>4 DEF Restated
    <2>2. e \in Event /\ l = Log(r, e, r.supBy)
      BY <1>1, <1>3, NewEventType DEF Rewritten
    <2>3. e.to = to /\ e.auth = a.id /\ e.rev = a.rev
      BY DEF NewEvent
    <2> HIDE DEF e
    <2>4. /\ Len(r.hist) \in Nat /\ DOMAIN r.hist = 1..Len(r.hist)
          /\ DOMAIN l.hist = 1..(Len(r.hist) + 1) /\ l.hist[j] = e
          /\ \A i \in DOMAIN r.hist : l.hist[i] = r.hist[i]
      <3>1. Extended(r, l, e, r.supBy)
        BY <1>1, <2>2, LogProperties
      <3> QED
        BY <3>1 DEF Extended
    <2>5. /\ \A i \in DOMAIN r.hist : \A t : DecidedAt(r, i, t) => DecidedAt(l, i, t)
          /\ ApprovedThenPublished(r) => ApprovedThenPublished(l)
      BY <1>1, <2>2, LogKeepsDecisions
    <2>6. a.id # None /\ a.rev \notin r.cand.proposers
      BY KbAssumption DEF CanDecide, VerifyAuthorization
    <2> HIDE DEF l, r
    <2>7. DecidedAt(l, j, to) /\ j \in DOMAIN l.hist
      BY <2>1, <2>3, <2>4, <2>6 DEF DecidedAt
    <2>8. to \in GATED => QualityGate(l.cand)
      BY <2>1 DEF CanDecide, Allowed, r
    <2>9. CASE to = "APPROVED_BY_HUMAN"
      BY <2>1, <2>7, <2>8, <2>9 DEF RecordOk, GATED, CURRENT_GUIDANCE
    <2>10. CASE to = "PUBLISHED" /\ r.state = "APPROVED_BY_HUMAN"
      <3>1. PICK i \in DOMAIN r.hist : DecidedAt(r, i, "APPROVED_BY_HUMAN")
        BY <2>10 DEF ManifestInv, ApprovalOnRecord, r
      <3>2. r.hist[i].auth # a.id
        BY <3>1 DEF CanDecide, UsedAuths, r
      <3>3. /\ i < j /\ i \in DOMAIN l.hist
            /\ DecidedAt(l, i, "APPROVED_BY_HUMAN") /\ l.hist[i].auth # l.hist[j].auth
        BY <2>3, <2>4, <2>5, <3>1, <3>2
      <3>4. QualityGate(l.cand)
        BY <2>8, <2>10 DEF GATED
      <3>5. ApprovedThenPublished(l)
        BY <2>7, <2>10, <3>3, <3>4 DEF ApprovedThenPublished
      <3> QED
        BY <2>1, <2>10, <3>5 DEF RecordOk
    <2>11. CASE to \in CURRENT_GUIDANCE /\ r.state # "APPROVED_BY_HUMAN"
      <3>1. to = "PUBLISHED" /\ r.state = "REVIEW_DUE"
        BY <2>11 DEF CanDecide, IsHumanDecision, HUMAN_DECISION_TRANSITIONS, CURRENT_GUIDANCE, r
      <3>2. ApprovedThenPublished(r)
        BY <3>1 DEF ManifestInv, ApprovalOnRecord, CURRENT_GUIDANCE, r
      <3> QED
        BY <2>1, <2>5, <3>1, <3>2 DEF RecordOk
    <2>12. CASE to \notin CURRENT_GUIDANCE \cup {"APPROVED_BY_HUMAN"}
      BY <2>1, <2>12 DEF RecordOk
    <2>13. to \in CURRENT_GUIDANCE /\ r.state = "APPROVED_BY_HUMAN" => to = "PUBLISHED"
      BY DEF CanDecide, IsHumanDecision, HUMAN_DECISION_TRANSITIONS, CURRENT_GUIDANCE, r
    <2> QED
      BY <2>9, <2>10, <2>11, <2>12, <2>13
  <1>8. ApprovalOnRecord(n)
    BY <1>4, <1>7, TransitionKeepsApproval DEF ManifestInv
  <1>9. n \in Manifest
    BY <1>3 DEF Rewritten
  <1>10. Recorded(m, n, kb, v, to, a.id)
    BY <1>1, <1>3, TransitionHistory
  <1>11. SupersededStays(n)
    BY <1>4, <1>10, TransitionKeepsSuperseded DEF ManifestInv, CanDecide, Allowed
  <1>12. DecidedOnce(n)
    BY <1>4, <1>10, TransitionKeepsDecidedOnce DEF ManifestInv, CanDecide
  <1> QED
    BY <1>5, <1>6, <1>8, <1>9, <1>11, <1>12 DEF ManifestInv, n

(***************************************************************************)
(* Adding a candidate keeps the invariant: it is neither current nor       *)
(* approved, and duplicate review found no live version that says the same. *)
(***************************************************************************)
THEOREM AddKeepsInv ==
    ASSUME NEW m, ManifestInv(m), NEW c \in Candidates, CanAdd(m, c)
    PROVE  ManifestInv(AddTo(m, c))
  <1> DEFINE n == AddTo(m, c)
             kb == c.kb
             new == Len(m[kb]) + 1
  <1>1. Enlarged(m, n, c)
    BY AddShape DEF ManifestInv
  <1> HIDE DEF n
  <1>2. /\ n \in Manifest /\ \A k \in KbIds : k # kb => n[k] = m[k]
        /\ Len(m[kb]) \in Nat
        /\ Versions(m, kb) = 1..Len(m[kb]) /\ Versions(n, kb) = 1..new
        /\ \A w \in Versions(m, kb) : n[kb][w] = m[kb][w]
        /\ n[kb][new] = NewVersion(c)
    BY <1>1 DEF Enlarged
  <1>3. kb \in KbIds
    BY KbAssumption DEF CandidateRecord
  <1>4. /\ n[kb][new].cand = c
        /\ n[kb][new].state \in {"CANDIDATE", "DRAFT"}
    BY <1>2 DEF NewVersion, CanAdd, Admissible
  <1>5. \A w \in Versions(n, kb) : w = new \/ (w \in Versions(m, kb) /\ n[kb][w] = m[kb][w])
    BY <1>2
  <1> HIDE DEF kb, new
  <1>6. LiveVersionsDiffer(n)
    <2>1. \A w \in Compared(m, kb) : m[kb][w].cand.rec # c.rec
      BY DEF CanAdd, Admissible, Duplicate, kb
    <2>2. SUFFICES ASSUME NEW k \in KbIds, NEW x \in Compared(n, k), NEW y \in Compared(n, k),
                          n[k][x].cand.rec = n[k][y].cand.rec
                   PROVE  x = y
      BY DEF LiveVersionsDiffer
    <2>3. CASE k # kb
      BY <1>2, <2>2, <2>3 DEF ManifestInv, LiveVersionsDiffer, Compared, Versions
    <2>4. CASE k = kb
      <3>1. \A w \in Compared(n, kb) : w = new \/ (w \in Compared(m, kb) /\ n[kb][w] = m[kb][w])
        BY <1>5 DEF Compared
      <3>2. CASE x # new /\ y # new
        BY <1>3, <2>2, <2>4, <3>1, <3>2 DEF ManifestInv, LiveVersionsDiffer
      <3>3. CASE x = new \/ y = new
        BY <1>4, <2>1, <2>2, <2>4, <3>1, <3>3
      <3> QED
        BY <3>2, <3>3
    <2> QED
      BY <2>3, <2>4
  <1>7. AtMostOneCurrent(n)
    <2>1. \A k \in KbIds : CurrentVersions(n, k) \subseteq CurrentVersions(m, k)
      <3>1. ASSUME NEW k \in KbIds, k # kb PROVE CurrentVersions(n, k) \subseteq CurrentVersions(m, k)
        BY <1>2, <3>1 DEF CurrentVersions, Versions
      <3>2. CurrentVersions(n, kb) \subseteq CurrentVersions(m, kb)
        BY <1>4, <1>5 DEF CurrentVersions, CURRENT_GUIDANCE
      <3> QED
        BY <3>1, <3>2
    <2> QED
      BY <2>1 DEF ManifestInv, AtMostOneCurrent
  <1>8. ApprovalOnRecord(n)
    <2>1. SUFFICES ASSUME NEW k \in KbIds, NEW w \in Versions(n, k)
                   PROVE  RecordOk(n[k][w])
      BY ApprovalByRecord
    <2>2. \A l \in KbIds : \A u \in Versions(m, l) : RecordOk(m[l][u])
      BY ApprovalByRecord DEF ManifestInv
    <2>3. CASE k # kb
      BY <1>2, <2>1, <2>2, <2>3 DEF Versions
    <2>4. CASE k = kb /\ w = new
      BY <1>4, <2>4 DEF RecordOk, CURRENT_GUIDANCE
    <2>5. CASE k = kb /\ w # new
      BY <1>5, <2>1, <2>2, <2>5
    <2> QED
      BY <2>3, <2>4, <2>5
  <1>9. \A i \in DOMAIN n[kb][new].hist :
            n[kb][new].hist[i].auth = None /\ n[kb][new].hist[i].to # "SUPERSEDED"
    <2>1. n[kb][new].hist = <<NewEvent(None, LifecycleState(c), None, None, None)>>
      BY <1>2 DEF NewVersion
    <2>2. /\ NewEvent(None, LifecycleState(c), None, None, None).auth = None
          /\ NewEvent(None, LifecycleState(c), None, None, None).to # "SUPERSEDED"
      BY DEF NewEvent, LifecycleState
    <2> QED
      BY <2>1, <2>2
  <1>10. SupersededStays(n)
    <2> SUFFICES ASSUME NEW k \in KbIds, NEW w \in Versions(n, k), NEW i \in DOMAIN n[k][w].hist,
                        n[k][w].hist[i].to = "SUPERSEDED"
                 PROVE  n[k][w].state \in {"SUPERSEDED", "RETIRED"}
      BY DEF SupersededStays
    <2>1. n[k][w] = m[k][w] /\ w \in Versions(m, k)
      BY <1>2, <1>5, <1>9 DEF Versions
    <2> QED
      BY <2>1 DEF ManifestInv, SupersededStays
  <1>11. DecidedOnce(n)
    <2> SUFFICES ASSUME NEW k \in KbIds, NEW x \in Versions(n, k), NEW y \in Versions(n, k),
                        NEW i \in DOMAIN n[k][x].hist, NEW j \in DOMAIN n[k][y].hist,
                        n[k][x].hist[i].auth # None,
                        n[k][x].hist[i].auth = n[k][y].hist[j].auth, <<x, i>> # <<y, j>>
                 PROVE  /\ x # y
                        /\ \/ /\ n[k][x].hist[i].to = "PUBLISHED" /\ n[k][y].hist[j].to = "SUPERSEDED"
                              /\ n[k][y].supBy = x
                           \/ /\ n[k][y].hist[j].to = "PUBLISHED" /\ n[k][x].hist[i].to = "SUPERSEDED"
                              /\ n[k][x].supBy = y
                           \/ n[k][x].hist[i].to = "SUPERSEDED" /\ n[k][y].hist[j].to = "SUPERSEDED"
      BY DEF DecidedOnce
    <2>1. /\ n[k][x] = m[k][x] /\ x \in Versions(m, k)
          /\ n[k][y] = m[k][y] /\ y \in Versions(m, k)
      BY <1>2, <1>5, <1>9 DEF Versions
    <2> QED
      BY <2>1 DEF ManifestInv, DecidedOnce
  <1> QED
    BY <1>2, <1>6, <1>7, <1>8, <1>10, <1>11 DEF ManifestInv, n

\* The empty knowledge base satisfies the invariant.
THEOREM EmptyManifestInv == ManifestInv(EmptyManifest)
  <1>1. \A k \in KbIds : EmptyManifest[k] = << >>
    BY DEF EmptyManifest
  <1>2. EmptyManifest \in Manifest
    BY EmptySeq DEF EmptyManifest, Manifest
  <1>3. \A k \in KbIds : Versions(EmptyManifest, k) = {}
    BY <1>1 DEF Versions
  <1> QED
    BY <1>2, <1>3 DEF ManifestInv, LiveVersionsDiffer, AtMostOneCurrent, ApprovalOnRecord,
                      Compared, CurrentVersions, DecidedOnce, SupersededStays

\* A record that a reviewer can have written has the fields of one.
LEMMA AuthorizationType ==
    ASSUME NEW m, NEW a \in Authorizations(m)
    PROVE  a.id \in AuthIds /\ a.rev \in Reviewers /\ a.at \in Stamps
  <1>1. PICK k \in KbIds : \E v \in Versions(m, k) :
            a \in [id: AuthIds, kb: {k}, version: {v}, digest: {Digest(m, k, v)},
                   decision: {"APPROVED", "REJECTED"}, rev: Reviewers, at: Stamps]
    BY DEF Authorizations
  <1> QED
    BY <1>1

\* The invariant says what is checked.
LEMMA InvImplies ==
    ASSUME NEW m, ManifestInv(m)
    PROVE  m \in Manifest /\ LiveVersionsDiffer(m) /\ AtMostOneCurrent(m) /\ CurrentAuthorized(m)
           /\ DecidedOnce(m)
  BY DEF ManifestInv, ApprovalOnRecord, CurrentAuthorized, CurrentVersions

-----------------------------------------------------------------------------
(* The life cycle *)

Inv == ManifestInv(manifest)

\* The invariant of the manifest is inductive.
THEOREM LifecycleInv == LifecycleSpec => []Inv
  <1>1. LifecycleInit => Inv
    BY EmptyManifestInv DEF LifecycleInit, Inv
  <1>2. Inv /\ [LifecycleNext]_manifest => Inv'
    <2> SUFFICES ASSUME ManifestInv(manifest), [LifecycleNext]_manifest
                 PROVE  ManifestInv(manifest')
      BY DEF Inv
    <2>1. ASSUME NEW c \in Candidates, AddCandidate(c)
          PROVE  ManifestInv(manifest')
      BY <2>1, AddKeepsInv DEF AddCandidate
    <2>2. ASSUME NEW kb \in KbIds, NEW v \in Versions(manifest, kb), NEW to \in KbState,
                 Move(kb, v, to)
          PROVE  ManifestInv(manifest')
      BY <2>2, MoveKeepsInv DEF Move
    <2>3. ASSUME NEW kb \in KbIds, NEW v \in Versions(manifest, kb), NEW to \in KbState,
                 NEW a \in Authorizations(manifest), Decide(kb, v, to, a)
          PROVE  ManifestInv(manifest')
      <3>1. a.id \in AuthIds /\ a.rev \in Reviewers /\ a.at \in Stamps
        BY AuthorizationType
      <3> QED
        BY <2>3, <3>1, DecideKeepsInv DEF Decide
    <2>4. CASE UNCHANGED manifest
      BY <2>4
    <2> QED
      BY <2>1, <2>2, <2>3, <2>4 DEF LifecycleNext
  <1> QED
    BY <1>1, <1>2, PTL DEF LifecycleSpec

\* Every reachable manifest is well formed.
THEOREM LifecycleTypeOK == LifecycleSpec => []ManifestOK
  <1>1. Inv => ManifestOK
    BY InvImplies DEF Inv, ManifestOK
  <1> QED
    BY <1>1, LifecycleInv, PTL

(***************************************************************************)
(* No entry ever has two versions that are current guidance.               *)
(***************************************************************************)
THEOREM LifecycleSingleGuidance == LifecycleSpec => []SingleGuidance
  <1>1. Inv => SingleGuidance
    BY InvImplies DEF Inv, SingleGuidance
  <1> QED
    BY <1>1, LifecycleInv, PTL

(***************************************************************************)
(* Live versions of an entry never say the same.                           *)
(***************************************************************************)
THEOREM LifecycleDistinctLive == LifecycleSpec => []DistinctLive
  <1>1. Inv => DistinctLive
    BY InvImplies DEF Inv, DistinctLive
  <1> QED
    BY <1>1, LifecycleInv, PTL

(***************************************************************************)
(* Current guidance was approved and published by authorized reviewers.    *)
(***************************************************************************)
THEOREM LifecycleGuidanceAuthorized == LifecycleSpec => []GuidanceAuthorized
  <1>1. Inv => GuidanceAuthorized
    BY InvImplies DEF Inv, GuidanceAuthorized
  <1> QED
    BY <1>1, LifecycleInv, PTL

(***************************************************************************)
(* An authorization stands for one decision on an entry: the check against *)
(* the histories of all its versions suffices, the withdrawals that a      *)
(* publication logs on other versions included.                            *)
(***************************************************************************)
THEOREM LifecycleOneDecision == LifecycleSpec => []OneDecisionPerAuthorization
  <1>1. Inv => OneDecisionPerAuthorization
    BY InvImplies DEF Inv, OneDecisionPerAuthorization
  <1> QED
    BY <1>1, LifecycleInv, PTL

\* No entry has more versions than the bound of the model.
WithinBound == \A k \in KbIds : Len(manifest[k]) <= VersionBound

(***************************************************************************)
(* What any command does to the manifest, from a manifest that satisfies   *)
(* the invariant: an addition or a rewriting.                              *)
(***************************************************************************)
Added == \E c \in Candidates :
    CanAdd(manifest, c) /\ Len(manifest[c.kb]) < VersionBound /\ Enlarged(manifest, manifest', c)

Moved(kb, v, to, id) ==
    /\ Restated(manifest, manifest', kb, v, to)
    /\ Allowed(manifest, kb, v, to)
    /\ \A k \in KbIds : Len(manifest'[k]) = Len(manifest[k])
    /\ Recorded(manifest, manifest', kb, v, to, id)
    /\ IF IsHumanDecision(manifest, kb, v, to)
       THEN id \in AuthIds /\ id \notin UsedAuths(manifest, kb)
       ELSE id = None

LEMMA StepShape ==
    ASSUME Inv, LifecycleNext
    PROVE  \/ Added
           \/ \E kb \in KbIds : \E v \in Versions(manifest, kb), to \in KbState,
                 id \in AuthIds \cup {None} : Moved(kb, v, to, id)
  <1>1. manifest \in Manifest
    BY DEF Inv, ManifestInv
  <1>2. ASSUME NEW c \in Candidates, AddCandidate(c)
        PROVE  Added
    BY <1>1, <1>2, AddShape DEF AddCandidate, Added
  <1>3. ASSUME NEW kb \in KbIds, NEW v \in Versions(manifest, kb), NEW to \in KbState,
               NEW id \in AuthIds \cup {None}, NEW rev \in Reviewers \cup {None},
               NEW at \in Stamps \cup {None},
               manifest' = TransitionTo(manifest, kb, v, to, id, rev, at)
        PROVE  /\ Restated(manifest, manifest', kb, v, to)
               /\ \A k \in KbIds : Len(manifest'[k]) = Len(manifest[k])
               /\ Recorded(manifest, manifest', kb, v, to, id)
    <2>1. Rewritten(manifest, manifest', kb, v, to, id, rev, at)
      BY <1>1, <1>3, TransitionShape
    <2>2. Restated(manifest, manifest', kb, v, to)
      BY <2>1, TransitionStates
    <2>3. Recorded(manifest, manifest', kb, v, to, id)
      BY <1>1, <2>1, TransitionHistory
    <2>4. \A k \in KbIds : Len(manifest'[k]) = Len(manifest[k])
      BY <2>1 DEF Rewritten
    <2> QED
      BY <2>2, <2>3, <2>4
  <1>4. ASSUME NEW kb \in KbIds, NEW v \in Versions(manifest, kb), NEW to \in KbState,
               Move(kb, v, to)
        PROVE  Moved(kb, v, to, None)
    <2>1. CanMove(manifest, kb, v, to)
          /\ manifest' = TransitionTo(manifest, kb, v, to, None, None, None)
      BY <1>4 DEF Move, MoveTo
    <2> QED
      BY <1>3, <2>1 DEF CanMove, Moved
  <1>5. ASSUME NEW kb \in KbIds, NEW v \in Versions(manifest, kb), NEW to \in KbState,
               NEW a \in Authorizations(manifest), Decide(kb, v, to, a)
        PROVE  a.id \in AuthIds /\ Moved(kb, v, to, a.id)
    <2>1. CanDecide(manifest, kb, v, to, a)
          /\ manifest' = TransitionTo(manifest, kb, v, to, a.id, a.rev, a.at)
      BY <1>5 DEF Decide, DecideTo
    <2>2. a.id \in AuthIds /\ a.rev \in Reviewers /\ a.at \in Stamps
      BY AuthorizationType
    <2> QED
      BY <1>3, <2>1, <2>2 DEF CanDecide, Moved
  <1> QED
    BY <1>2, <1>4, <1>5 DEF LifecycleNext

(***************************************************************************)
(* Supersession, which edits the records of other versions, and every      *)
(* other transition only add to a history.                                 *)
(***************************************************************************)
THEOREM LifecycleAppendOnly == LifecycleSpec => AppendOnly
  <1> DEFINE Kept(kb, v) ==
        /\ v \in Versions(manifest', kb)
        /\ manifest'[kb][v].cand = manifest[kb][v].cand
        /\ \A i \in DOMAIN manifest[kb][v].hist :
            /\ i \in DOMAIN manifest'[kb][v].hist
            /\ manifest'[kb][v].hist[i] = manifest[kb][v].hist[i]
  <1>1. ASSUME Inv, LifecycleNext, NEW k \in KbIds, NEW w \in Versions(manifest, k)
        PROVE  Kept(k, w)
    <2>1. CASE Added
      <3>1. PICK c \in Candidates : Enlarged(manifest, manifest', c)
        BY <2>1 DEF Added
      <3>2. w \in Versions(manifest', k) /\ manifest'[k][w] = manifest[k][w]
        <4>1. CASE k # c.kb
          BY <3>1, <4>1 DEF Enlarged, Versions
        <4>2. CASE k = c.kb
          BY <3>1, <4>2 DEF Enlarged
        <4> QED
          BY <4>1, <4>2
      <3> QED
        BY <3>2
    <2>2. ASSUME NEW kb \in KbIds, NEW v \in Versions(manifest, kb), NEW to \in KbState,
                 NEW id, Moved(kb, v, to, id)
          PROVE  Kept(k, w)
      <3>1. CASE k # kb
        BY <2>2, <3>1 DEF Moved, Restated, Versions
      <3>2. CASE k = kb
        <4>1. w \in Versions(manifest', k) /\ Logged(manifest, manifest', kb, v, to, id, w)
          BY <2>2, <3>2 DEF Moved, Restated, Recorded
        <4> QED
          BY <3>2, <4>1 DEF Logged
      <3> QED
        BY <3>1, <3>2
    <2> QED
      BY <1>1, <2>1, <2>2, StepShape
  <1>2. Inv /\ [LifecycleNext]_manifest =>
            [\A kb \in KbIds : \A v \in Versions(manifest, kb) : Kept(kb, v)]_manifest
    BY <1>1
  <1>3. LifecycleSpec => [][\A kb \in KbIds : \A v \in Versions(manifest, kb) : Kept(kb, v)]_manifest
    <2> HIDE DEF Kept
    <2> QED
      BY <1>2, LifecycleInv, PTL DEF LifecycleSpec
  <1> QED
    BY <1>3 DEF AppendOnly

-----------------------------------------------------------------------------
(* The entries implement KbGuidance.                                       *)

\* The versions of an entry in the states of S.
InStates(m, kb, S) == {v \in Versions(m, kb) : m[kb][v].state \in S}

WITHDRAWN == {"DEPRECATED", "SUPERSEDED", "RETIRED"}

LEMMA GuidanceStates ==
    /\ \A k \in KbIds : Current(k) = InStates(manifest, k, CURRENT_GUIDANCE)
    /\ \A k \in KbIds : Withdrawn(k) = InStates(manifest, k, WITHDRAWN)
    /\ \A k \in KbIds : Current(k)' = InStates(manifest', k, CURRENT_GUIDANCE)
    /\ \A k \in KbIds : Withdrawn(k)' = InStates(manifest', k, WITHDRAWN)
  BY DEF Current, Withdrawn, CurrentVersions, InStates, WITHDRAWN

\* What a decision leaves of the guidance of its entry.
GuidanceAfter(m, n, kb, v, to) ==
    \/ /\ v \notin InStates(m, kb, CURRENT_GUIDANCE) \cup InStates(m, kb, WITHDRAWN)
       /\ InStates(n, kb, CURRENT_GUIDANCE) = {v}
       /\ InStates(n, kb, WITHDRAWN)
            = InStates(m, kb, WITHDRAWN) \cup InStates(m, kb, CURRENT_GUIDANCE)
       /\ to = "PUBLISHED"
    \/ /\ InStates(m, kb, CURRENT_GUIDANCE) # {}
       /\ InStates(n, kb, CURRENT_GUIDANCE) = {}
       /\ InStates(n, kb, WITHDRAWN)
            = InStates(m, kb, WITHDRAWN) \cup InStates(m, kb, CURRENT_GUIDANCE)
       /\ to \in {"DEPRECATED", "SUPERSEDED"}
    \/ /\ InStates(n, kb, CURRENT_GUIDANCE) = InStates(m, kb, CURRENT_GUIDANCE)
       /\ InStates(n, kb, WITHDRAWN) = InStates(m, kb, WITHDRAWN)

LEMMA DecisionGuidance ==
    ASSUME NEW m, NEW n, NEW kb \in KbIds, NEW v \in Versions(m, kb), NEW to,
           Restated(m, n, kb, v, to), Allowed(m, kb, v, to),
           AtMostOneCurrent(m), AtMostOneCurrent(n)
    PROVE  /\ GuidanceAfter(m, n, kb, v, to)
           /\ ~IsHumanDecision(m, kb, v, to) =>
                /\ InStates(n, kb, CURRENT_GUIDANCE) = InStates(m, kb, CURRENT_GUIDANCE)
                /\ InStates(n, kb, WITHDRAWN) = InStates(m, kb, WITHDRAWN)
  <1> DEFINE C == InStates(m, kb, CURRENT_GUIDANCE)
             D == InStates(n, kb, CURRENT_GUIDANCE)
             W == InStates(m, kb, WITHDRAWN)
             X == InStates(n, kb, WITHDRAWN)
             s == m[kb][v].state
  <1>1. /\ Versions(n, kb) = Versions(m, kb)
        /\ n[kb][v].state = to
        /\ \A w \in Versions(m, kb) : w # v =>
            /\ Supersedes(m, kb, v, to, w) => n[kb][w].state = "SUPERSEDED"
            /\ ~Supersedes(m, kb, v, to, w) => n[kb][w].state = m[kb][w].state
    BY DEF Restated
  <1>2. <<s, to>> \in KB_TRANSITIONS
    BY DEF Allowed
  <1>3. /\ \A x, y \in C : x = y
        /\ \A x, y \in D : x = y
    BY DEF AtMostOneCurrent, CurrentVersions, InStates
  <1>4. \A w \in Versions(m, kb) :
            /\ w \in C <=> m[kb][w].state \in CURRENT_GUIDANCE
            /\ w \in D <=> n[kb][w].state \in CURRENT_GUIDANCE
            /\ w \in W <=> m[kb][w].state \in WITHDRAWN
            /\ w \in X <=> n[kb][w].state \in WITHDRAWN
    BY <1>1 DEF InStates
  <1>5. /\ C \subseteq Versions(m, kb) /\ D \subseteq Versions(m, kb)
        /\ W \subseteq Versions(m, kb) /\ X \subseteq Versions(m, kb)
    BY <1>1 DEF InStates
  <1> HIDE DEF C, D, W, X
  \* A version other than v changes only when it was current and is superseded.
  <1>6. ASSUME NEW w \in Versions(m, kb), w # v
        PROVE  /\ w \in D => w \in C
               /\ w \in X <=> w \in W \/ (w \in C /\ Supersedes(m, kb, v, to, w))
               /\ w \in C => w \in D \/ Supersedes(m, kb, v, to, w)
    <2>1. CASE Supersedes(m, kb, v, to, w)
      BY <1>1, <1>4, <1>6, <2>1 DEF Supersedes, WITHDRAWN, CURRENT_GUIDANCE
    <2>2. CASE ~Supersedes(m, kb, v, to, w)
      BY <1>1, <1>4, <1>6, <2>2
    <2> QED
      BY <2>1, <2>2
  <1>7. CASE s = "APPROVED_BY_HUMAN" /\ to = "PUBLISHED"
    <2>1. v \notin C \cup W /\ v \in D /\ v \notin X
      BY <1>1, <1>4, <1>7 DEF CURRENT_GUIDANCE, WITHDRAWN
    <2>2. D = {v}
      BY <1>3, <2>1
    <2>3. ASSUME NEW w \in C PROVE Supersedes(m, kb, v, to, w) /\ w \in X
      <3>1. w # v /\ w \in Versions(m, kb) /\ w \notin D
        BY <1>5, <2>1, <2>2
      <3> QED
        BY <1>6, <3>1
    <2>4. X = W \cup C
      <3>1. ASSUME NEW w \in X PROVE w \in W \cup C
        BY <1>5, <1>6, <2>1
      <3>2. ASSUME NEW w \in W PROVE w \in X
        BY <1>5, <1>6, <2>1
      <3> QED
        BY <2>3, <3>1, <3>2
    <2>5. IsHumanDecision(m, kb, v, to)
      BY <1>7 DEF IsHumanDecision, HUMAN_DECISION_TRANSITIONS
    <2> QED
      BY <1>7, <2>1, <2>2, <2>4, <2>5 DEF GuidanceAfter, C, D, W, X
  <1>8. CASE s \in CURRENT_GUIDANCE /\ to \in {"DEPRECATED", "SUPERSEDED"}
    <2>1. v \in C /\ v \notin D /\ v \in X
      BY <1>1, <1>4, <1>8 DEF CURRENT_GUIDANCE, WITHDRAWN
    <2>2. C = {v} /\ D = {}
      BY <1>3, <1>5, <1>6, <2>1
    <2>3. \A w \in Versions(m, kb) : ~Supersedes(m, kb, v, to, w)
      BY <1>8 DEF Supersedes
    <2>4. X = W \cup C
      BY <1>5, <1>6, <2>1, <2>2, <2>3
    <2>5. IsHumanDecision(m, kb, v, to)
      BY <1>8 DEF IsHumanDecision, HUMAN_DECISION_TRANSITIONS, CURRENT_GUIDANCE
    <2> QED
      BY <1>8, <2>2, <2>4, <2>5 DEF GuidanceAfter, C, D, W, X
  <1>9. CASE s \in CURRENT_GUIDANCE /\ to \in CURRENT_GUIDANCE
    <2>1. v \in C /\ v \in D /\ v \notin X /\ v \notin W
      BY <1>1, <1>4, <1>9 DEF CURRENT_GUIDANCE, WITHDRAWN
    <2>2. C = {v} /\ D = {v}
      BY <1>3, <2>1
    <2>3. X = W
      BY <1>5, <1>6, <2>1, <2>2
    <2> QED
      BY <2>2, <2>3 DEF GuidanceAfter, C, D, W, X
  <1>10. CASE s \notin CURRENT_GUIDANCE /\ to \notin CURRENT_GUIDANCE
    <2>1. to # "PUBLISHED" /\ (s \in WITHDRAWN <=> to \in WITHDRAWN)
      BY <1>2, <1>10 DEF KB_TRANSITIONS, WITHDRAWN, CURRENT_GUIDANCE
    <2>2. \A w \in Versions(m, kb) : ~Supersedes(m, kb, v, to, w)
      BY <2>1 DEF Supersedes
    <2>3. v \notin C /\ v \notin D /\ (v \in X <=> v \in W)
      BY <1>1, <1>4, <1>10, <2>1
    <2>4. C = D /\ X = W
      BY <1>5, <1>6, <2>2, <2>3
    <2> QED
      BY <2>4 DEF GuidanceAfter, C, D, W, X
  <1>11. \/ s = "APPROVED_BY_HUMAN" /\ to = "PUBLISHED"
         \/ s \in CURRENT_GUIDANCE /\ to \in {"DEPRECATED", "SUPERSEDED"}
         \/ s \in CURRENT_GUIDANCE /\ to \in CURRENT_GUIDANCE
         \/ s \notin CURRENT_GUIDANCE /\ to \notin CURRENT_GUIDANCE
    BY <1>2 DEF KB_TRANSITIONS, CURRENT_GUIDANCE
  <1> QED
    BY <1>7, <1>8, <1>9, <1>10, <1>11

\* The bound of the model holds along every behaviour.
LEMMA LifecycleWithinBound == LifecycleSpec => []WithinBound
  <1>1. LifecycleInit => WithinBound
    BY KbAssumption DEF LifecycleInit, WithinBound, EmptyManifest
  <1>2. WithinBound /\ Inv /\ [LifecycleNext]_manifest => WithinBound'
    <2> SUFFICES ASSUME WithinBound, Inv, [LifecycleNext]_manifest, NEW k \in KbIds
                 PROVE  Len(manifest'[k]) <= VersionBound
      BY DEF WithinBound
    <2>1. CASE Added
      <3>1. PICK c \in Candidates : Len(manifest[c.kb]) < VersionBound /\ Enlarged(manifest, manifest', c)
        BY <2>1 DEF Added
      <3>2. CASE k # c.kb
        BY <3>1, <3>2 DEF Enlarged, WithinBound
      <3>3. CASE k = c.kb
        <4>1. manifest'[k] \in Seq(VersionRecord) /\ DOMAIN manifest'[k] = 1..(Len(manifest[k]) + 1)
              /\ Len(manifest[k]) \in Nat
          BY <3>1, <3>3 DEF Enlarged, Manifest, Versions
        <4>2. Len(manifest'[k]) = Len(manifest[k]) + 1
          BY <4>1, LenProperties
        <4> QED
          BY <3>1, <3>3, <4>1, <4>2, KbAssumption
      <3> QED
        BY <3>2, <3>3
    <2>2. CASE \E kb \in KbIds : \E v \in Versions(manifest, kb), to \in KbState,
                 id \in AuthIds \cup {None} : Moved(kb, v, to, id)
      BY <2>2 DEF Moved, WithinBound
    <2>3. CASE UNCHANGED manifest
      BY <2>3 DEF WithinBound
    <2> QED
      BY <2>1, <2>2, <2>3, StepShape
  <1> QED
    BY <1>1, <1>2, LifecycleInv, PTL DEF LifecycleSpec

\* The state of KbGuidance that a manifest stands for.
GuidanceOf(m) == [k \in KbIds |-> InStates(m, k, CURRENT_GUIDANCE)]
WithdrawnOf(m) == [k \in KbIds |-> InStates(m, k, WITHDRAWN)]
SpentOf(m) == [k \in KbIds |-> UsedAuths(m, k)]

\* An addition is no step of KbGuidance.
LEMMA AddIsStutter ==
    ASSUME manifest \in Manifest, Added
    PROVE  /\ GuidanceOf(manifest') = GuidanceOf(manifest)
           /\ WithdrawnOf(manifest') = WithdrawnOf(manifest)
           /\ SpentOf(manifest') = SpentOf(manifest)
  <1>1. PICK c \in Candidates : Enlarged(manifest, manifest', c)
    BY DEF Added
  <1>2. /\ CURRENT_GUIDANCE \cap {"CANDIDATE", "DRAFT", "REJECTED"} = {}
        /\ WITHDRAWN \cap {"CANDIDATE", "DRAFT", "REJECTED"} = {}
    BY DEF CURRENT_GUIDANCE, WITHDRAWN
  <1>3. ASSUME NEW k \in KbIds
        PROVE  /\ UsedAuths(manifest', k) = UsedAuths(manifest, k)
               /\ InStates(manifest', k, CURRENT_GUIDANCE) = InStates(manifest, k, CURRENT_GUIDANCE)
               /\ InStates(manifest', k, WITHDRAWN) = InStates(manifest, k, WITHDRAWN)
    BY <1>1, <1>2, AddLeavesGuidance DEF InStates
  <1> QED
    BY <1>3 DEF GuidanceOf, WithdrawnOf, SpentOf

\* A transition without human decision is no step of KbGuidance either; a
\* decision publishes, withdraws or leaves the guidance of its entry, and
\* spends its authorization.
LEMMA MoveIsGuidanceStep ==
    ASSUME Inv, Inv', WithinBound,
           NEW kb \in KbIds, NEW v \in Versions(manifest, kb), NEW to \in KbState,
           NEW id \in AuthIds \cup {None}, Moved(kb, v, to, id)
    PROVE  \/ /\ GuidanceOf(manifest') = GuidanceOf(manifest)
              /\ WithdrawnOf(manifest') = WithdrawnOf(manifest)
              /\ SpentOf(manifest') = SpentOf(manifest)
           \/ /\ id \in AuthIds
              /\ id \notin SpentOf(manifest)[kb]
              /\ SpentOf(manifest') = [SpentOf(manifest) EXCEPT ![kb] = @ \cup {id}]
              /\ \/ /\ v \in 1..VersionBound
                    /\ v \notin GuidanceOf(manifest)[kb] \cup WithdrawnOf(manifest)[kb]
                    /\ GuidanceOf(manifest') = [GuidanceOf(manifest) EXCEPT ![kb] = {v}]
                    /\ WithdrawnOf(manifest') = [WithdrawnOf(manifest) EXCEPT
                                                    ![kb] = @ \cup GuidanceOf(manifest)[kb]]
                 \/ /\ GuidanceOf(manifest)[kb] # {}
                    /\ GuidanceOf(manifest') = [GuidanceOf(manifest) EXCEPT ![kb] = {}]
                    /\ WithdrawnOf(manifest') = [WithdrawnOf(manifest) EXCEPT
                                                    ![kb] = @ \cup GuidanceOf(manifest)[kb]]
                 \/ /\ GuidanceOf(manifest') = GuidanceOf(manifest)
                    /\ WithdrawnOf(manifest') = WithdrawnOf(manifest)
  <1> DEFINE m == manifest
             n == manifest'
  <1>1. AtMostOneCurrent(m) /\ AtMostOneCurrent(n) /\ m \in Manifest
    BY DEF Inv, ManifestInv
  <1>2. /\ Restated(m, n, kb, v, to) /\ Allowed(m, kb, v, to)
        /\ Recorded(m, n, kb, v, to, id)
    BY DEF Moved
  <1>3. v \in 1..VersionBound
    <2>1. m[kb] \in Seq(VersionRecord)
      BY <1>1 DEF Manifest
    <2>2. DOMAIN m[kb] = 1..Len(m[kb]) /\ Len(m[kb]) \in Nat
      BY <2>1, LenProperties
    <2>3. Len(m[kb]) <= VersionBound
      BY DEF WithinBound
    <2>4. v \in 1..Len(m[kb])
      BY <2>2 DEF Versions
    <2> HIDE DEF m
    <2> QED
      BY <2>2, <2>3, <2>4, KbAssumption
  <1>4. /\ GuidanceAfter(m, n, kb, v, to)
        /\ ~IsHumanDecision(m, kb, v, to) =>
            /\ InStates(n, kb, CURRENT_GUIDANCE) = InStates(m, kb, CURRENT_GUIDANCE)
            /\ InStates(n, kb, WITHDRAWN) = InStates(m, kb, WITHDRAWN)
    BY <1>1, <1>2, DecisionGuidance
  <1>5. /\ id \in AuthIds => UsedAuths(n, kb) = UsedAuths(m, kb) \cup {id}
        /\ id \notin AuthIds => UsedAuths(n, kb) = UsedAuths(m, kb)
        /\ \A k \in KbIds : k # kb => UsedAuths(n, k) = UsedAuths(m, k)
    BY <1>2, TransitionSpends
  <1>6. \A k \in KbIds : k # kb =>
            /\ InStates(n, k, CURRENT_GUIDANCE) = InStates(m, k, CURRENT_GUIDANCE)
            /\ InStates(n, k, WITHDRAWN) = InStates(m, k, WITHDRAWN)
    BY <1>2 DEF Restated, InStates
  <1>7. CASE ~IsHumanDecision(m, kb, v, to)
    <2>1. id \notin AuthIds
      BY <1>7, KbAssumption DEF Moved
    <2> QED
      BY <1>4, <1>5, <1>6, <1>7, <2>1 DEF GuidanceOf, WithdrawnOf, SpentOf
  <1>8. CASE IsHumanDecision(m, kb, v, to)
    <2>1. id \in AuthIds /\ id \notin UsedAuths(m, kb)
      BY <1>8 DEF Moved
    <2>2. SpentOf(n) = [SpentOf(m) EXCEPT ![kb] = @ \cup {id}] /\ id \notin SpentOf(m)[kb]
      BY <1>5, <2>1 DEF SpentOf
    <2>3. \A S : InStates(n, kb, CURRENT_GUIDANCE) = S =>
                    GuidanceOf(n) = [GuidanceOf(m) EXCEPT ![kb] = S]
      BY <1>6 DEF GuidanceOf
    <2>4. \A S : InStates(n, kb, WITHDRAWN) = S =>
                    WithdrawnOf(n) = [WithdrawnOf(m) EXCEPT ![kb] = S]
      BY <1>6 DEF WithdrawnOf
    <2>5. /\ GuidanceOf(m)[kb] = InStates(m, kb, CURRENT_GUIDANCE)
          /\ WithdrawnOf(m)[kb] = InStates(m, kb, WITHDRAWN)
      BY DEF GuidanceOf, WithdrawnOf
    <2>6. /\ [GuidanceOf(m) EXCEPT ![kb] = InStates(m, kb, CURRENT_GUIDANCE)] = GuidanceOf(m)
          /\ [WithdrawnOf(m) EXCEPT ![kb] = InStates(m, kb, WITHDRAWN)] = WithdrawnOf(m)
      BY DEF GuidanceOf, WithdrawnOf
    <2> HIDE DEF m, n
    <2> QED
      BY <1>3, <1>4, <2>1, <2>2, <2>3, <2>4, <2>5, <2>6 DEF GuidanceAfter, m, n
  <1> QED
    BY <1>7, <1>8

(***************************************************************************)
(* The life cycle keeps the promise of KbGuidance: what is current changes *)
(* only by a decision under a fresh authorization, a publication leaves a  *)
(* single current version, and no withdrawn version returns.               *)
(***************************************************************************)
THEOREM LifecycleKeepsGuidancePromise == LifecycleSpec => KeepsGuidancePromise
  <1> DEFINE g == [k \in KbIds |-> Current(k)]
             w == [k \in KbIds |-> Withdrawn(k)]
             u == [k \in KbIds |-> UsedAuths(manifest, k)]
  <1>1. /\ g = GuidanceOf(manifest) /\ w = WithdrawnOf(manifest) /\ u = SpentOf(manifest)
        /\ g' = GuidanceOf(manifest') /\ w' = WithdrawnOf(manifest') /\ u' = SpentOf(manifest')
    BY GuidanceStates DEF GuidanceOf, WithdrawnOf, SpentOf
  <1>2. LifecycleInit => Guidance!Init
    <2> SUFFICES ASSUME LifecycleInit, NEW k \in KbIds
                 PROVE  Current(k) = {} /\ Withdrawn(k) = {} /\ UsedAuths(manifest, k) = {}
      BY DEF Guidance!Init
    <2>1. Versions(manifest, k) = {}
      BY DEF LifecycleInit, EmptyManifest, Versions
    <2> QED
      BY <2>1 DEF Current, Withdrawn, CurrentVersions, UsedAuths
  <1>3. Inv /\ Inv' /\ WithinBound /\ [LifecycleNext]_manifest => [Guidance!Next]_(Guidance!vars)
    <2> SUFFICES ASSUME Inv, Inv', WithinBound, [LifecycleNext]_manifest
                 PROVE  Guidance!Next \/ (g' = g /\ w' = w /\ u' = u)
      BY DEF Guidance!vars
    <2>1. CASE UNCHANGED manifest
      BY <1>1, <2>1
    <2>2. CASE Added
      BY <1>1, <2>2, AddIsStutter DEF Inv, ManifestInv
    <2>3. ASSUME NEW kb \in KbIds, NEW v \in Versions(manifest, kb), NEW to \in KbState,
                 NEW id \in AuthIds \cup {None}, Moved(kb, v, to, id)
          PROVE  Guidance!Next \/ (g' = g /\ w' = w /\ u' = u)
      <3>1. \/ g' = g /\ w' = w /\ u' = u
            \/ /\ id \in AuthIds /\ id \notin u[kb] /\ u' = [u EXCEPT ![kb] = @ \cup {id}]
               /\ \/ /\ v \in 1..VersionBound /\ v \notin g[kb] \cup w[kb]
                     /\ g' = [g EXCEPT ![kb] = {v}] /\ w' = [w EXCEPT ![kb] = @ \cup g[kb]]
                  \/ /\ g[kb] # {}
                     /\ g' = [g EXCEPT ![kb] = {}] /\ w' = [w EXCEPT ![kb] = @ \cup g[kb]]
                  \/ g' = g /\ w' = w
        <4> HIDE DEF g, w, u
        <4> QED
          BY <1>1, <2>3, MoveIsGuidanceStep
      <3> QED
        BY <3>1 DEF Guidance!Next, Guidance!Publish, Guidance!Withdraw, Guidance!Confirm,
                    Guidance!Spend
    <2> QED
      BY <2>1, <2>2, <2>3, StepShape
  <1> QED
    BY <1>2, <1>3, LifecycleInv, LifecycleWithinBound, PTL
       DEF LifecycleSpec, KeepsGuidancePromise, Guidance!Spec

-----------------------------------------------------------------------------
(* The store with its files and processes *)

Adding == {"check_json", "put_json", "check_md", "put_md"}

\* The candidate a process is adding passed review on what it has in memory.
AddReviewed(p) ==
    pc[p] \in Adding =>
        /\ cand[p] \in Candidates
        /\ CanAdd(mem[p], cand[p])
        /\ Len(mem[p][cand[p].kb]) < VersionBound

StoreInv ==
    /\ TypeOK
    /\ ManifestInv(manifest)
    /\ \A p \in Procs : ManifestInv(mem[p]) /\ AddReviewed(p)

\* The invariant of the manifest holds on disk and in every memory.
THEOREM StoreInvariant == Spec => []StoreInv
  <1>1. Init => StoreInv
    <2> SUFFICES ASSUME Init PROVE StoreInv
      OBVIOUS
    <2>1. ManifestInv(EmptyManifest) /\ EmptyManifest \in Manifest
      BY EmptyManifestInv DEF ManifestInv
    <2>2. TypeOK
      BY <2>1 DEF Init, TypeOK, Steps
    <2> QED
      BY <2>1, <2>2 DEF Init, StoreInv, AddReviewed, Adding
  <1>2. StoreInv /\ [Next]_vars => StoreInv'
    <2> SUFFICES ASSUME StoreInv, [Next]_vars PROVE StoreInv'
      OBVIOUS
    <2> USE DEF StoreInv
    <2>e. ManifestInv(EmptyManifest) /\ EmptyManifest \in Manifest
      BY EmptyManifestInv DEF ManifestInv
    <2>t. /\ TypeOK /\ \A p \in Procs : mem[p] \in Manifest
      BY DEF TypeOK
    <2>x. ASSUME NEW p \in Procs, End(p), manifest' = manifest \/ manifest' = mem[p],
                 UNCHANGED <<json, md>>, broken' \subseteq {"manifest", "new entry", "article"}
          PROVE  StoreInv'
      <3>1. ManifestInv(manifest')
        BY <2>x
      <3>2. \A q \in Procs : ManifestInv(mem'[q])
        BY <2>e, <2>t, <2>x DEF End, TypeOK
      <3>3. \A q \in Procs : AddReviewed(q)'
        BY <2>t, <2>x DEF End, AddReviewed, Adding, TypeOK
      <3>4. TypeOK'
        BY <2>e, <2>t, <2>x DEF End, TypeOK, Steps
      <3> QED
        BY <3>1, <3>2, <3>3, <3>4
    <2>y. ASSUME NEW p \in Procs, Exit(p), manifest' = manifest \/ manifest' = mem[p],
                 UNCHANGED <<json, md>>
          PROVE  StoreInv'
      BY <2>t, <2>x, <2>y DEF Exit, TypeOK
    <2>z. ASSUME NEW p \in Procs, NEW check \in {"manifest", "new entry", "article"},
                 IntegrityError(p, check), UNCHANGED disk
          PROVE  StoreInv'
      BY <2>t, <2>x, <2>z DEF IntegrityError, TypeOK, disk
    <2>1. ASSUME NEW p \in Procs, Load(p)
          PROVE  StoreInv'
      <3>1. CASE Goto(p, "loaded") /\ mem' = [mem EXCEPT ![p] = manifest] /\ cand' = cand
        <4>1. TypeOK'
          BY <2>t, <2>1, <3>1 DEF Load, Goto, TypeOK, disk, Steps
        <4>2. \A q \in Procs : ManifestInv(mem'[q])
          BY <2>t, <2>1, <3>1 DEF Load, TypeOK, disk
        <4>3. \A q \in Procs : AddReviewed(q)'
          BY <2>t, <2>1, <3>1 DEF Load, Goto, AddReviewed, Adding, TypeOK, disk
        <4> QED
          BY <2>1, <4>1, <4>2, <4>3 DEF Load, disk
      <3>2. CASE IntegrityError(p, "manifest")
        BY <2>z, <2>1, <3>2 DEF Load
      <3> QED
        BY <2>1, <3>1, <3>2 DEF Load
    <2>2. ASSUME NEW p \in Procs, NEW c \in Candidates, AddReview(p, c)
          PROVE  StoreInv'
      <3>1. TypeOK'
        BY <2>t, <2>2 DEF AddReview, Goto, TypeOK, disk, Steps
      <3>2. \A q \in Procs : AddReviewed(q)'
        BY <2>t, <2>2 DEF AddReview, Goto, AddReviewed, Adding, TypeOK, disk
      <3> QED
        BY <2>2, <3>1, <3>2 DEF AddReview, disk
    <2>3. ASSUME NEW p \in Procs, NEW file, NEW here \in Adding, NEW then \in Adding,
                 CheckFile(p, file, here, then)
          PROVE  StoreInv'
      <3>1. CASE Goto(p, then) /\ UNCHANGED <<mem, cand>>
        <4>1. TypeOK'
          BY <2>t, <2>3, <3>1 DEF CheckFile, Goto, TypeOK, disk, Steps, Adding
        <4>2. \A q \in Procs : AddReviewed(q)'
          BY <2>t, <2>3, <3>1 DEF CheckFile, Goto, AddReviewed, Adding, TypeOK, disk
        <4> QED
          BY <2>3, <3>1, <4>1, <4>2 DEF CheckFile, disk
      <3>2. CASE Exit(p)
        BY <2>y, <2>3, <3>2 DEF CheckFile, disk
      <3> QED
        BY <2>3, <3>1, <3>2 DEF CheckFile
    <2>4. ASSUME NEW p \in Procs, PutJson(p)
          PROVE  StoreInv'
      <3>1. cand[p] \in Candidates
        BY <2>4 DEF PutJson, AddReviewed, Adding
      <3>2. TypeOK'
        BY <2>t, <2>4, <3>1 DEF PutJson, Goto, TypeOK, Steps
      <3>3. \A q \in Procs : AddReviewed(q)'
        BY <2>t, <2>4 DEF PutJson, Goto, AddReviewed, Adding, TypeOK
      <3> QED
        BY <2>4, <3>2, <3>3 DEF PutJson
    <2>5. ASSUME NEW p \in Procs, PutMd(p)
          PROVE  StoreInv'
      <3>1. cand[p] \in Candidates /\ CanAdd(mem[p], cand[p])
        BY <2>5 DEF PutMd, AddReviewed, Adding
      <3>2. ManifestInv(AddTo(mem[p], cand[p]))
        BY <3>1, AddKeepsInv
      <3>3. AddTo(mem[p], cand[p]) \in Manifest
        BY <3>2 DEF ManifestInv
      <3>4. mem' = [mem EXCEPT ![p] = AddTo(mem[p], cand[p])]
        BY <2>5 DEF PutMd
      <3>5. TypeOK'
        BY <2>t, <2>5, <3>1, <3>3, <3>4 DEF PutMd, Goto, TypeOK, Steps
      <3>6. \A q \in Procs : ManifestInv(mem'[q])
        BY <2>t, <3>2, <3>4 DEF TypeOK
      <3>7. \A q \in Procs : AddReviewed(q)'
        BY <2>t, <2>5, <3>4 DEF PutMd, Goto, AddReviewed, Adding, TypeOK
      <3> QED
        BY <2>5, <3>5, <3>6, <3>7 DEF PutMd
    <2>6. ASSUME NEW p \in Procs, NEW kb \in KbIds, NEW v \in Versions(mem[p], kb),
                 NEW to \in KbState, Transition(p, kb, v, to)
          PROVE  StoreInv'
      <3>1. PICK n : ManifestInv(n) /\ mem' = [mem EXCEPT ![p] = n]
        <4>1. CASE /\ CanMove(mem[p], kb, v, to)
                   /\ mem' = [mem EXCEPT ![p] = MoveTo(mem[p], kb, v, to)]
          BY <4>1, MoveKeepsInv
        <4>2. ASSUME NEW a \in Authorizations(mem[p]), CanDecide(mem[p], kb, v, to, a),
                     mem' = [mem EXCEPT ![p] = DecideTo(mem[p], kb, v, to, a)]
              PROVE  ManifestInv(DecideTo(mem[p], kb, v, to, a))
          BY <4>2, AuthorizationType, DecideKeepsInv
        <4> QED
          BY <2>6, <4>1, <4>2 DEF Transition
      <3>2. n \in Manifest
        BY <3>1 DEF ManifestInv
      <3>3. TypeOK'
        BY <2>t, <2>6, <3>1, <3>2 DEF Transition, Goto, TypeOK, disk, Steps
      <3>4. \A q \in Procs : ManifestInv(mem'[q])
        BY <2>t, <3>1 DEF TypeOK
      <3>5. \A q \in Procs : AddReviewed(q)'
        BY <2>t, <2>6, <3>1 DEF Transition, Goto, AddReviewed, Adding, TypeOK, disk
      <3> QED
        BY <2>6, <3>3, <3>4, <3>5 DEF Transition, disk
    <2>7. ASSUME NEW p \in Procs, NEW kb, NEW v, TransitionBroken(p, kb, v)
          PROVE  StoreInv'
      BY <2>z, <2>7 DEF TransitionBroken
    <2>8. ASSUME NEW p \in Procs, Save(p)
          PROVE  StoreInv'
      BY <2>y, <2>8 DEF Save
    <2>9. ASSUME NEW p \in Procs, NEW states, Search(p, states)
          PROVE  StoreInv'
      <3>1. CASE Exit(p)
        BY <2>y, <2>9, <3>1 DEF Search, disk
      <3>2. CASE IntegrityError(p, "article")
        BY <2>z, <2>9, <3>2 DEF Search
      <3> QED
        BY <2>9, <3>1, <3>2 DEF Search
    <2>10. ASSUME NEW p \in Procs, Stop(p)
           PROVE  StoreInv'
      BY <2>y, <2>10 DEF Stop, disk
    <2>r. ASSUME NEW p \in Procs, NEW c, AddRefused(p, c)
          PROVE  StoreInv'
      BY <2>z, <2>r DEF AddRefused
    <2>11. ASSUME NEW p \in Procs, CheckJson(p) \/ CheckMd(p)
           PROVE  StoreInv'
      BY <2>3, <2>11 DEF CheckJson, CheckMd, Adding
    <2>12. CASE UNCHANGED vars
      <3>1. TypeOK'
        BY <2>t, <2>12 DEF vars, TypeOK
      <3> QED
        BY <2>12, <3>1 DEF vars, AddReviewed
    <2>13. ASSUME NEW p \in Writers, WriterStep(p)
           PROVE  StoreInv'
      BY <2>1, <2>2, <2>4, <2>5, <2>6, <2>7, <2>8, <2>10, <2>11, <2>13, <2>r DEF WriterStep, Procs
    <2>14. ASSUME NEW p \in Readers, ReaderStep(p)
           PROVE  StoreInv'
      BY <2>1, <2>9, <2>10, <2>14 DEF ReaderStep, Procs
    <2> QED
      BY <2>12, <2>13, <2>14 DEF Next
  <1> QED
    BY <1>1, <1>2, PTL DEF Spec

(***************************************************************************)
(* Whatever the number of writers, no entry shows two current versions.    *)
(***************************************************************************)
THEOREM StoreSingleGuidance == Spec => []SingleGuidance
  <1>1. StoreInv => SingleGuidance
    BY InvImplies DEF StoreInv, SingleGuidance
  <1> QED
    BY <1>1, StoreInvariant, PTL

(***************************************************************************)
(* Whatever the number of writers, the live versions of an entry differ.   *)
(***************************************************************************)
THEOREM StoreDistinctLive == Spec => []DistinctLive
  <1>1. StoreInv => DistinctLive
    BY InvImplies DEF StoreInv, DistinctLive
  <1> QED
    BY <1>1, StoreInvariant, PTL

(***************************************************************************)
(* Whatever the number of writers, current guidance is authorized.         *)
(***************************************************************************)
THEOREM StoreGuidanceAuthorized == Spec => []GuidanceAuthorized
  <1>1. StoreInv => GuidanceAuthorized
    BY InvImplies DEF StoreInv, GuidanceAuthorized
  <1> QED
    BY <1>1, StoreInvariant, PTL

(***************************************************************************)
(* Whatever the number of writers, no manifest on disk or in memory counts *)
(* an authorization for two decisions on an entry.                         *)
(***************************************************************************)
THEOREM StoreDecidedOnce == Spec => [](DecidedOnce(manifest) /\ \A p \in Procs : DecidedOnce(mem[p]))
  <1>1. StoreInv => DecidedOnce(manifest) /\ \A p \in Procs : DecidedOnce(mem[p])
    BY InvImplies DEF StoreInv
  <1> QED
    BY <1>1, StoreInvariant, PTL

\* Every reachable state of the store is well typed.
THEOREM StoreTypeOK == Spec => []TypeOK
  <1>1. StoreInv => TypeOK
    BY DEF StoreInv
  <1> QED
    BY <1>1, StoreInvariant, PTL

-----------------------------------------------------------------------------
(* One writer. *)

SingleWriter == \A p, q \in Writers : p = q

\* A manifest and what one command makes of it.
Command(m, n) ==
    \/ \E c \in Candidates :
        CanAdd(m, c) /\ Len(m[c.kb]) < VersionBound /\ n = AddTo(m, c)
    \/ \E kb \in KbIds : \E v \in Versions(m, kb), to \in KbState :
        \/ CanMove(m, kb, v, to) /\ n = MoveTo(m, kb, v, to)
        \/ \E a \in Authorizations(m) :
            CanDecide(m, kb, v, to, a) /\ n = DecideTo(m, kb, v, to, a)

\* The writer works on the manifest that is on disk.
UpToDate(p) ==
    /\ pc[p] \in Adding \cup {"loaded"} => mem[p] = manifest
    /\ pc[p] = "save" => Command(manifest, mem[p])

WriterInv == StoreInv /\ \A p \in Writers : UpToDate(p)

\* With one writer, a step of another process leaves the writer's view alone.
THEOREM WriterInvariant == ASSUME SingleWriter PROVE Spec => []WriterInv
  <1>1. Init => \A p \in Writers : UpToDate(p)
    BY DEF Init, UpToDate, Adding, Procs
  <1>2. StoreInv /\ (\A p \in Writers : UpToDate(p)) /\ [Next]_vars
            => (\A p \in Writers : UpToDate(p))'
    <2> SUFFICES ASSUME StoreInv, \A p \in Writers : UpToDate(p), [Next]_vars, NEW w \in Writers
                 PROVE  UpToDate(w)'
      OBVIOUS
    <2>t. w \in Procs /\ TypeOK /\ UpToDate(w) /\ AddReviewed(w)
      BY DEF StoreInv, Procs
    <2>e. CASE End(w)
      BY <2>t, <2>e DEF End, UpToDate, Adding, TypeOK
    <2>x. ASSUME NEW check, Exit(w) \/ IntegrityError(w, check) PROVE UpToDate(w)'
      BY <2>e, <2>x DEF Exit, IntegrityError
    <2>o. ASSUME NEW p \in Procs, p # w, ReaderStep(p) PROVE UpToDate(w)'
      <3>1. manifest' = manifest /\ pc'[w] = pc[w] /\ mem'[w] = mem[w]
        BY <2>t, <2>o DEF ReaderStep, Load, Search, Stop, Goto, Exit, IntegrityError, End, disk, TypeOK
      <3> QED
        BY <2>t, <3>1 DEF UpToDate
    <2>1. CASE Load(w)
      <3>1. CASE Goto(w, "loaded") /\ mem' = [mem EXCEPT ![w] = manifest]
        BY <2>t, <2>1, <3>1 DEF Load, Goto, UpToDate, disk, TypeOK, Adding
      <3> QED
        BY <2>x, <2>1, <3>1 DEF Load
    <2>2. ASSUME NEW c \in Candidates, AddReview(w, c) PROVE UpToDate(w)'
      BY <2>t, <2>2 DEF AddReview, Goto, UpToDate, disk, TypeOK, Adding
    <2>3. CASE CheckJson(w)
      <3>1. CASE Goto(w, "put_json") /\ UNCHANGED <<mem, cand>>
        BY <2>t, <2>3, <3>1 DEF CheckJson, CheckFile, Goto, UpToDate, disk, TypeOK, Adding
      <3> QED
        BY <2>x, <2>3, <3>1 DEF CheckJson, CheckFile
    <2>4. CASE PutJson(w)
      BY <2>t, <2>4 DEF PutJson, Goto, UpToDate, disk, TypeOK, Adding
    <2>5. CASE CheckMd(w)
      <3>1. CASE Goto(w, "put_md") /\ UNCHANGED <<mem, cand>>
        BY <2>t, <2>5, <3>1 DEF CheckMd, CheckFile, Goto, UpToDate, disk, TypeOK, Adding
      <3> QED
        BY <2>x, <2>5, <3>1 DEF CheckMd, CheckFile
    <2>6. CASE PutMd(w)
      <3>1. mem[w] = manifest /\ cand[w] \in Candidates /\ CanAdd(mem[w], cand[w])
            /\ Len(mem[w][cand[w].kb]) < VersionBound
        BY <2>t, <2>6 DEF PutMd, UpToDate, AddReviewed, Adding
      <3>2. manifest' = manifest /\ pc'[w] = "save" /\ mem'[w] = AddTo(mem[w], cand[w])
        BY <2>t, <2>6 DEF PutMd, Goto, TypeOK
      <3>3. Command(manifest, mem'[w])
        BY <3>1, <3>2 DEF Command
      <3> QED
        BY <3>2, <3>3 DEF UpToDate, Adding
    <2>7. ASSUME NEW kb \in KbIds, NEW v \in Versions(mem[w], kb), NEW to \in KbState,
                 Transition(w, kb, v, to)
          PROVE  UpToDate(w)'
      <3>1. mem[w] = manifest /\ manifest' = manifest /\ pc'[w] = "save"
        BY <2>t, <2>7 DEF Transition, Goto, UpToDate, disk, TypeOK
      <3>2. \/ CanMove(manifest, kb, v, to) /\ mem'[w] = MoveTo(manifest, kb, v, to)
            \/ \E a \in Authorizations(manifest) :
                CanDecide(manifest, kb, v, to, a) /\ mem'[w] = DecideTo(manifest, kb, v, to, a)
        BY <2>t, <2>7, <3>1 DEF Transition, TypeOK
      <3>3. Command(manifest, mem'[w])
        BY <3>1, <3>2 DEF Command
      <3> QED
        BY <3>1, <3>3 DEF UpToDate, Adding
    <2>8. ASSUME NEW kb, NEW v, TransitionBroken(w, kb, v) PROVE UpToDate(w)'
      BY <2>x, <2>8 DEF TransitionBroken
    <2>r. ASSUME NEW c, AddRefused(w, c) PROVE UpToDate(w)'
      BY <2>x, <2>r DEF AddRefused
    <2>9. CASE Save(w) \/ Stop(w) \/ \E states \in SearchableStates : Search(w, states)
      BY <2>x, <2>9 DEF Save, Stop, Search
    <2>10. CASE UNCHANGED vars
      BY <2>t, <2>10 DEF vars, UpToDate
    <2>11. ASSUME NEW p \in Writers, WriterStep(p) PROVE UpToDate(w)'
      <3>1. p = w
        BY DEF SingleWriter
      <3> QED
        BY <2>1, <2>2, <2>3, <2>4, <2>5, <2>6, <2>7, <2>8, <2>9, <2>11, <2>r, <3>1 DEF WriterStep
    <2>12. ASSUME NEW p \in Readers, ReaderStep(p) PROVE UpToDate(w)'
      <3>1. CASE p = w
        BY <2>1, <2>9, <2>12, <3>1 DEF ReaderStep
      <3> QED
        BY <2>o, <2>12, <3>1 DEF Procs
    <2> QED
      BY <2>10, <2>11, <2>12 DEF Next
  <1> DEFINE All == \A p \in Writers : UpToDate(p)
  <1>3. Init => All
    BY <1>1
  <1>4. StoreInv /\ All /\ [Next]_vars => All'
    BY <1>2
  <1>5. WriterInv <=> StoreInv /\ All
    BY DEF WriterInv
  <1> HIDE DEF All
  <1> QED
    BY <1>3, <1>4, <1>5, StoreInvariant, PTL DEF Spec

-----------------------------------------------------------------------------
(* The article files, with one writer. *)

\* Every version that m lists has its two files among j and d, and m does not have
\* too many entries.
Sound(m, j, d) ==
    /\ \A kb \in KbIds : \A v \in Versions(m, kb) :
        /\ <<kb, v>> \in Paths
        /\ j[<<kb, v>>] = m[kb][v].cand
        /\ d[<<kb, v>>] = m[kb][v].cand
    /\ Cardinality(Entries(m)) <= MaxEntries

\* An entry is a KB id with a version.
LEMMA EntriesAre ==
    ASSUME NEW m \in Manifest
    PROVE  Entries(m) = {k \in KbIds : Versions(m, k) # {}}
  <1>1. ASSUME NEW k \in KbIds PROVE m[k] # << >> <=> Versions(m, k) # {}
    <2>1. m[k] \in Seq(VersionRecord)
      BY DEF Manifest
    <2>2. DOMAIN m[k] = 1..Len(m[k]) /\ Len(m[k]) \in Nat
      BY <2>1, LenProperties
    <2>3. m[k] = << >> <=> Len(m[k]) = 0
      BY <2>1, EmptySeq
    <2> QED
      BY <2>2, <2>3 DEF Versions
  <1> QED
    BY <1>1 DEF Entries

\* The empty manifest lists nothing.
LEMMA EmptySound ==
    ASSUME NEW j, NEW d PROVE Sound(EmptyManifest, j, d)
  <1>1. \A kb \in KbIds : Versions(EmptyManifest, kb) = {}
    BY DEF EmptyManifest, Versions
  <1>2. Entries(EmptyManifest) = {}
    BY DEF EmptyManifest, Entries
  <1>3. Cardinality(Entries(EmptyManifest)) <= MaxEntries
    BY <1>2, FS_EmptySet, KbAssumption
  <1> QED
    BY <1>1, <1>3 DEF Sound

\* What is on disk can be loaded.
LEMMA SoundLoads ==
    ASSUME NEW m \in Manifest, NEW j, NEW d, Sound(m, j, d)
    PROVE  Loadable(m)
  <1>1. ASSUME NEW k \in KbIds PROVE Len(m[k]) <= MAX_VERSION
    <2>1. m[k] \in Seq(VersionRecord)
      BY DEF Manifest
    <2>2. DOMAIN m[k] = 1..Len(m[k]) /\ Len(m[k]) \in Nat
      BY <2>1, LenProperties
    <2>3. CASE Len(m[k]) = 0
      BY <2>3 DEF MAX_VERSION
    <2>4. CASE Len(m[k]) # 0
      <3>1. Len(m[k]) \in Versions(m, k)
        BY <2>2, <2>4 DEF Versions
      <3>2. Len(m[k]) \in 1..VersionBound
        BY <3>1 DEF Sound, Paths
      <3>3. VersionBound \in 0..MAX_VERSION
        BY KbAssumption
      <3>4. VersionBound \in Int /\ VersionBound <= MAX_VERSION /\ MAX_VERSION \in Int
        BY <3>3 DEF MAX_VERSION
      <3> QED
        BY <2>2, <3>2, <3>4
    <2> QED
      BY <2>3, <2>4
  <1> QED
    BY <1>1 DEF Loadable, Sound

\* What the writer knows of the files it is about to write: what it tested is
\* still true, and what it wrote is still there.
Writing(p) ==
    /\ pc[p] = "put_json" => json[Target(p)] = None
    /\ pc[p] \in {"check_md", "put_md"} => json[Target(p)] = cand[p]
    /\ pc[p] = "put_md" => md[Target(p)] = None

FilesInv ==
    /\ Sound(manifest, json, md)
    /\ \A p \in Procs : Sound(mem[p], json, md)
    /\ \A p \in Writers : Writing(p)
    /\ NoIntegrityError

\* No file of s is different in t.
Kept(s, t) == \A f \in Paths : s[f] # None => t[f] = s[f]

\* Files that are kept are still the files of what listed them.
LEMMA SoundKept ==
    ASSUME NEW m \in Manifest, NEW j, NEW d, NEW jj, NEW dd,
           Sound(m, j, d), Kept(j, jj), Kept(d, dd)
    PROVE  Sound(m, jj, dd)
  <1>1. \A kb \in KbIds : \A v \in Versions(m, kb) : m[kb][v].cand # None
    BY ListedRecord, KbAssumption
  <1> QED
    BY <1>1 DEF Sound, Kept

\* A file that was not there is added.
LEMMA NewFileKept ==
    ASSUME NEW s \in [Paths -> Candidates \cup {None}], NEW f \in Paths, s[f] = None, NEW x
    PROVE  Kept(s, [s EXCEPT ![f] = x]) /\ [s EXCEPT ![f] = x][f] = x
  BY DEF Kept

\* A transition lists the same articles.
LEMMA TransitionSound ==
    ASSUME NEW m, ManifestInv(m), NEW kb \in KbIds, NEW v \in Versions(m, kb),
           NEW to \in KbState, NEW n, NEW j, NEW d, Sound(m, j, d),
           \/ CanMove(m, kb, v, to) /\ n = MoveTo(m, kb, v, to)
           \/ \E a \in Authorizations(m) : CanDecide(m, kb, v, to, a) /\ n = DecideTo(m, kb, v, to, a)
    PROVE  Sound(n, j, d)
  <1>1. m \in Manifest
    BY DEF ManifestInv
  <1>2. ASSUME NEW id \in AuthIds \cup {None}, NEW rev \in Reviewers \cup {None},
               NEW at \in Stamps \cup {None}, n = TransitionTo(m, kb, v, to, id, rev, at)
        PROVE  Sound(n, j, d)
    <2>1. Rewritten(m, n, kb, v, to, id, rev, at)
      BY <1>1, <1>2, TransitionShape
    <2>2. Restated(m, n, kb, v, to)
      BY <2>1, TransitionStates
    <2>3. \A k \in KbIds : Versions(n, k) = Versions(m, k)
      BY <2>2 DEF Restated
    <2>4. \A k \in KbIds : \A w \in Versions(m, k) : n[k][w].cand = m[k][w].cand
      BY <2>2 DEF Restated
    <2>5. ASSUME NEW k \in KbIds, NEW w \in Versions(n, k)
          PROVE  <<k, w>> \in Paths /\ j[<<k, w>>] = n[k][w].cand /\ d[<<k, w>>] = n[k][w].cand
      <3>1. w \in Versions(m, k) /\ n[k][w].cand = m[k][w].cand
        BY <2>3, <2>4
      <3> QED
        BY <3>1 DEF Sound
    <2>6. Entries(n) = Entries(m)
      BY <1>1, <2>1, <2>3, EntriesAre DEF Rewritten
    <2> QED
      BY <2>5, <2>6 DEF Sound
  <1>3. CASE n = MoveTo(m, kb, v, to)
    BY <1>2, <1>3 DEF MoveTo
  <1>4. ASSUME NEW a \in Authorizations(m), n = DecideTo(m, kb, v, to, a)
        PROVE  Sound(n, j, d)
    BY <1>2, <1>4, AuthorizationType DEF DecideTo
  <1> QED
    BY <1>3, <1>4

\* An addition lists the article whose files were written.
LEMMA AddSound ==
    ASSUME NEW m \in Manifest, NEW c \in Candidates, NEW f, f = <<c.kb, Len(m[c.kb]) + 1>>,
           f \in Paths, NEW j, NEW d, Sound(m, j, d), j[f] = c, d[f] = c, Fits(m, c)
    PROVE  Sound(AddTo(m, c), j, d)
  <1> DEFINE n == AddTo(m, c)
  <1>1. Enlarged(m, n, c)
    BY AddShape
  <1>2. NewVersion(c).cand = c
    BY DEF NewVersion
  <1> HIDE DEF n
  <1>e. Cardinality(Entries(n)) <= MaxEntries
    <2>1. c.kb \in KbIds
      BY KbAssumption DEF CandidateRecord
    <2>2. Len(m[c.kb]) + 1 \in Versions(n, c.kb)
      BY <1>1 DEF Enlarged
    <2>3. \A k \in KbIds : k # c.kb => Versions(n, k) = Versions(m, k)
      BY <1>1 DEF Enlarged, Versions
    <2>4. n \in Manifest
      BY <1>1 DEF Enlarged
    <2>5. Entries(n) = {k \in KbIds : Versions(n, k) # {}}
      BY <2>4, EntriesAre
    <2>6. Entries(m) = {k \in KbIds : Versions(m, k) # {}}
      BY EntriesAre
    <2>7. Entries(n) = Entries(m) \cup {c.kb}
      BY <2>1, <2>2, <2>3, <2>5, <2>6
    <2> QED
      BY <2>7 DEF Fits
  <1> SUFFICES ASSUME NEW kb \in KbIds, NEW v \in Versions(n, kb)
               PROVE  /\ <<kb, v>> \in Paths
                      /\ j[<<kb, v>>] = n[kb][v].cand /\ d[<<kb, v>>] = n[kb][v].cand
    BY <1>e DEF Sound, n
  <1>3. CASE kb # c.kb
    <2>1. n[kb] = m[kb] /\ v \in Versions(m, kb)
      BY <1>1, <1>3 DEF Enlarged, Versions
    <2> QED
      BY <2>1 DEF Sound
  <1>4. CASE kb = c.kb /\ v \in Versions(m, kb)
    <2>1. n[kb][v] = m[kb][v]
      BY <1>1, <1>4 DEF Enlarged
    <2> QED
      BY <1>4, <2>1 DEF Sound
  <1>5. CASE kb = c.kb /\ v \notin Versions(m, kb)
    <2>1. v = Len(m[c.kb]) + 1
      BY <1>1, <1>5 DEF Enlarged
    <2>2. n[kb][v].cand = c /\ <<kb, v>> = f
      BY <1>1, <1>2, <1>5, <2>1 DEF Enlarged
    <2> QED
      BY <2>2
  <1> QED
    BY <1>3, <1>4, <1>5

\* The version being added is within the bound of the model.
LEMMA TargetPath ==
    ASSUME NEW p \in Procs, StoreInv, pc[p] \in Adding
    PROVE  /\ cand[p] \in Candidates /\ mem[p] \in Manifest
           /\ Target(p) \in Paths
  <1>1. /\ cand[p] \in Candidates /\ mem[p] \in Manifest
        /\ Len(mem[p][cand[p].kb]) < VersionBound
    BY DEF StoreInv, AddReviewed, TypeOK
  <1>2. cand[p].kb \in KbIds
    BY <1>1, KbAssumption DEF CandidateRecord
  <1>3. Len(mem[p][cand[p].kb]) \in Nat
    <2>1. mem[p][cand[p].kb] \in Seq(VersionRecord)
      BY <1>1, <1>2 DEF Manifest
    <2> QED
      BY <2>1, LenProperties
  <1>4. Len(mem[p][cand[p].kb]) + 1 \in 1..VersionBound
    BY <1>1, <1>3, KbAssumption
  <1> QED
    BY <1>1, <1>2, <1>4 DEF Target, Paths

(***************************************************************************)
(* With one writer the test for an existing file and the rename that       *)
(* follows it see the same file, so that no file is written twice.         *)
(***************************************************************************)
LEMMA StepKeepsFiles ==
    ASSUME SingleWriter, StoreInv, FilesInv, [Next]_vars
    PROVE  Kept(json, json') /\ Kept(md, md')
  <1>1. CASE UNCHANGED <<json, md>>
    BY <1>1 DEF Kept
  <1>2. ASSUME NEW p \in Writers, PutJson(p)
        PROVE  Kept(json, json') /\ Kept(md, md')
    <2>1. p \in Procs /\ Target(p) \in Paths
      BY <1>2, TargetPath DEF Procs, PutJson, Adding
    <2>2. json[Target(p)] = None
      BY <1>2 DEF FilesInv, Writing, PutJson
    <2>3. json \in [Paths -> Candidates \cup {None}]
      BY DEF StoreInv, TypeOK
    <2>4. json' = [json EXCEPT ![Target(p)] = cand[p]] /\ md' = md
      BY <1>2 DEF PutJson
    <2> QED
      BY <2>1, <2>2, <2>3, <2>4, NewFileKept DEF Kept
  <1>3. ASSUME NEW p \in Writers, PutMd(p)
        PROVE  Kept(json, json') /\ Kept(md, md')
    <2>1. p \in Procs /\ Target(p) \in Paths
      BY <1>3, TargetPath DEF Procs, PutMd, Adding
    <2>2. md[Target(p)] = None
      BY <1>3 DEF FilesInv, Writing, PutMd
    <2>3. md \in [Paths -> Candidates \cup {None}]
      BY DEF StoreInv, TypeOK
    <2>4. md' = [md EXCEPT ![Target(p)] = cand[p]] /\ json' = json
      BY <1>3 DEF PutMd
    <2> QED
      BY <2>1, <2>2, <2>3, <2>4, NewFileKept DEF Kept
  <1>4. ASSUME NEW p \in Writers, WriterStep(p)
        PROVE  PutJson(p) \/ PutMd(p) \/ UNCHANGED <<json, md>>
    BY <1>4 DEF WriterStep, Load, AddReview, AddRefused, CheckJson, CheckMd, CheckFile, Transition,
                TransitionBroken, Save, Stop, disk
  <1>5. ASSUME NEW p \in Readers, ReaderStep(p)
        PROVE  UNCHANGED <<json, md>>
    BY <1>5 DEF ReaderStep, Load, Search, Stop, disk
  <1>6. CASE UNCHANGED vars
    BY <1>1, <1>6 DEF vars
  <1> QED
    BY <1>1, <1>2, <1>3, <1>4, <1>5, <1>6 DEF Next

\* The files are there for every manifest on disk and in memory.
THEOREM FilesInvariant == ASSUME SingleWriter PROVE Spec => []FilesInv
  <1>1. Init => FilesInv
    <2> SUFFICES ASSUME Init PROVE FilesInv
      OBVIOUS
    <2>1. Sound(EmptyManifest, json, md)
      BY EmptySound
    <2> QED
      BY <2>1 DEF Init, FilesInv, Writing, NoIntegrityError, Procs
  <1>2. StoreInv /\ FilesInv /\ [Next]_vars => FilesInv'
    <2> SUFFICES ASSUME StoreInv, FilesInv, [Next]_vars PROVE FilesInv'
      OBVIOUS
    <2>t. TypeOK /\ manifest \in Manifest /\ \A p \in Procs : mem[p] \in Manifest
      BY DEF StoreInv, TypeOK
    <2>k. Kept(json, json') /\ Kept(md, md')
      BY StepKeepsFiles
    <2>f. /\ Sound(manifest, json', md')
          /\ \A p \in Procs : Sound(mem[p], json', md')
          /\ Sound(EmptyManifest, json', md')
      <3>1. Sound(manifest, json', md')
        BY <2>t, <2>k, SoundKept DEF FilesInv
      <3>2. ASSUME NEW p \in Procs PROVE Sound(mem[p], json', md')
        BY <2>t, <2>k, SoundKept DEF FilesInv
      <3>3. Sound(EmptyManifest, json', md')
        BY EmptySound
      <3> QED
        BY <3>1, <3>2, <3>3
    \* The command of p ends.
    <2>x. ASSUME NEW p \in Procs, Exit(p) \/ IntegrityError(p, "new entry"),
                 manifest' \in {manifest, mem[p]}, UNCHANGED <<json, md>>
          PROVE  FilesInv'
      <3>1. \A q \in Procs : Sound(mem'[q], json', md')
        BY <2>t, <2>f, <2>x DEF Exit, IntegrityError, End, TypeOK
      <3>2. Sound(manifest', json', md')
        BY <2>f, <2>x
      <3>3. ASSUME NEW q \in Writers PROVE Writing(q)'
        <4>1. CASE q = p
          BY <2>t, <2>x, <4>1 DEF Exit, IntegrityError, End, TypeOK, Writing
        <4>2. CASE q # p
          <5>1. q \in Procs /\ Writing(q)
            BY DEF Procs, FilesInv
          <5>2. pc'[q] = pc[q] /\ mem'[q] = mem[q] /\ cand'[q] = cand[q]
            BY <2>t, <2>x, <4>2, <5>1 DEF Exit, IntegrityError, End, TypeOK
          <5> QED
            BY <2>x, <5>1, <5>2 DEF Writing, Target
        <4> QED
          BY <4>1, <4>2
      <3>4. NoIntegrityError'
        BY <2>x DEF Exit, IntegrityError, NoIntegrityError, FilesInv
      <3> QED
        BY <3>1, <3>2, <3>3, <3>4 DEF FilesInv
    \* The command of p goes on, with what it had in memory or n.
    <2>g. ASSUME NEW p \in Procs, NEW step, Goto(p, step), manifest' = manifest,
                 NEW n, Sound(n, json', md'), mem' = [mem EXCEPT ![p] = n],
                 p \in Writers => Writing(p)', UNCHANGED <<json, md>> \/ p \in Writers,
                 \A q \in Procs \ {p} : cand'[q] = cand[q]
          PROVE  FilesInv'
      <3>1. \A q \in Procs : Sound(mem'[q], json', md')
        BY <2>t, <2>f, <2>g DEF TypeOK
      <3>2. Sound(manifest', json', md')
        BY <2>f, <2>g
      <3>3. ASSUME NEW q \in Writers PROVE Writing(q)'
        <4>1. CASE q = p
          BY <2>g, <4>1
        <4>2. CASE q # p
          <5>1. q \in Procs /\ Writing(q) /\ UNCHANGED <<json, md>>
            BY <2>g, <4>2 DEF Procs, FilesInv, SingleWriter
          <5>2. pc'[q] = pc[q] /\ mem'[q] = mem[q] /\ cand'[q] = cand[q]
            BY <2>t, <2>g, <4>2, <5>1 DEF Goto, TypeOK
          <5> QED
            BY <5>1, <5>2 DEF Writing, Target
        <4> QED
          BY <4>1, <4>2
      <3>4. NoIntegrityError'
        BY <2>g DEF Goto, NoIntegrityError, FilesInv
      <3> QED
        BY <3>1, <3>2, <3>3, <3>4 DEF FilesInv
    <2>s. ASSUME NEW p \in Procs PROVE mem = [mem EXCEPT ![p] = mem[p]]
      BY <2>t DEF TypeOK
    <2>1. ASSUME NEW p \in Procs, Load(p) PROVE FilesInv'
      <3>1. Loadable(manifest)
        BY <2>t, SoundLoads DEF FilesInv
      <3>2. /\ Goto(p, "loaded") /\ mem' = [mem EXCEPT ![p] = manifest] /\ cand' = cand
            /\ UNCHANGED disk
        BY <2>1, <3>1 DEF Load
      <3>3. Writing(p)'
        BY <2>t, <3>2 DEF Goto, Writing, TypeOK
      <3> QED
        BY <2>f, <2>g, <3>2, <3>3 DEF disk
    <2>2. ASSUME NEW p \in Procs, NEW c, AddReview(p, c) PROVE FilesInv'
      <3>1. Writing(p)'
        BY <2>t, <2>2 DEF AddReview, Goto, Writing, TypeOK
      <3>2. \A q \in Procs \ {p} : cand'[q] = cand[q]
        BY <2>t, <2>2 DEF AddReview, TypeOK
      <3>3. mem' = [mem EXCEPT ![p] = mem[p]] /\ Sound(mem[p], json', md')
        BY <2>f, <2>s, <2>2 DEF AddReview
      <3> QED
        BY <2>g, <2>2, <3>1, <3>2, <3>3 DEF AddReview, disk
    <2>3. ASSUME NEW p \in Writers, CheckJson(p) PROVE FilesInv'
      <3>1. p \in Procs
        BY DEF Procs
      <3>2. CASE json[Target(p)] = None /\ Goto(p, "put_json") /\ UNCHANGED <<mem, cand>>
        <4>1. UNCHANGED disk
          BY <2>3 DEF CheckJson, CheckFile
        <4>2. Writing(p)'
          BY <2>t, <3>1, <3>2, <4>1 DEF Goto, Writing, Target, TypeOK, disk
        <4>3. mem' = [mem EXCEPT ![p] = mem[p]] /\ Sound(mem[p], json', md')
          BY <2>f, <2>s, <3>1, <3>2
        <4> QED
          BY <2>g, <3>1, <3>2, <4>1, <4>2, <4>3 DEF disk
      <3>3. CASE Exit(p)
        BY <2>x, <2>3, <3>1, <3>3 DEF CheckJson, CheckFile, disk
      <3> QED
        BY <2>3, <3>2, <3>3 DEF CheckJson, CheckFile
    <2>4. ASSUME NEW p \in Writers, PutJson(p) PROVE FilesInv'
      <3>1. p \in Procs /\ Target(p) \in Paths
        BY <2>4, TargetPath DEF Procs, PutJson, Adding
      <3>2. json'[Target(p)] = cand[p] /\ pc'[p] = "check_md" /\ UNCHANGED <<mem, cand>>
        BY <2>t, <2>4, <3>1 DEF PutJson, Goto, TypeOK
      <3>3. Writing(p)'
        BY <3>2 DEF Writing, Target
      <3>4. mem' = [mem EXCEPT ![p] = mem[p]] /\ Sound(mem[p], json', md')
        BY <2>f, <2>s, <3>1, <3>2
      <3> QED
        BY <2>g, <2>4, <3>1, <3>2, <3>3, <3>4 DEF PutJson
    <2>5. ASSUME NEW p \in Writers, CheckMd(p) PROVE FilesInv'
      <3>1. p \in Procs /\ Writing(p)
        BY DEF Procs, FilesInv
      <3>2. CASE md[Target(p)] = None /\ Goto(p, "put_md") /\ UNCHANGED <<mem, cand>>
        <4>1. UNCHANGED disk /\ pc[p] = "check_md"
          BY <2>5 DEF CheckMd, CheckFile
        <4>2. Writing(p)'
          BY <2>t, <3>1, <3>2, <4>1 DEF Goto, Writing, Target, TypeOK, disk
        <4>3. mem' = [mem EXCEPT ![p] = mem[p]] /\ Sound(mem[p], json', md')
          BY <2>f, <2>s, <3>1, <3>2
        <4> QED
          BY <2>g, <3>1, <3>2, <4>1, <4>2, <4>3 DEF disk
      <3>3. CASE Exit(p)
        BY <2>x, <2>5, <3>1, <3>3 DEF CheckMd, CheckFile, disk
      <3> QED
        BY <2>5, <3>2, <3>3 DEF CheckMd, CheckFile
    <2>6. ASSUME NEW p \in Writers, PutMd(p) PROVE FilesInv'
      <3>1. p \in Procs /\ Target(p) \in Paths /\ cand[p] \in Candidates /\ mem[p] \in Manifest
        BY <2>6, TargetPath DEF Procs, PutMd, Adding
      <3>2. /\ md'[Target(p)] = cand[p] /\ pc'[p] = "save" /\ cand' = cand /\ json' = json
            /\ mem' = [mem EXCEPT ![p] = AddTo(mem[p], cand[p])]
        BY <2>t, <2>6, <3>1 DEF PutMd, Goto, TypeOK
      <3>3. json[Target(p)] = cand[p]
        BY <2>6 DEF FilesInv, Writing, PutMd
      <3>f. Fits(mem[p], cand[p])
        BY <2>6, <3>1 DEF StoreInv, AddReviewed, PutMd, Adding, CanAdd
      <3>4. Sound(AddTo(mem[p], cand[p]), json', md')
        BY <2>f, <3>f, <3>1, <3>2, <3>3, AddSound DEF Target
      <3>5. Writing(p)'
        BY <3>2 DEF Writing
      <3> QED
        BY <2>g, <2>6, <3>1, <3>2, <3>4, <3>5 DEF PutMd
    <2>7. ASSUME NEW p \in Procs, NEW kb \in KbIds, NEW v \in Versions(mem[p], kb),
                 NEW to \in KbState, Transition(p, kb, v, to)
          PROVE  FilesInv'
      <3>1. PICK n : /\ mem' = [mem EXCEPT ![p] = n]
                     /\ \/ CanMove(mem[p], kb, v, to) /\ n = MoveTo(mem[p], kb, v, to)
                        \/ \E a \in Authorizations(mem[p]) :
                            CanDecide(mem[p], kb, v, to, a) /\ n = DecideTo(mem[p], kb, v, to, a)
        BY <2>7 DEF Transition
      <3>2. Sound(n, json', md')
        BY <2>f, <3>1, TransitionSound DEF StoreInv
      <3>3. Writing(p)'
        BY <2>t, <2>7 DEF Transition, Goto, Writing, TypeOK
      <3> QED
        BY <2>g, <2>7, <3>1, <3>2, <3>3 DEF Transition, disk
    <2>8. ASSUME NEW p \in Procs, NEW kb \in KbIds, NEW v \in Versions(mem[p], kb),
                 TransitionBroken(p, kb, v)
          PROVE  FilesInv'
      <3>1. Intact(mem[p], kb, v)
        BY DEF FilesInv, Sound, Intact
      <3> QED
        BY <2>8, <3>1 DEF TransitionBroken
    <2>r. ASSUME NEW p \in Procs, NEW c, AddRefused(p, c) PROVE FilesInv'
      BY <2>x, <2>r DEF AddRefused, disk
    <2>9. ASSUME NEW p \in Procs, Save(p) \/ Stop(p) PROVE FilesInv'
      BY <2>x, <2>9 DEF Save, Stop, disk
    <2>10. ASSUME NEW p \in Procs, NEW states, Search(p, states) PROVE FilesInv'
      <3>1. \A f \in Paths : f[1] \in KbIds /\ f[2] \in Versions(mem[p], f[1])
                => Intact(mem[p], f[1], f[2])
        BY DEF FilesInv, Sound, Intact
      <3>2. \A f \in Paths : f[1] \in KbIds
        BY DEF Paths
      <3>3. Exit(p)
        BY <2>10, <3>1, <3>2 DEF Search
      <3> QED
        BY <2>x, <2>10, <3>3 DEF Search, disk
    <2>11. CASE UNCHANGED vars
      BY <2>11 DEF vars, FilesInv, Writing, Target, NoIntegrityError
    <2>12. ASSUME NEW p \in Writers, WriterStep(p) PROVE FilesInv'
      <3>1. p \in Procs
        BY DEF Procs
      <3> QED
        BY <2>1, <2>2, <2>3, <2>4, <2>5, <2>6, <2>7, <2>8, <2>9, <2>12, <2>r, <3>1 DEF WriterStep
    <2>13. ASSUME NEW p \in Readers, ReaderStep(p) PROVE FilesInv'
      <3>1. p \in Procs
        BY DEF Procs
      <3> QED
        BY <2>1, <2>9, <2>10, <2>13, <3>1 DEF ReaderStep
    <2> QED
      BY <2>11, <2>12, <2>13 DEF Next
  <1> QED
    BY <1>1, <1>2, StoreInvariant, PTL DEF Spec

(***************************************************************************)
(* With one writer, every version that manifest.json lists has its two     *)
(* files, wherever a command was interrupted.                              *)
(***************************************************************************)
THEOREM StoreListedHaveFiles == ASSUME SingleWriter PROVE Spec => []ListedHaveFiles
  <1>1. FilesInv => ListedHaveFiles
    BY DEF FilesInv, Sound, ListedHaveFiles
  <1> QED
    BY <1>1, FilesInvariant, PTL

(***************************************************************************)
(* With one writer, a command ends in E_KB_INTEGRITY only where kb-add is  *)
(* refused a new entry in a full knowledge base: every manifest can be     *)
(* loaded, and every article is found intact, however old the manifest the *)
(* command read (load_manifest, load_article, add_candidate).              *)
(***************************************************************************)
THEOREM StoreNoIntegrityError == ASSUME SingleWriter PROVE Spec => []NoIntegrityError
  <1>1. FilesInv => NoIntegrityError
    BY DEF FilesInv
  <1> QED
    BY <1>1, FilesInvariant, PTL

(***************************************************************************)
(* With one writer, no step changes an article file that exists.           *)
(***************************************************************************)
THEOREM StoreWrittenOnce == ASSUME SingleWriter PROVE Spec => WrittenOnce
  <1> DEFINE Once == \A f \in Paths : /\ json[f] # None => json'[f] = json[f]
                                      /\ md[f] # None => md'[f] = md[f]
  <1>1. StoreInv /\ FilesInv /\ [Next]_vars => [Once]_vars
    BY StepKeepsFiles DEF Kept
  <1>2. Spec => [][Once]_vars
    <2> HIDE DEF Once
    <2> QED
      BY <1>1, StoreInvariant, FilesInvariant, PTL DEF Spec
  <1> QED
    BY <1>2 DEF WrittenOnce

\* A command is a step of the atomic life cycle.
LEMMA CommandIsStep ==
    ASSUME Command(manifest, manifest')
    PROVE  LifecycleNext
  BY DEF Command, LifecycleNext, AddCandidate, Move, Decide

(***************************************************************************)
(* With one writer, crashes and readers included, the store implements the *)
(* atomic life cycle.                                                      *)
(***************************************************************************)
THEOREM StoreImplementsLifecycle == ASSUME SingleWriter PROVE Spec => ImplementsLifecycle
  <1>1. Init => LifecycleInit
    BY DEF Init, LifecycleInit
  <1>2. WriterInv /\ [Next]_vars => [LifecycleNext]_manifest
    <2> SUFFICES ASSUME WriterInv, [Next]_vars, manifest' # manifest
                 PROVE  LifecycleNext
      OBVIOUS
    <2>1. PICK p \in Writers : Save(p)
      BY DEF Next, WriterStep, ReaderStep, Load, AddReview, AddRefused, CheckJson, CheckMd,
             CheckFile, PutJson, PutMd, Transition, TransitionBroken, Search, Stop, vars, disk
    <2>2. Command(manifest, mem[p])
      BY <2>1 DEF WriterInv, UpToDate, Save
    <2> QED
      BY <2>1, <2>2, CommandIsStep DEF Save
  <1> QED
    BY <1>1, <1>2, WriterInvariant, PTL DEF Spec, ImplementsLifecycle, LifecycleSpec

(***************************************************************************)
(* So it keeps, wherever a command is interrupted, what the life cycle     *)
(* promises: the current article of an entry changes only by a human       *)
(* decision under an authorization not used before on it, and one that was *)
(* withdrawn never comes back (store.transition, _save_manifest).          *)
(***************************************************************************)
THEOREM StoreKeepsGuidancePromise == ASSUME SingleWriter PROVE Spec => KeepsGuidancePromise
  BY StoreImplementsLifecycle, LifecycleKeepsGuidancePromise, PTL DEF ImplementsLifecycle

(***************************************************************************)
(* And no command of the store, finished or killed, edits the history of a *)
(* version or drops it (store._save_manifest).                             *)
(***************************************************************************)
THEOREM StoreAppendOnly == ASSUME SingleWriter PROVE Spec => AppendOnly
  BY StoreImplementsLifecycle, LifecycleAppendOnly, PTL DEF ImplementsLifecycle
=============================================================================
