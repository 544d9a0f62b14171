----------------------------- MODULE KbManifest -----------------------------
(***************************************************************************)
(* The manifest of the local knowledge base and the commands on it, as     *)
(* operators on a manifest value: what kb_store.add_candidate and          *)
(* kb_store.transition decide, and what they write.  KbLifecycle runs the  *)
(* commands atomically, KbStore runs them file by file.                    *)
(*                                                                         *)
(* A manifest maps a KB id to the sequence of its versions (position N is  *)
(* version N: add_candidate always takes max + 1).  A candidate stands for *)
(* the sanitized artifact that build_kb_candidate extracted; its fields    *)
(* are what the life cycle tells apart.                                    *)
(***************************************************************************)
EXTENDS Naturals, Sequences, FiniteSets

CONSTANTS
    KbIds,         \* KB ids: the hash of the deduplication key of an article
    Candidates,    \* the candidates that may be added (see CandidateRecord)
    Recs,          \* recommendation digests: cause and recommendations
    Reviewers,     \* REV ids of proposers and reviewers
    AuthIds,       \* AUTH ids of external authorization records
    Stamps,        \* decision_at_utc texts
    TextRank,      \* rank of a stamp in the order of its text
    Instant,       \* the instant the stamp denotes
    MaxEntries,    \* MAX_ENTRIES
    None,          \* a missing value
    VersionBound,  \* bound of the model: versions per KB id
    HistoryBound   \* bound of the model: events a version's history may reach

\* The last version number that _VERSION of kb_store.py matches.
MAX_VERSION == 9999

CandidateRecord ==
    [kb: KbIds, rec: Recs, supersedes: KbIds \cup {None},
     proposers: SUBSET Reviewers,
     confirmed: BOOLEAN,     \* the RCA is CONFIRMED
     complete: BOOLEAN,       \* it has recommendations and supporting evidence
     flagged: BOOLEAN]       \* another reason to hold it back at extraction

ASSUME KbAssumption ==
    /\ Candidates \subseteq CandidateRecord
    /\ TextRank \in [Stamps -> Nat]
    /\ Instant \in [Stamps -> Nat]
    /\ MaxEntries \in Nat
    /\ VersionBound \in 0..MAX_VERSION
    /\ HistoryBound \in Nat
    /\ None \notin KbIds \cup AuthIds \cup Reviewers \cup Stamps \cup Candidates

-----------------------------------------------------------------------------
(* common.KbState, KB_TRANSITIONS and the sets of states the store names.  *)

KbState == {"CANDIDATE", "DRAFT", "PENDING_HUMAN_REVIEW", "APPROVED_BY_HUMAN",
            "PUBLISHED", "REJECTED", "REVIEW_DUE", "DEPRECATED", "RETIRED",
            "SUPERSEDED"}

CURRENT_GUIDANCE == {"PUBLISHED", "REVIEW_DUE"}

\* The pairs (from, to) of KB_TRANSITIONS.
KB_TRANSITIONS ==
    {<<"CANDIDATE", "DRAFT">>, <<"CANDIDATE", "REJECTED">>,
     <<"DRAFT", "PENDING_HUMAN_REVIEW">>, <<"DRAFT", "REJECTED">>,
     <<"PENDING_HUMAN_REVIEW", "APPROVED_BY_HUMAN">>,
     <<"PENDING_HUMAN_REVIEW", "REJECTED">>, <<"PENDING_HUMAN_REVIEW", "DRAFT">>,
     <<"APPROVED_BY_HUMAN", "PUBLISHED">>, <<"APPROVED_BY_HUMAN", "REJECTED">>,
     <<"PUBLISHED", "REVIEW_DUE">>, <<"PUBLISHED", "DEPRECATED">>,
     <<"PUBLISHED", "SUPERSEDED">>,
     <<"REVIEW_DUE", "PUBLISHED">>, <<"REVIEW_DUE", "DEPRECATED">>,
     <<"REVIEW_DUE", "SUPERSEDED">>,
     <<"DEPRECATED", "RETIRED">>, <<"SUPERSEDED", "RETIRED">>}

\* Fault: the table forgets that a deprecation is a human decision.
DeprecationUnsigned ==
    {<<"PENDING_HUMAN_REVIEW", "APPROVED_BY_HUMAN">>,
     <<"APPROVED_BY_HUMAN", "PUBLISHED">>, <<"REVIEW_DUE", "PUBLISHED">>,
     <<"PUBLISHED", "SUPERSEDED">>, <<"REVIEW_DUE", "SUPERSEDED">>,
     <<"DEPRECATED", "RETIRED">>, <<"SUPERSEDED", "RETIRED">>}

HUMAN_DECISION_TRANSITIONS ==
    {<<"PENDING_HUMAN_REVIEW", "APPROVED_BY_HUMAN">>,
     <<"APPROVED_BY_HUMAN", "PUBLISHED">>, <<"REVIEW_DUE", "PUBLISHED">>,
     <<"PUBLISHED", "DEPRECATED">>, <<"REVIEW_DUE", "DEPRECATED">>,
     <<"PUBLISHED", "SUPERSEDED">>, <<"REVIEW_DUE", "SUPERSEDED">>,
     <<"DEPRECATED", "RETIRED">>, <<"SUPERSEDED", "RETIRED">>}

GATED == {"PENDING_HUMAN_REVIEW", "APPROVED_BY_HUMAN", "PUBLISHED"}

OPEN_STATES == {"CANDIDATE", "DRAFT", "PENDING_HUMAN_REVIEW",
                "APPROVED_BY_HUMAN", "PUBLISHED", "REVIEW_DUE"}

-----------------------------------------------------------------------------
(* The records of the manifest.                                            *)

Event == [from: KbState \cup {None}, to: KbState, auth: AuthIds \cup {None},
          rev: Reviewers \cup {None}, at: Stamps \cup {None}]

NewEvent(from, to, id, rev, at) ==
    [from |-> from, to |-> to, auth |-> id, rev |-> rev, at |-> at]

\* cand is the article; with the version number it determines the digest.
VersionRecord == [state: KbState, cand: Candidates, supBy: Nat,
                  hist: Seq(Event)]

Manifest == [KbIds -> Seq(VersionRecord)]

EmptyManifest == [k \in KbIds |-> << >>]

Versions(m, kb) == DOMAIN m[kb]

\* content_digest covers the article and its version, not its life cycle.
Digest(m, kb, v) == <<m[kb][v].cand, v>>

Authorization ==
    [id: AuthIds, kb: KbIds, version: Nat, digest: Candidates \X Nat,
     decision: {"APPROVED", "REJECTED"}, rev: Reviewers, at: Stamps]

\* The records a reviewer can have written: each names an artifact that exists.
Authorizations(m) ==
    UNION {UNION {[id: AuthIds, kb: {k}, version: {v}, digest: {Digest(m, k, v)},
                   decision: {"APPROVED", "REJECTED"}, rev: Reviewers, at: Stamps] :
                     v \in Versions(m, k)} : k \in KbIds}

-----------------------------------------------------------------------------
(* knowledge.build_kb_candidate, quality_gate and review_duplicates.       *)

LifecycleState(c) ==
    IF ~c.confirmed THEN "REJECTED"
    ELSE IF c.complete /\ ~c.flagged THEN "CANDIDATE" ELSE "DRAFT"

\* Re-evaluated on the stored article: the text flag is not part of it.
QualityGate(c) == c.confirmed /\ c.complete

\* The versions review_duplicates compares with: the same KB id is the same
\* family and scope, and rejected or retired versions are skipped.
Compared(m, kb) == {v \in Versions(m, kb) : m[kb][v].state \notin {"RETIRED", "REJECTED"}}

\* Fault: only current guidance is compared.
DuplicateOfCurrent(m, c) ==
    \E v \in Compared(m, c.kb) :
        m[c.kb][v].state \in CURRENT_GUIDANCE /\ m[c.kb][v].cand.rec = c.rec

Duplicate(m, c) == \E v \in Compared(m, c.kb) : m[c.kb][v].cand.rec = c.rec

-----------------------------------------------------------------------------
(* kb_store.add_candidate.                                                 *)

Entries(m) == {k \in KbIds : m[k] # << >>}

\* What load_manifest accepts.
Loadable(m) ==
    /\ Cardinality(Entries(m)) <= MaxEntries
    /\ \A k \in KbIds : Len(m[k]) <= MAX_VERSION

\* The checks before the entry is looked up or made.
Admissible(m, c) ==
    /\ LifecycleState(c) \in {"CANDIDATE", "DRAFT"}
    /\ Loadable(m)
    /\ ~Duplicate(m, c)
    /\ c.supersedes \in {None, c.kb}

\* With the entry of c there are not too many.
Fits(m, c) == Cardinality(Entries(m) \cup {c.kb}) <= MaxEntries

CanAdd(m, c) == Admissible(m, c) /\ Fits(m, c)

NewVersion(c) ==
    [state |-> LifecycleState(c), cand |-> c, supBy |-> 0,
     hist |-> <<NewEvent(None, LifecycleState(c), None, None, None)>>]

AddTo(m, c) == [m EXCEPT ![c.kb] = Append(@, NewVersion(c))]

-----------------------------------------------------------------------------
(* kb_store.transition.                                                    *)

OpenConflicts(m, kb, v) ==
    {w \in Versions(m, kb) \ {v} :
        /\ m[kb][w].state \in OPEN_STATES
        /\ m[kb][w].cand.rec # m[kb][v].cand.rec
        /\ m[kb][v].cand.supersedes # kb}

UsedAuths(m, kb) ==
    {a \in AuthIds : \E v \in Versions(m, kb) :
        \E i \in DOMAIN m[kb][v].hist : m[kb][v].hist[i].auth = a}

\* The stamps are compared as texts.
NotBefore(hist, t) ==
    \A i \in DOMAIN hist : hist[i].at # None => TextRank[hist[i].at] <= TextRank[t]

\* Fault: a proposer may review.
VerifySelfReview(a, kb, v, digest, proposers) ==
    /\ a.decision = "APPROVED"
    /\ a.kb = kb /\ a.digest = digest /\ a.version = v

VerifyAuthorization(a, kb, v, digest, proposers) ==
    /\ a.decision = "APPROVED"
    /\ a.kb = kb /\ a.digest = digest /\ a.version = v
    /\ a.rev \notin proposers

\* The checks every transition makes, the bound of the model last.
Allowed(m, kb, v, to) ==
    /\ Loadable(m)
    /\ v \in Versions(m, kb)
    /\ <<m[kb][v].state, to>> \in KB_TRANSITIONS
    /\ to \in GATED => QualityGate(m[kb][v].cand) /\ OpenConflicts(m, kb, v) = {}
    /\ Len(m[kb][v].hist) < HistoryBound

IsHumanDecision(m, kb, v, to) == <<m[kb][v].state, to>> \in HUMAN_DECISION_TRANSITIONS

CanMove(m, kb, v, to) == Allowed(m, kb, v, to) /\ ~IsHumanDecision(m, kb, v, to)

\* Fault: only the version's own history is searched for the authorization.
CanDecideOwnHistory(m, kb, v, to, a) ==
    /\ Allowed(m, kb, v, to)
    /\ IsHumanDecision(m, kb, v, to)
    /\ VerifyAuthorization(a, kb, v, Digest(m, kb, v), m[kb][v].cand.proposers)
    /\ \A i \in DOMAIN m[kb][v].hist : m[kb][v].hist[i].auth # a.id
    /\ NotBefore(m[kb][v].hist, a.at)

CanDecide(m, kb, v, to, a) ==
    /\ Allowed(m, kb, v, to)
    /\ IsHumanDecision(m, kb, v, to)
    /\ VerifyAuthorization(a, kb, v, Digest(m, kb, v), m[kb][v].cand.proposers)
    /\ a.id \notin UsedAuths(m, kb)
    /\ NotBefore(m[kb][v].hist, a.at)

\* Fault: the history starts again at every transition.
LogLast(r, e, by) ==
    [state |-> e.to, cand |-> r.cand, supBy |-> by, hist |-> <<e>>]

\* The record moves to the state the event ends in.
Log(r, e, by) ==
    [state |-> e.to, cand |-> r.cand, supBy |-> by, hist |-> Append(r.hist, e)]

\* Fault: a version that is due for review stays.
SupersedesPublished(m, kb, v, to, w) ==
    /\ to = "PUBLISHED" /\ m[kb][v].cand.supersedes = kb
    /\ w # v /\ m[kb][w].state = "PUBLISHED"

\* Publishing v withdraws w.
Supersedes(m, kb, v, to, w) ==
    /\ to = "PUBLISHED" /\ m[kb][v].cand.supersedes = kb
    /\ w # v /\ m[kb][w].state \in CURRENT_GUIDANCE

\* The event logged on a superseded version says PUBLISHED whatever its state
\* was.
TransitionTo(m, kb, v, to, id, rev, at) ==
    [m EXCEPT ![kb] =
        [w \in DOMAIN @ |->
            IF w = v
            THEN Log(@[w], NewEvent(@[w].state, to, id, rev, at), @[w].supBy)
            ELSE IF Supersedes(m, kb, v, to, w)
            THEN Log(@[w], NewEvent("PUBLISHED", "SUPERSEDED", id, rev, at), v)
            ELSE @[w]]]

MoveTo(m, kb, v, to) == TransitionTo(m, kb, v, to, None, None, None)

DecideTo(m, kb, v, to, a) == TransitionTo(m, kb, v, to, a.id, a.rev, a.at)

-----------------------------------------------------------------------------
(* What is to hold of every manifest the commands write.                   *)

CurrentVersions(m, kb) == {v \in Versions(m, kb) : m[kb][v].state \in CURRENT_GUIDANCE}

AtMostOneCurrent(m) ==
    \A kb \in KbIds : \A v, w \in CurrentVersions(m, kb) : v = w

\* Versions that are neither rejected nor retired say different things.
LiveVersionsDiffer(m) ==
    \A kb \in KbIds : \A v, w \in Compared(m, kb) :
        m[kb][v].cand.rec = m[kb][w].cand.rec => v = w

\* Event i of version record r is a human decision to move to the state, by
\* a reviewer who did not propose the article.
DecidedAt(r, i, to) ==
    /\ r.hist[i].to = to
    /\ r.hist[i].auth # None
    /\ r.hist[i].rev \notin r.cand.proposers

\* An approval and, under another authorization, a later publication.
ApprovedThenPublished(r) ==
    /\ QualityGate(r.cand)
    /\ \E i, j \in DOMAIN r.hist :
        /\ i < j
        /\ DecidedAt(r, i, "APPROVED_BY_HUMAN")
        /\ DecidedAt(r, j, "PUBLISHED")
        /\ r.hist[i].auth # r.hist[j].auth

CurrentAuthorized(m) ==
    \A kb \in KbIds : \A v \in CurrentVersions(m, kb) : ApprovedThenPublished(m[kb][v])

\* The inductive strengthening: an approved version carries its approval too.
ApprovalOnRecord(m) ==
    \A kb \in KbIds : \A v \in Versions(m, kb) :
        /\ m[kb][v].state = "APPROVED_BY_HUMAN" =>
            /\ QualityGate(m[kb][v].cand)
            /\ \E i \in DOMAIN m[kb][v].hist : DecidedAt(m[kb][v], i, "APPROVED_BY_HUMAN")
        /\ m[kb][v].state \in CURRENT_GUIDANCE => ApprovedThenPublished(m[kb][v])

\* Within an entry an authorization id is on a single event, or on the
\* publication of one version and the withdrawals that went with it.
DecidedOnce(m) ==
    \A kb \in KbIds : \A v, w \in Versions(m, kb) :
        \A i \in DOMAIN m[kb][v].hist, j \in DOMAIN m[kb][w].hist :
            LET e == m[kb][v].hist[i]
                f == m[kb][w].hist[j]
            IN  /\ e.auth # None /\ e.auth = f.auth
                /\ <<v, i>> # <<w, j>>
                => /\ v # w
                   /\ \/ e.to = "PUBLISHED" /\ f.to = "SUPERSEDED" /\ m[kb][w].supBy = v
                      \/ f.to = "PUBLISHED" /\ e.to = "SUPERSEDED" /\ m[kb][v].supBy = w
                      \/ e.to = "SUPERSEDED" /\ f.to = "SUPERSEDED"

\* What makes it inductive: a superseded version is never superseded again.
SupersededStays(m) ==
    \A kb \in KbIds : \A v \in Versions(m, kb) : \A i \in DOMAIN m[kb][v].hist :
        m[kb][v].hist[i].to = "SUPERSEDED" => m[kb][v].state \in {"SUPERSEDED", "RETIRED"}

ManifestInv(m) ==
    /\ m \in Manifest
    /\ LiveVersionsDiffer(m)
    /\ AtMostOneCurrent(m)
    /\ ApprovalOnRecord(m)
    /\ DecidedOnce(m)
    /\ SupersededStays(m)
=============================================================================
