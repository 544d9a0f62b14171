----------------------------- MODULE AdviceFlow -----------------------------
(***************************************************************************)
(* change_documentation_knowledge.cli at work: commands that derive        *)
(* advisories, documents and governance reports from files of people and   *)
(* of rca_engine, and write them as a set of files with a manifest; and    *)
(* the reviewers who read what is on disk and sign it.                     *)
(*                                                                         *)
(* The inputs of a command (fixture or RCA result, catalog, context,       *)
(* request) are files anyone may edit between two commands, so each        *)
(* command takes any of them.  A result of rca_engine may have been made   *)
(* with an earlier catalog, and one that was being written when it was     *)
(* read is torn.  --dry-run stops before anything is written and is left   *)
(* out, and so is the case of two commands at the same time.               *)
(***************************************************************************)
EXTENDS Documents

CONSTANTS
    Dirs,          \* output directories
    Managed,       \* those of them inside managed repository content or a KB
    Fixtures,
    Catalogs,
    Contexts,      \* change contexts, before their human_authorizations
    Requests,      \* e-stack requests, before their authorization
    Assessments,
    Reviews,       \* inputs of a post-incident review, None among them
    Reviewers,
    MaxDecisions   \* bound of the model

ASSUME FlowAssumption == MaxDecisions \in Nat /\ Managed \subseteq Dirs

VARIABLES
    dirs,        \* directory -> the files in it, by name
    job,         \* None, or the set of files the running command is writing
    decisions,   \* authorization records, each with what its author had read
    reported     \* commands that returned OK: where, and what they wrote

vars == <<dirs, job, decisions, reported>>

---------------------------------------------------------------------------
(* Inputs *)

RcaResults(fixture, rules) ==
    IF IntakeError(fixture) THEN {} ELSE {run_rca(fixture, rules)}

\* What a command may read as --rca-result; rca_engine.cli writes it in place, and
\* None is a file that is not all there.
RcaFiles == {None} \cup UNION {RcaResults(f, c) : f \in Fixtures, c \in Catalogs}

\* _rca_view: the adapted result of a file, or of the engine run on a fixture with
\* a second load of the catalog.
_rca_view(rca, rules) ==
    IF rca = None \/ adapt_rca_result_error(rca, rules) # None THEN {}
    ELSE {adapt_rca_result(rca, rules)}

Views == UNION {_rca_view(rca, rules) : rca \in RcaFiles, rules \in Catalogs}

Authorizations == {d.auth : d \in decisions}

Selections == {<<>>} \cup {<<a>> : a \in Authorizations}
              \cup {<<a, b>> : a, b \in Authorizations}

Advisories(view) ==
    LET contexts == {None} \cup
                    {[gates |-> c.gates, proposers |-> c.proposers, reports |-> c.reports,
                      authorizations |-> s] : c \in Contexts, s \in Selections}
    IN  {build_change_advisory(view, c) :
            c \in {x \in contexts : build_change_advisory_error(view, x) = None}}

OnDisk(type) ==
    {f \in UNION {Range(dirs[d]) : d \in Dirs} : f.type = type}

\* An advisory somebody edited by hand: a change marked as approved.
Altered(advisory) ==
    [advisory EXCEPT !.changes = [n \in DOMAIN @ |->
                                     [@[n] EXCEPT !.status = "APPROVED_BY_HUMAN"]]]

\* What --advisory may be given.
AdvisoryFiles ==
    LET written == OnDisk("change_advisory") IN written \cup {Altered(a) : a \in written}

Validated == {a \in AdvisoryFiles : validate_advisory_error(a) = None}

---------------------------------------------------------------------------
(* Commands: what each of them would write, one artifact *)

_cmd_advise == UNION {Advisories(v) : v \in Views}

_cmd_advise_estack ==
    LET requests == {[stages |-> r.stages, compatibility |-> r.compatibility,
                      proposer |-> r.proposer, authorization |-> a] :
                        r \in Requests, a \in {None} \cup Authorizations}
    IN  {build_estack_change(r) : r \in {x \in requests : build_estack_change_error(x) = None}}

Kinds == {"rca", "executive", "change", "assessment", "post-incident"}

_cmd_document(kind) ==
    CASE kind = "assessment" ->
             {build_assessment_report(a) :
                 a \in {x \in Assessments : parse_assessment_error(x) = None}}
      [] kind = "change" -> {build_change_report(a) : a \in Validated}
      [] kind = "rca" ->
             UNION {{build_rca_report(v, a) : a \in Advisories(v) \cup Validated} : v \in Views}
      [] kind = "executive" ->
             UNION {{build_executive_summary(v, a) : a \in Advisories(v) \cup Validated}
                       : v \in Views}
      [] OTHER -> {build_post_incident_review(v, r) : v \in Views, r \in Reviews}

_cmd == _cmd_advise \cup _cmd_advise_estack \cup UNION {_cmd_document(k) : k \in Kinds}

\* The files of an artifact in the order they are written, that of their names: the
\* manifest, the JSON and the Markdown, which governance reports do not have.
Manifest == "artifact_manifest.json"

Names(artifact) ==
    IF artifact.type = "estack_change_governance" THEN <<Manifest, "estack.json">>
    ELSE IF artifact.type = "change_advisory" THEN <<Manifest, "advisory.json", "advisory.md">>
    ELSE <<Manifest, "document.json", "document.md">>

\* Fault: the file system is not asked.
Exists_Never(d, name) == FALSE

Exists(d, name) == name \in DOMAIN dirs[d]

\* assert_dev_workdir.
Refused(d) == d \in Managed

---------------------------------------------------------------------------
Init ==
    /\ dirs = [d \in Dirs |-> << >>]
    /\ job = None
    /\ decisions = {}
    /\ reported = {}

\* A command (no other is running) builds its artifact and, before anything is
\* written, finds none of its names in the directory.
Start(d, artifact) ==
    /\ ~Refused(d)
    /\ \A name \in ToSet(Names(artifact)) : ~Exists(d, name)
    /\ job' = [dir |-> d, artifact |-> artifact, todo |-> Names(artifact)]
    /\ UNCHANGED <<dirs, decisions, reported>>

\* atomic_write_text of the next file; after the last one the command returns OK.
\* Every file is a rendering of the artifact, the manifest of its digests.
Write ==
    /\ job # None
    /\ IF Exists(job.dir, Head(job.todo))
       THEN job' = None /\ UNCHANGED <<dirs, reported>>
       ELSE /\ dirs' = [dirs EXCEPT ![job.dir] =
                           [n \in DOMAIN @ \cup {Head(job.todo)} |->
                               IF n = Head(job.todo) THEN job.artifact ELSE @[n]]]
            /\ job' = IF Len(job.todo) = 1 THEN None ELSE [job EXCEPT !.todo = Tail(@)]
            /\ reported' = IF Len(job.todo) = 1
                           THEN reported \cup {[dir |-> job.dir, artifact |-> job.artifact]}
                           ELSE reported
    /\ UNCHANGED decisions

\* The command dies, or a write fails: what it wrote stays.
Crash ==
    /\ job # None
    /\ job' = None
    /\ UNCHANGED <<dirs, decisions, reported>>

\* The changes a reviewer finds on disk.
Readable ==
    UNION {ToSet(a.changes) : a \in OnDisk("change_advisory")}
    \cup {a.change : a \in OnDisk("estack_change_governance")}

\* A reviewer reads a change and signs a decision on its digest.
Review(reviewer, decision, c) ==
    /\ Cardinality(decisions) < MaxDecisions
    /\ decisions' = decisions \cup
          {[auth |-> [decision |-> decision, artifact |-> c.id,
                      digest |-> content_digest(c), reviewer |-> reviewer],
            seen |-> c]}
    /\ UNCHANGED <<dirs, job, reported>>

Next ==
    \/ /\ job = None
       /\ \E d \in Dirs, artifact \in _cmd : Start(d, artifact)
    \/ Write
    \/ Crash
    \/ \E r \in Reviewers, decision \in {"APPROVED", "REJECTED"}, c \in Readable :
          Review(r, decision, c)

Spec == Init /\ [][Next]_vars

---------------------------------------------------------------------------
Published == UNION {Range(dirs[d]) : d \in Dirs}

Shown(artifact) ==
    IF artifact.type = "estack_change_governance" THEN {artifact.change}
    ELSE ToSet(artifact.changes)

\* A change is shown as approved, in an advisory, a governance report or any
\* document, only if a reviewer approved it having read exactly this change: its
\* evidence, gates, risk and state of the cause, not only what it proposes
\* (common.content_digest, authorization.verify_authorization,
\* documents.validate_advisory).
ApprovedAsReviewed ==
    \A artifact \in Published : \A c \in Shown(artifact) :
        c.status = "APPROVED_BY_HUMAN"
        => \E d \in decisions : /\ d.auth.decision = "APPROVED"
                                /\ d.auth.artifact = c.id
                                /\ Artifact(d.seen) = Artifact(c)

\* A directory holds the output of one command, in full once the command returned
\* OK and for ever after; what a command that died left is never mixed with another
\* artifact, and managed content is not written to (cli._write_set,
\* safety.atomic_write_text, safety.assert_dev_workdir).
SetsAreWhole ==
    /\ \A r \in reported : dirs[r.dir] = [n \in ToSet(Names(r.artifact)) |-> r.artifact]
    /\ \A d \in Dirs : /\ Cardinality(Range(dirs[d])) <= 1
                       /\ Refused(d) => dirs[d] = << >>

\* What the docstring of cli._write_set says, "then the artifact manifest last": a
\* directory that has a manifest has the files it lists, wherever a command died.
ManifestLast ==
    \A d \in Dirs : Manifest \in DOMAIN dirs[d]
        => ToSet(Names(dirs[d][Manifest])) \subseteq DOMAIN dirs[d]

\* An e-stack change is approved only when every stage before the human review and
\* every compatibility check passed when the report was made, nothing is promoted,
\* and its reviewer is not its proposer (change.build_estack_change).
EstackApprovedWhenReady ==
    \A artifact \in Published : artifact.type = "estack_change_governance" =>
        LET c == artifact.change
        IN  c.status = "APPROVED_BY_HUMAN"
            => /\ \A i \in 1..(HUMAN_REVIEW - 1) : c.stages[i] = "PASS"
               /\ \A k \in ESTACK_COMPAT_CHECKS : c.compatibility[k] = "PASS"
               /\ c.stages[PROMOTE] = "NOT_RUN"
               /\ c.approval.reviewer # c.proposer

\* A change that nothing holds back rests on a confirmed cause and evidence, every
\* gate of it is settled, and one on a licensed domain has its licence confirmed,
\* whatever the context declared (change._gate_view, change._readiness).
ReadyMeansSettled ==
    \A artifact \in Published : artifact.type \in {"change_advisory", "document"} =>
        \A c \in Shown(artifact) : c.readiness = "READY_FOR_HUMAN_REVIEW"
            => /\ c.rca_state = "CONFIRMED" /\ c.evidence # {}
               /\ \A g \in GATES : c.gates[g] \in NON_BLOCKING
               /\ license_dependent(c.domain) => c.gates["license"] = "PASS"
=============================================================================
