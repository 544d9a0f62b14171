# Verification of oracle-diagnostic-estack

TLA+ models of the parts of the e-stack that keep state, fail half-way or run
concurrently, checked with TLC on small instances and, for their main
invariants, proved with TLAPS for every value of the constants.

## 1. The system

The repository is a read-only diagnostic stack for Oracle databases: agents and
certified queries (Markdown, YAML, SQL), and about 16 000 lines of Python in the
packages below. Everything runs locally: command line tools over files, and one
long-running process, the MCP gateway, that speaks JSON-RPC on stdin/stdout.

| Component | State | Operations | Interacts with |
|---|---|---|---|
| Knowledge base (`change_documentation_knowledge/kb_store.py`, `knowledge.py`, `authorization.py`, `retrieval.py`) | `manifest.json` (entries, versions, states, histories), `articles/<KB>/v<N>.json,.md` | `kb-candidate`, `kb-add`, `kb-transition`, `kb-search`, `kb-status`, `kb-review-due` | reads RCA results; authorization records come from people |
| Change advisory and governance (`change.py`, `schema.py`, `cli.py`) | files of an artifact set, approval inside an advisory or a governance report | `advise` (for an incident, for a change of the e-stack) | RCA result, context and authorizations in, artifacts out |
| Documents (`documents.py`) | files of an artifact set | `document` of five kinds | RCA result, advisories read back from disk |
| MCP gateway (`mcp_gateway/server.py`, `gateway.py`, `evidence.py`, `architecture.py`) | protocol state, session budgets, evidence store with time to live, observed architecture | `initialize`, five tools, end of input | adapters, catalog, registry, RCA engine through `bridge.py` |
| Field validation registry (`mcp_gateway/field_validation.py`) | file on disk, copy in memory with its stat and digest | `load`, `refresh`, `assess` | called before every tool |
| Adapters (`mcp_gateway/adapters.py`, `mcp_gateway_lab/oracle_sql.py`) | worker threads, one lock, one connection | `run_with_timeout`, `fetch` | Oracle driver |
| Lab launcher (`mcp_gateway_lab/profile.py`, `filesec.py`, `cli.py`, `credentials.py`, `sqlsource.py`) | private profile, human authorization with an expiry | startup checks | adapter |
| Catalog (`mcp_gateway/catalog.py`, `versions.py`, `schemas.py`) | read once at startup, from files people change | loading, capability evaluation | gateway, lab launcher |
| Bridge (`mcp_gateway/bridge.py`) | none | rows of a session to a fixture, analysis, report | engine, adapter of its result, advisory |
| RCA engine (`rca_engine/`) | none: one evaluation of one incident | intake, timeline, hypotheses, causality, root cause | everything reads its result |
| Release readiness (`release_readiness/`, `tests/run-all.sh`) | the evidence package of a test run, outside the repository; the working tree is somebody else's | `run`, `verify`, `gate`, registry and governance checks | working tree, test runner |
| Capacity engine (`capacity_engine/`) | none: one evaluation of one list of samples | normalisation, segmentation, trend, horizons, thresholds | - |
| Human evidence (`human_evidence/`) | request files | classify, validate | gateway catalog |
| Parsers (`parsers/`), generators (`scripts/`), sanitizer (`rca_engine/sanitize.py`) | none | text to records | - |

What is hard here: a `kb-add` that dies between three file replacements while a
search runs; a life cycle of ten states with rival versions, supersession and
authorizations that can be presented twice; a gateway that abandons a thread
which then goes on inside the adapter; budgets and a time to live at their
limits; a registry file that is edited between two looks at it; test evidence
collected for hours over a tree that people go on editing; evidence of an
incident and samples of a resource that come in late, twice, out of order or with
wrong clocks, each of which changes a conclusion; an approval that was given for
an artifact that has been built again since; and a set of files half of which is
on disk. What makes each part correct:

* **Knowledge base**: what a search certifies as current guidance was approved
  and published by people who did not propose it; an entry has one current
  article; a withdrawn article stays withdrawn; the store is readable whatever
  was interrupted.
* **Adapter**: one connection at a time, evidence only from the database the
  profile authorizes, every call answered, by its own thread.
* **Gateway**: the budgets hold, a reference works while it is fresh, observed
  facts replace declared ones.
* **Registry**: the file decides, and fails closed.
* **Catalog**: a file that says less of a target grants nothing new.
* **RCA engine and bridge**: a cause is confirmed only uncontested, whatever the
  order of the evidence, and the next component accepts what the engine says.
* **Advisories and documents**: what is shown as approved is exactly what was
  reviewed; what is called ready is settled; a set of files is whole.
* **Capacity**: one epoch of the resource, enough of it, and dates that fit the
  trend.
* **Release readiness**: a PASS is about a complete, successful run of the tree
  that is released; anything interrupted, stale, mixed or withheld is not a PASS.

The hazards, each at its line and with the properties that cover it, are listed
in `PROJECT.json`.

## 2. Modules

| Module | Models | State and actions |
|---|---|---|
| `KbManifest` | the manifest and what the commands decide and write, as operators on a manifest value | no variables; `CanAdd` (`Admissible` and `Fits`)/`AddTo` = `add_candidate`, `CanMove`/`MoveTo` and `CanDecide`/`DecideTo` = `transition` without and with a human decision, `VerifyAuthorization`, `QualityGate`, `Duplicate`, `OpenConflicts` as named in the code |
| `KbLifecycle` | the life cycle with every command as one step | `manifest`; `AddCandidate`, `Move`, `Decide` |
| `KbGuidance` | abstract: what readers are promised | `guidance`, `withdrawn`, `spent`; `Publish`, `Withdraw`, `Confirm` |
| `KbStore` | the CLI processes and the files | `manifest`, `json`, `md` on disk, `pc`, `mem`, `cand` per process; `Load`, `AddReview`, `AddRefused`, `CheckJson`, `PutJson`, `CheckMd`, `PutMd`, `Transition`, `TransitionBroken`, `Save`, `Search`, `Stop` (error, kill) |
| `LabAdapter` | `run_with_timeout` and `OracleSqlAdapter.fetch` | loop (`Call`, `Answer`, `Timeout`, `Eof`) and one thread per call (`Check`, `Lock`, `Connect`, `CheckSession`, `CheckIdentity`, `Query`, `Close`, `Unlock`, `Report`), `Expire` |
| `McpGateway` | a session of the gateway | `Initialize`, `Initialized`, `Eof`, `Collect`, `ReadEvidence` (`get_evidence` and `analyze_incident`), `OtherTool`, `Tick` |
| `FieldRegistry` | the registry file and the gateway's copy | `Edit`, `Call`, `RefreshStat`, `RefreshDigest`, `LoadStat`, `LoadRead`, `Tool` |
| `RunLog` | the parser of the runner's log and the decisions the packager and the verifier share | no variables; `judge`, `decide`, `check_security_scripts`, `worst` as named in the code, a parse result as sets of scripts |
| `ReleaseEvidence` | `run`, the test runner, `verify` and `gate` over a tree that changes | `tree`, `private`, `pkg` on disk; `pc`, `run` per `run` command; `gate`; `Edit`; `Prepare`, `Claim`, `TakeBefore`, `StartTests`, `StartScript`, `EndScript`, `Summarise`, `Exit`, `CutShort`, `TakeAfter`, `JudgeRun`, `CreateFile`, `FillSums`; `Command`, `CheckRegistry`, `CheckWhitespace`, `VerifyIncomplete`, `VerifyPackage`, `TakeCurrent`, `Report` |
| `Catalog` | `catalog.py`, `versions.py`, `field_validation.assess` and `architecture.py` as operators | no variables; a function that raises is an operator for the refusal and one for the value |
| `FieldLevels` | a gateway from its catalogs to the level of field validation it states; composes `FieldRegistry` and `Catalog` | `setup`, `gateway`, `starts`, `observed`, `evidence`, `answer`; `Restart`, `NewCall`, `Refreshes`, `EditRegistry`, `Collect`, `CollectRefused`, `Describe`, `Analyze` |
| `RcaEngine` | `rca_engine` from a fixture to its result | no variables; `validate_and_sanitize`, `normalize_evidence`, `build_timeline`, `evaluate_rule`, `generate_hypotheses`, `aggregate_root_cause`, `build_recommendations`, `run_rca` |
| `ChangeAdvisory` | `schema.adapt_rca_result`, `change.build_change_advisory`, `change.build_estack_change` | no variables; extends `RcaEngine`; the checks of the adapter in the order of the code: `ManifestError`, `EventError`, `HypothesesError`, `RootCauseError`, `ClosingError`, each with the limits of its lists (`AdapterLimits`) |
| `Bridge` | `bridge.build_rca_fixture` and `bridge.analyze` | no variables; extends `ChangeAdvisory` |
| `IncidentAnalysis` | an incident while its evidence comes in, by file or through the gateway | `evidence`, `declared`, `rows`, `exit`, `out`, `report`; `AddEvidence`, `AddRow` |
| `Documents` | the five documents and `validate_advisory` | no variables; extends `ChangeAdvisory` |
| `AdviceFlow` | the commands `advise` and `document`, the files they write and the reviewers who sign them | `dirs`, `job`, `decisions`, `reported`; `Start`, `Write`, `Crash`, `Review` |
| `CapacityEngine` | `capacity_engine` from samples to a forecast | no variables; `normalize_samples`, `segment_after_last_event`, `aggregate_daily`, `assess_quality`, `fit_trend`, `evaluate_threshold`, `run_capacity_forecast` |
| `CapacityHistory` | a resource while its samples come in | `samples`, `policy`, `out`; `AddSample` |
| `MC*` | small instances of the module of that name | |
| `*Proofs` | theorems about the module of that name; `KbStoreProofs` also about `KbManifest` and `KbLifecycle`, which `KbStore` extends, and `FieldRegistryProofs` about `FieldLevels` | |

`KbStore` extends `KbLifecycle`, which extends `KbManifest`: the file-by-file store
and the atomic life cycle share the manifest and what a command decides, and the
properties of a manifest are stated once. With one writer `KbStore` implements
`LifecycleSpec`, which implements `KbGuidance`. `RcaEngine` is used twice as the code
uses it: by `IncidentAnalysis`, where its result goes through the adapter and the
advisory in one call, and by `AdviceFlow`, where it is a file that may have been
made with another catalog than the one the command loads.

`PROJECT.json` maps every definition to its lines. Definitions preceded by a
comment that starts with *Fault* are variants of the definition that follows,
with a plausible bug in them; no specification uses them.

### Abstractions

* A candidate is what `build_kb_candidate` leaves that the life cycle tells
  apart: the KB id (hash of the deduplication key, hence of family, rule, codes
  and scope), the recommendation digest, the declared supersession, the
  proposers, and three flags: `confirmed` (the RCA is CONFIRMED with a confirmed
  hypothesis, which the schema demands together), `complete` (it has
  recommendations and supporting evidence, the part that `quality_gate`
  evaluates again) and `flagged` (reasons that hold a candidate back as DRAFT at
  extraction and are not looked at again: instruction-like text, an incomplete
  manifest, an unresolved contradiction). Same KB id means same family and scope;
  SCOPE_DIFFERENCE is only a label on the answer and changes nothing.
* A digest is the pair of candidate and version: `content_digest` leaves out the
  generation time and the life cycle fields and covers the rest.
* A stamp has a rank as text and an instant, because the code compares texts.
* Authorization records name an artifact that exists, with any id, reviewer,
  decision and time: what a reviewer can have written from what is on disk.
* Temporary files are not modelled: `os.replace` is atomic and nobody reads
  `.tmp-` files. A save that fails (I/O, too large) is `Stop`.
* A command that ends in E_KB_INTEGRITY leaves in `broken` which check raised it:
  of the manifest it read, of an article, or of the number of entries with the new
  one. All other refusals are `Exit` and `Stop`.
* A search uses the default states or everything it may ask for: whatever else
  it filters, it verifies each article it considers.
* The adapter's error codes of driver, credentials, SQL source and result
  checks are one code; so are those of the session guard's user and service name
  and of the identity guard. For the identity collector `Query` is no extra round
  trip in the code: the model allows it a driver error it cannot have.
  `last_failure` is only read by the one-call `check` command.
* The capability of a collector on a target does not change in a session, so
  `Targets` are those where collection is allowed. References are random in the
  code, numbered here. The dimensions of the architecture are updated together;
  one stands for all.
* Every edit of the registry file changes its size or modification time: this is
  what the code relies on to look at no more than a `stat` per call.
* A working tree is its test scripts, each with what running it does (pass, fail,
  skip, print a line in the runner's format, not there), and the rest of the
  files: in order, with a whitespace error, or without a loadable registry. The
  runner script itself is not edited. A fingerprint is the tree it was taken of,
  read in two steps, scripts and then the rest. An edit changes one file.
* The eight files of a package are five: those that say the same thing are
  written together. Only `SHA256SUMS.txt`, the last, has a step in which it exists
  and is incomplete: before that a file is missing, and V01 looks no further. A
  process that dies takes no further step. V03 and V07 hold of every package the
  tool writes (with a clock that is not set back), and nobody alters one
  afterwards: the hashes of the code are not under test here, its order is.
* A log that is too long loses its summary, or only lines after it. A log that is
  withheld is withheld whether too long or not, so the two are not combined.
* One gate or verify command stands for any number: it changes nothing. Its
  static checks C01 to C08 are whether the registry loads.
* Evidence and rules keep what the engine compares: domain, event type, source,
  the form of a time and its instant, a signature, and attributes as a partial
  function to classes of values. A token stands for the value it hides. The engine
  runs after every item, since it keeps nothing but the file it writes.
* Free text of an action is a class (`plain`, `disruptive`, `executable`), which is
  what the safety patterns decide of it. A digest is its content
  without the excluded fields, so two digests are equal when the contents are; a
  file edited by hand keeps its old digest, and one whose editor computed the
  digest again is not modelled.
* `advise` and `document` take any of the input files the instance has: people
  edit them between two commands. Two commands at the same time are not modelled.
  Every file of a set is its artifact; the sets of two kinds share a directory
  only up to the manifest, whose name they have in common.
* The floats of the capacity engine are integers, scaled so that no quotient has
  to be formed (see the head of `CapacityEngine`); a month, Z and the unit factors
  are constants of the instance.
* `Catalog` has one target, since targets do not depend on each other; that rows
  are of the target is `LabAdapter`'s. `Loaded` is what each setup makes of the
  gateway, computed once.

## 3. Runs

| Run | Bounds | Shows |
|---|---|---|
| `KbLife` | 2 entries with `MaxEntries` 1, 7 candidates (an article, two rivals that supersede, and refused, flagged and incomplete ones of the other entry), 2 reviewers who each proposed something, 5 authorizations, 2 versions, history of 8 | one current article, live versions differ, guidance is authorized, one decision per authorization in an entry, history only grows, and the promise of `KbGuidance` |
| `KbStoreOneWriter` | 1 writer, 1 reader, 2 entries with `MaxEntries` 1, 3 candidates that start as DRAFT, 4 authorizations, 2 versions, history of 4, kills everywhere | files before listing, E_KB_INTEGRITY for a new entry in a full knowledge base only, no overwriting, refinement of `KbLifecycle` |
| `LabCalls` | 3 calls; a right, a wrong and an over-privileged database | lock, evidence and results; the loop answers; the lock is given back |
| `Gateway` | 2 targets of which one is real, 2 values, 3 collections per session and 2 per target, 3 rows, time to live 1, clock to 2, 4 requests | freshness and budgets at their limits; the observed release update wins |
| `FieldLevels` | 14 catalogs (lab and fixture, refused ones, a changed SQL, a target that says less), 3 registry contents of which one is invalid, 3 architectures and 3 versions to observe, 1 edit, 3 calls, 2 starts | the file decides; an analysis without a ceiling rests on a validation; learning never raises a level; a file that says less never grants |
| `Incident` | 4 rules of which 2 may be kept and one has a domain the adapter does not know, 11 items and 11 rows, up to 3 of them, 6 declarations, lists of the adapter limited to 1 to 3 where the engine does not bound them | conclusions are uncontested and do not depend on the order, every item is accounted for, confirmation is lost only for a reason, the adapter refuses exactly what is listed as outside its contract |
| `Advice` | 4 fixtures, 2 catalogs, 3 contexts, 4 requests, 3 directories of which one is managed content, 2 reviewers, 1 decision | approvals are of what was reviewed, sets are whole after crashes, readiness means settled |
| `Capacity` | 16 samples of which up to 4 come in, 2 capacities, 2 units, 2 policies, 4 thresholds | one epoch, nothing from too little, thresholds fit the trend and each other, the order of the file is irrelevant |
| `Release` | 2 runs for one directory, 2 scripts of which one is a security script, 7 trees, 2 edits | what a PASS means; one writer per package; the verifier agrees with the packager |

The bounds are the least in which the cases meet: two reviewers so that each can
meet a candidate of their own; enough authorizations for approve, publish,
supersede and retire; three calls so that a late thread can meet both the next
call and the one after; a budget one below the demand; a clock that passes the
time to live; two edits, so that a tree can be changed and restored within one
run; three items, so that a confirmation can be reached and then contested; two
starts, so that one file can be compared with another; four samples, so that a
trend of three days can meet a resize; one decision, which can be presented for
any artifact built later. `VersionBound`, `HistoryBound`, `MaxCalls`, `MaxNow`,
`MaxToolCalls`, `MaxEdits`, `MaxStarts`, `MaxEvidence`, `MaxSamples` and
`MaxDecisions` are bounds of the models only. The two runs of `Release` and the
directories of `Advice` that are not managed are symmetry sets; no property of
these runs is temporal.
Deadlock is not checked where the bounds, a closed session, a fully retired entry
or a package that is already there end the behaviour; in the store a process can
always run again, and it is checked.

The limits of `Incident` on declared references, events, items of an event or in
support of a hypothesis, unmet conditions and recommendations are met in the run;
those on present and missing references, hypotheses, contradicting items and causes
are not, and only the theorem covers them. Concurrent writers have no run: the
documentation excludes them (docs/PHASE_12_CHANGE_ADVISORY_DOCUMENTATION_KNOWLEDGE_LIFECYCLE.md:129),
and the model, like the code, loses updates with two. What survives is proved for
any number of them (`StoreSingleGuidance`, `StoreDistinctLive`,
`StoreGuidanceAuthorized`).

`PassMeansReleasable` is the strongest statement that holds: `fingerprint.py`
says itself that nothing is proven of the tree between the two fingerprints, and
TLC indeed passes a tree whose failing script was repaired during the tests and
put back. Hence its premise that nobody touches the tree during the run;
`PassMeansTested` has no such premise.

### Disagreements between the code and its documentation

Three are runs that TLC ends with a counterexample, and findings in `PROJECT.json`
with the lines:

* `KbHistoryChain`: a version superseded from REVIEW_DUE gets an event that says
  it was PUBLISHED.
* `RcaContract`: the engine confirms a hypothesis on temporal proof alone, as its
  hardening document says; the adapter of the result refuses a confirmed
  hypothesis without supporting evidence as an "impossible state". `AdapterAgrees`
  lists all that the adapter refuses of what the engine produces: besides this,
  evidence identifiers without the prefix EVD, references declared twice, actions of
  the catalog that are commands, rules of a domain it does not know and lists beyond
  its limits.
* `AdviceManifest`: `_write_set` is documented to write the manifest last
  (`cli.py:168`); it writes in the order of the names, in which the manifest comes
  first (`cli.py:187`), so a command that dies leaves a manifest of files that are not
  there.

Others are visible in the models without a run of their own:

* "decisions are chronologically monotonic" (`kb_store.py:18`): the event that a
  publication adds to the version it supersedes is not compared with that
  version's history (`kb_store.py:261`). `DecisionsChronological` of `KbLifecycle`
  fails with `Stamps = {t1, t2}` and `Candidates <- MCPair`.
* "an authorization id is single-use" (`kb_store.py:18`): per entry only
  (`kb_store.py:238`). `AuthorizationSingleUse` fails with `MaxEntries = 2` and
  `Candidates <- MCTwoEntries`. `OneDecisionPerAuthorization` is what holds.
* "Observed values win for field validation in the same session"
  (`architecture.py:5`): until a later collection drops the fact
  (`gateway.py:307`). `ArchitectureObservedWins` of `McpGateway` fails with the
  constants of `Gateway.cfg`; `ReleaseUpdateObservedWins` holds.
* `describe_collector` compares a validation with the declared target
  (`gateway.py:267`), although observed goes before declared
  (`policies/field-validation-policy.md:33`); see `Describe` of `FieldLevels`.
* A malformed declared reference is said to degrade to "missing"
  (`intake.py:77`); it is dropped. See `declared_refs` of `RcaEngine`.
  `ConfirmedIsUncontested` is about the references that are kept.
* A version after the 9999th is added (`kb_store.py:175`) but has a number that
  `load_manifest` does not accept (`kb_store.py:42`), so that no command could read the
  manifest afterwards. `KbAssumption` keeps `VersionBound` below it.
* "the segmentation step (capacity_engine.segmentation) already ensures total_capacity
  is constant within the analyzed segment" (`threshold.py:5`): a sample is only compared
  with the one before it (`segmentation.py:31`), so steps below 0.5 % add up.
  `StableDenominator` of `CapacityHistory` fails with the constants of `Capacity.cfg`
  and `Samples <- MCDrift`. `EpochsNeverMixed` is what holds: neighbours in time are
  within that noise.
* The licence gate of a change looks at the domain of its first linked hypothesis
  only (`change.py:303`); see `Linked`.

## 4. Fairness

`LoopSpec` assumes only that the protocol loop goes on: `Thread.join` has a
timeout, so `Answer \/ Timeout` stays enabled until taken. Nothing is assumed of
the threads, and `LoopResponds` holds with a driver that never returns.
`LockReleased` is stated under `ThreadsRun`, that each thread continues (weak
fairness of `Thread(n)`), as a premise of the property: `tcp_connect_timeout` (or
`SQLNET.OUTBOUND_CONNECT_TIMEOUT` with a wallet, docs/LAB_PORTABLE.md) bounds
the connection, `call_timeout` every round trip, a subprocess timeout the
keychain. The other specifications are safety only.

## 5. Proofs

For every value of the constants, under the named assumptions of each module. Those
that say more than the type of a constant are `KbAssumption` (`None` is no
identifier and no candidate, and `VersionBound` is at most 9999), `LimitsAssumption`
(the adapter takes one source per event, the five limitations the engine can state
and as many domains as there are), `ErrorAssumption` and `ReportAssumption` (nor an error
code), `LevelsAssumption` (nor a level; the fields a target has, what architecture values
are, and that the validations of a registry are numbered from 1) and
`IncidentAssumption` (a time that can be read is a number and a token is not `None`;
the catalog is a list in which rule ids are unique, which `load_rules` enforces, and
ordered; a condition asks for a scalar; and the bridge gives out different,
well-formed identifiers). `CapacityAssumption` and `HistoryAssumption` say that the
values of a sample are numbers, absent (`None`) or not finite (`NaN`), that neither of
these is a number nor `None` a reason to exclude a sample, that a policy and the
thresholds are numbers, and that unit factors are positive.

* **`KbStoreProofs`**, the manifest: each command preserves `ManifestInv`. Its
  parts need each other. That one article is current is not inductive alone:
  publication of a version without a declared supersession is only kept from being
  the second by the conflict gate, which compares recommendation digests, so
  `LiveVersionsDiffer` is needed; that in turn is preserved because no transition
  leads back from REJECTED or RETIRED. That guidance is authorized needs
  `ApprovalOnRecord`: a version in APPROVED_BY_HUMAN has its approval in its
  history, and publishing takes an authorization the entry has not used.
  `DecidedOnce` needs `SupersededStays`: an authorization is repeated only on
  versions that its publication superseded, and a version that was superseded is
  SUPERSEDED or RETIRED ever after, so it is never superseded again.
* **`KbStoreProofs`**, the life cycle: the invariants `SingleGuidance`,
  `DistinctLive`, `GuidanceAuthorized` and `OneDecisionPerAuthorization` follow from
  `ManifestInv`. `AppendOnly` goes by the shape of a step: it adds one version, or
  one event to a version and to those it supersedes. `KeepsGuidancePromise` maps
  each step to one of `KbGuidance`: `AddCandidate` and a transition without a human
  decision stutter; a decision publishes, withdraws or confirms according to the
  state it leaves and the one it enters, and spends its authorization. That this one
  is fresh and that a withdrawn version cannot return is what the invariant supplies.
* **`KbStoreProofs`**, the store: `StoreInv` states `ManifestInv` of the manifest on disk
  and of every copy in memory, so the same properties hold on disk with
  any number of writers, crashes and lost updates. With one writer
  (`SingleWriter`), `WriterInv` relates its memory to the disk at every step of a
  command, and the store implements `LifecycleSpec` (only `Save` is not a stutter);
  by that refinement it keeps `KeepsGuidancePromise` and `AppendOnly`. `FilesInv`
  says that every version listed in the manifest or in a memory has its two files,
  and that what a writer has found or put of the files it is writing is still so, hence
  `ListedHaveFiles` and `WrittenOnce` hold through every crash: files only come to be.
  For `NoIntegrityError` the manifest on disk and every copy also stay loadable: with
  no more entries than are allowed and no version beyond the last number. So also a
  reader of an older manifest meets no broken check, and what is left is a new entry
  in a full knowledge base.
* **`LabAdapterProofs`**: the lock invariant ties `pc`, `holder` and `conn` per
  thread; the evidence invariant says which guards a thread at each step has
  passed; the result invariant says whose result is in a box; and a loop
  invariant says that of the calls before the current one, those that were not
  abandoned are done, from which `BusyMeansAbandoned` follows.
* **`McpGatewayProofs`**: the store holds at most as many entries as the session
  has made collections; a session may make at most `MaxEntries`, so a `put` never
  evicts anything fresh. `EvidenceWhileFresh` compares references handed out with
  the store: every handed, unexpired reference is in it. `RowsWithinBudget` is about
  a sum over all the evidence a target gave: `RowsInv` puts the row counter of the
  target between that sum and the budget, and the lemmas on the fold say what an
  entry adds.
* **`FieldRegistryProofs`**: the stamp kept in the copy is never newer than the
  content it came with, since both `load` and `refresh` take the stat before
  they read. So an equal stamp proves an equal content. In `FieldLevels` a start
  that is not refused establishes the same invariant anew and every other step is
  a step of the registry or a stutter of it, hence `LevelsDiskDecides`.
  `SessionInv` says that the gateway is what its catalogs load to, whatever was
  observed since, that what was observed is well formed and that the copy in use is
  a valid registry or the empty one. From it follow
  `UnknownNeverGrants`, `NoCeilingMeansValidated` and `LearningNeverUpgrades`, with
  lemmas about `Catalog`: a validation that is compared as closest is one of the
  least difference (`BestIsClosest`), and learning a dimension never removes a
  difference (`DiffsStay`). What `NoCeilingMeansValidated` compares a context with is
  the latest observation of each dimension, or the declaration where that has no value:
  an earlier observation that was replaced is not remembered by the code either.
* **`AdviceFlowProofs`**: `SetsAreWhole` for any inputs, artifacts and crashes.
  The property says nothing of the running command, so `FlowInv` adds that its
  directory holds exactly the files written so far and is no directory where
  another command reported success. That no foreign file is overwritten rests on
  two facts only: the names are looked for before the first write, and every set
  has, and begins with, the manifest (a fact of `FlowInv` that the property does not
  state: it is what `AdviceManifest` shows to be at odds with the documentation). `ContentInv` says what the artifacts on disk,
  and the one being written, hold: the digest of an advisory covers all of it, a
  change that is approved is so by a decision on the digest of what the reviewer
  read, a change that is ready has its questions settled, and an e-stack is made
  of an approved and ready one. `ApprovedAsReviewed`, `EstackApprovedWhenReady` and
  `ReadyMeansSettled` are read off it.
* **`ReleaseEvidenceProofs`**: `OneRunPerOutput` for any number of runs. The
  property says nothing of the private directory, which is what enforces it, so
  the invariant adds: whoever is past its creation finds it there, and every file
  of the package is by somebody who is. It is never removed, so creation succeeds
  once. `EvidenceInv` follows a run through its steps: what its log says was true
  of the scripts when they ran, its two fingerprints enclose them, and a package is
  what `judge` made of these; hence `PassMeansTested`, `PassMeansReleasable` and
  `VerifierAgrees`.
* **`IncidentAnalysisProofs`**: the engine sanitises, normalises and numbers the
  items before it looks at them; `EvaluationIs` shows that what a rule is evaluated
  to is nevertheless a function of the set of the raw items. With `IncidentInv` (an
  accepted result is that of the present evidence, and the gateway's evidence is the
  fixture of all its rows, to which a row adds at most one item without renumbering
  the others, `BridgeGrows`) this gives `ConfirmedIsUncontested`, `RecoveryIsNoCause`
  and `ConfirmationIsLostForAReason`. The last two compare two results, so they need
  what an item more does to an evaluation: a recovery nothing, any other item can
  only add symptoms, sources, proofs and contradictions.
  `EventsAre` says the same of the timeline: with `EvidenceLegible` (what comes in has
  a time that can be compared or none) the set of its events is a function of the set
  of the raw items, and its order is that of a finite strict order given by counting
  (`RankingIs`). Hence `OrderIrrelevant` and `TimelineAccountsForEvidence`.
  `AdapterAgrees` goes through the checks of the adapter one by one: an event is made
  of sanitised items, a hypothesis of a rule of the catalog and of items that are
  present, a cause of hypotheses that passed the completeness gate, so what is left
  are identifiers, confirmations without support, actions that are commands, domains
  of rules and the lists the engine does not bound. With
  `ReportInv` (a report is that of all the rows so far, and intake alone decides
  the exit) it follows for the gateway, whose identifiers never offend and whose
  advisory has no context, so no gate in it is passed.
* **`CapacityHistoryProofs`**: the engine starts from nothing each time, so the
  inductive invariant, `HistoryInv`, only says that the result is the forecast of the
  samples that have come in. The work is to say what the engine makes of any list.
  The accepted samples are put in order by counting how many are sooner (`Places`,
  `InOrderIs`), so a segment and its daily points are functions of a set
  (`SegmentIs`, `PointsAre`); `NoForecastFromThinHistory` and `EpochsNeverMixed` are
  read off these, the latter with `FollowsIs`: a sample follows another when their
  places are next to each other. `ThresholdsFitTogether` needs three facts of
  arithmetic: the sum of squares of a fit is not negative (`SumOfSquares`, the
  inequality of Cauchy and Schwarz, on sums over the points), so that the line reaches
  a lower threshold sooner (`UntilKeepsOrder`); rounding is to the nearest and keeps
  the order (`RoundIs`, `RoundKeepsOrder`); and how far the line is from a threshold is
  the rounding error of its date (`MissIs`). For `FileOrderIrrelevant`, `Rearranged`
  says what an exchange keeps: the order of samples of one time, hence which is the
  duplicate, and the kind of unit of the first sound sample, hence every reason for an
  exclusion (`SameIssue`). What is accepted is then the same but for the indices
  (`Renames`), and no step of the forecast after the sort depends on these.

Where an argument is by induction over numbers or finite sets it is put as a
smallest counterexample (`LeastNat`, `SmallestSet` in `McpGatewayProofs` and `CapacityHistoryProofs`), because
the provers cannot instantiate an induction theorem that takes a predicate. Lists
that the proofs speak of are given by position or by a least index instead of
`SelectSeq`, and numbers and rankings by counting (`Bridge`, `RcaEngine`, `Catalog`,
`CapacityEngine`), for the same reason.

The type invariants, `BusyMeansAbandoned`, `FetchesWithinBudget`,
`ReloadMeansChange`, `OneRunPerOutput`, `IncidentInv`,
`EvidenceLegible`, `ReportInv`, `HistoryInv` and, of the copies in memory, `DecidedOnce` are stated
by theorems and by no run.

Only model-checked: liveness (`LoopResponds`, `LockReleased`), which the provers cannot
treat. Every other property of a passing run is stated by a theorem.

## 6. Plan

Order: the knowledge base first, because it keeps persistent state and carries
human decisions; then the gateway with its threads; then the deciding algorithms;
then what connects them.

1. Done: `KbManifest`, `KbLifecycle`, `KbGuidance`, `KbStore`, `LabAdapter`,
   `McpGateway`, `FieldRegistry`, and their proofs; `RunLog`, `ReleaseEvidence`.
2. Done: `RcaEngine`, `ChangeAdvisory`, `Bridge`, `IncidentAnalysis`, `Documents`,
   `AdviceFlow`, `Catalog`, `FieldLevels`, `CapacityEngine`, `CapacityHistory`.
3. Done: the safety of the knowledge base, of the gateway's budgets and levels, of
   the release packages, of the advice flow, of the conclusions, the timeline and
   the contract of the RCA engine, and of the forecasts of the capacity engine.
4. Not begun: the registry and governance validators of release readiness and
   `compute_readiness`.

## 7. Not modelled

* Text: parsers, the patterns of the sanitizer and of the read-only check of SQL,
  Markdown and wording of documents, reports and explanations. TLC cannot enumerate
  strings; what the code decides by a pattern is a class of values in the models.
* Human evidence (`human_evidence/`): two commands that write one private file
  each and meet only in it; what they decide is text.
* Private files: permissions, ownership and syntax of profile, credentials and SQL
  source, which are questions to the operating system.
* Build-time generators, agent definitions, certified SQL: no program with state.
* `--dry-run`, which stops before anything is written; secrecy of token maps; in
  the capacity engine percentiles, freshness and the reconciliation of two sources,
  which only the report shows.
