---------------------------- MODULE FieldLevels ----------------------------
(***************************************************************************)
(* A gateway process from its catalogs to the level of field validation it *)
(* states in an answer.  The catalogs are read once, when it starts; the   *)
(* registry of field validations is looked at again in every call, in the  *)
(* steps of FieldRegistry, while people edit the file; and what a          *)
(* collection on a real target observes counts for the rest of the         *)
(* session.  People also change the file of the target and start again.    *)
(*                                                                         *)
(* Budgets and the life of evidence are McpGateway's.                      *)
(***************************************************************************)
EXTENDS FieldRegistry, Integers, SequencesExt

CONSTANTS
    Setups,            \* contents of the catalogs: specs, queries, target; and the lab
                       \* profile, None for the gateway without real adapters
    SUPPORTED_COLLECTORS,  \* queries the oracle_sql adapter implements
    ArchitectureRows,  \* rows of Q-DISC-ARCHITECTURE-001
    IdentityVersions,  \* versions in rows of Q-DISC-IDENTITY-001, None if dropped
    MaxStarts          \* bound of the model: starts of the gateway

INSTANCE Catalog

\* The fields of a target's file, each with what catalog.Target takes for one
\* that is not there; and the parts of a registry.
ASSUME LevelsAssumption ==
    /\ MaxStarts \in Nat
    /\ None \notin BOOLEAN /\ None # "PROBABLE_CAUSE"
    /\ \A s \in Setups :
          /\ \A d \in DOMAIN s.target.architecture : s.target.architecture[d] \in BOOLEAN
          /\ s.target.enabled \in BOOLEAN
          /\ {"adapter", "enabled", "version", "role", "container", "release_update",
              "architecture", "os", "license_status", "allowed", "missing_privileges"}
                \subseteq DOMAIN s.target
    /\ \A doc \in Valid : /\ Len(doc.validations) \in Nat
                         /\ DOMAIN doc.validations = 1..Len(doc.validations)
    /\ Empty.validations = <<>>

VARIABLES
    setup,      \* the catalogs on disk, as this process read them
    gateway,    \* Gateway.collectors, and the target of Gateway.targets
    starts,     \* starts of the gateway
    observed,   \* Session.observed_architecture of the target
    evidence,   \* identifiers of the collectors whose evidence is in the store
    answer      \* what the last tool said

session == <<setup, gateway, starts, observed, evidence, answer>>

all == <<vars, session>>

COLLECTOR_ID == "Q-DISC-ARCHITECTURE-001"
IDENTITY_COLLECTOR_ID == "Q-DISC-IDENTITY-001"

Nothing == [d \in BooleanDims \cup {"role", "os_family", "release_update"} |-> None]

\* The lab launcher refuses a target that is not the one of its profile.
build_lab_gateway_refused(t, profile) ==
    \/ t.adapter # "oracle_sql" \/ ~t.enabled
    \/ t.allowed = {} \/ ~(t.allowed \subseteq SUPPORTED_COLLECTORS)
    \/ t.version # profile.version \/ t.role # profile.role \/ t.container # profile.container

\* Is there a gateway with these catalogs?
Refused(s) ==
    \/ load_collectors_refused(s.specs, s.queries)
    \/ load_targets_refused(s.target, load_collectors(s.specs, s.queries))
    \/ s.profile # None /\ build_lab_gateway_refused(Target(s.target), s.profile)

\* What each setup makes of the gateway.
Loaded ==
    [s \in Setups |->
        IF Refused(s) THEN [collectors |-> {}, target |-> None]
        ELSE [collectors |-> load_collectors(s.specs, s.queries), target |-> Target(s.target)]]

\* AdapterRegistry: real adapters run in the lab launcher only.
status_of(s) ==
    CASE s.target.adapter = "fixture" -> "VERIFIED_FIXTURE"
      [] s.target.adapter = "oracle_sql" -> IF s.profile # None THEN "LAB_ENABLED" ELSE "DISABLED"
      [] s.target.adapter \in {"oracle_diag_file", "os_readonly"} -> "CONTRACT_ONLY"
      [] OTHER -> "UNSUPPORTED"

Capability(col) == evaluate_capability(gateway.target, col, status_of(setup))

_fv_target(seen_on_target) == ObservedTarget(gateway.target, seen_on_target)

-----------------------------------------------------------------------------
StartsWith(s) ==
    /\ pc' = IF Loaded[s].target = None THEN "down" ELSE "load_stat"
    /\ setup' = s
    /\ gateway' = Loaded[s]
    /\ observed' = Nothing
    /\ evidence' = {}
    /\ answer' = None

LevelsInit ==
    /\ Init
    /\ setup \in {s \in Setups : ~Refused(s)}
    /\ gateway = Loaded[setup]
    /\ starts = 1
    /\ observed = Nothing
    /\ evidence = {}
    /\ answer = None

\* The gateway is started again, after one of its files was changed or not.
Restart(s) ==
    /\ pc \in {"idle", "down"} /\ starts < MaxStarts
    /\ StartsWith(s)
    /\ starts' = starts + 1
    /\ calls' = 0
    /\ stat' = None
    /\ registry' = [used |-> Empty, stat |-> None, sha256 |-> None, reloads |-> 0]
    /\ seen' = {file}
    /\ UNCHANGED <<file, stamp>>

\* A request comes in; the last answer is history.
NewCall == Call /\ answer' = None /\ UNCHANGED <<setup, gateway, starts, observed, evidence>>

Refreshes ==
    /\ RefreshStat \/ RefreshDigest \/ LoadStat \/ LoadRead
    /\ UNCHANGED session

EditRegistry(c) == Edit(c) /\ UNCHANGED session

-----------------------------------------------------------------------------
(* The tools; Tool is the step of FieldRegistry that ends the call. *)

\* What the session knows of the target after the rows of a collection.  Fixtures
\* never override a declaration.
Observe(col, row) ==
    IF setup.target.adapter = "fixture" THEN observed
    ELSE IF col.id = COLLECTOR_ID
    THEN [derive(row) EXCEPT !.release_update = observed.release_update]
    ELSE IF col.id = IDENTITY_COLLECTOR_ID /\ release_update_from_identity(row) # None
    THEN [observed EXCEPT !.release_update = release_update_from_identity(row)]
    ELSE observed

\* The rows a collector may bring; LabAdapter checks that they are of the target.
RowsOf(col) ==
    CASE col.id = COLLECTOR_ID -> ArchitectureRows
      [] col.id = IDENTITY_COLLECTOR_ID -> IdentityVersions
      [] OTHER -> {None}

\* The declared values that the row contradicts.
Mismatches(col, row) ==
    CASE col.id = COLLECTOR_ID -> compare(derive(row), gateway.target)
      [] col.id = IDENTITY_COLLECTOR_ID ->
            {d \in {"release_update"} : {row, setup.target.release_update} \cap {None} = {}
                 /\ release_update_from_identity(row) \notin {None, setup.target.release_update}}
      [] OTHER -> {}

Collect(col, row) ==
    /\ Tool
    /\ Capability(col) = "SUPPORTED"
    /\ observed' = Observe(col, row)
    /\ evidence' = evidence \cup {col.id}
    /\ answer' = [tool |-> "collect", collectors |-> {col.id}, ceiling |-> None,
                  levels |-> {assess(registry.used, col, t).level
                                : t \in {_fv_target(observed')}},
                  limitations |-> Mismatches(col, row)]
    /\ UNCHANGED <<setup, gateway, starts>>

\* _authorize refuses: nothing changes.
CollectRefused(col) ==
    /\ Tool
    /\ Capability(col) # "SUPPORTED"
    /\ answer' = [tool |-> "refused", collectors |-> {col.id}, ceiling |-> None,
                  levels |-> {}, limitations |-> {Capability(col)}]
    /\ UNCHANGED <<setup, gateway, starts, observed, evidence>>

\* describe_collector compares with the target as declared.
Describe(col) ==
    /\ Tool
    /\ answer' = [tool |-> "describe", collectors |-> {col.id}, ceiling |-> None,
                  levels |-> {assess(registry.used, col, gateway.target).level},
                  limitations |-> {}]
    /\ UNCHANGED <<setup, gateway, starts, observed, evidence>>

Levels(cols) ==
    {assess(registry.used, c, t).level : c \in cols, t \in {_fv_target(observed)}}

\* get_evidence on one collector, analyze_incident on several.
Analyze(cols) ==
    /\ Tool
    /\ setup.target.enabled
    /\ answer' = [tool |-> "analyze", collectors |-> {c.id : c \in cols},
                  ceiling |-> IF Levels(cols) = {"FIELD_VALIDATED"} THEN None
                              ELSE "PROBABLE_CAUSE",
                  levels |-> Levels(cols), limitations |-> {}]
    /\ UNCHANGED <<setup, gateway, starts, observed, evidence>>

Gathered == {c \in gateway.collectors : c.id \in evidence}

LevelsNext ==
    \/ \E s \in Setups : Restart(s)
    \/ NewCall \/ Refreshes
    \/ \E c \in Contents \cup {Missing} : EditRegistry(c)
    \/ \E col \in gateway.collectors : \E row \in RowsOf(col) : Collect(col, row)
    \/ \E col \in gateway.collectors : CollectRefused(col) \/ Describe(col)
    \/ \E cols \in SUBSET Gathered : cols # {} /\ Analyze(cols)

LevelsSpec == LevelsInit /\ [][LevelsNext]_all

-----------------------------------------------------------------------------
\* What is known of a target of which o was observed: observed, else declared.
Known(declared, o, d) ==
    CASE d \in BooleanDims -> IF o[d] # None THEN o[d]
                              ELSE IF d \in DOMAIN declared.architecture
                              THEN declared.architecture[d] ELSE None
      [] d = "os" -> IF o.os_family # None THEN o.os_family ELSE declared.os.family
      [] d = "role" -> IF o.role # None THEN o.role
                       ELSE IF declared.role = "UNKNOWN" THEN None ELSE declared.role
      [] d = "release_update" -> IF o[d] # None THEN o[d] ELSE declared[d]
      [] OTHER -> IF declared[d] = "UNKNOWN" THEN None ELSE declared[d]

Knows(d) == Known(gateway.target, observed, d)

\* The target is not known to be unlike the context.
Compatible(ctx) ==
    /\ \A d \in BooleanDims : Knows(d) \in {None, ctx.architecture[d]}
    /\ \A d \in {"role", "container"} : Knows(d) \in {None, ctx[d]}
    /\ Knows("os") \in {None, ctx.os.family}
    /\ Knows("version") \in {None, family_of(ctx.version)}
    /\ Knows("version") # None /\ Knows("release_update") # None
          => ~Less(Knows("release_update"), ctx.release_update)

(***************************************************************************)
(* An analysis without a ceiling rests, for each of its collectors, on a   *)
(* validation that the registry file held at some moment of the call, of   *)
(* the very SQL the gateway loaded, in a context that is not contradicted  *)
(* by what the gateway holds of the target at that moment: of each         *)
(* dimension its latest observation, and the declaration where that has no *)
(* value (field_validation.assess and refresh,                             *)
(* Gateway._tool_analyze_incident).  An earlier observation that the       *)
(* latest one replaced, with no value too, is not held and does not count. *)
(***************************************************************************)
NoCeilingMeansValidated ==
    [][ (/\ pc = "tool" /\ pc' = "idle"
         /\ answer'.tool = "analyze" /\ answer'.ceiling = None) =>
          \A id \in answer'.collectors :
              \E doc \in seen \cap Valid : \E v \in ToSet(doc.validations) :
                  /\ v.query = id /\ v.sha256 = setup.queries[id].sql
                  /\ Compatible(doc.contexts[v.context]) ]_all

Order == [DOCUMENTATION_ONLY |-> 0, FIELD_VALIDATED_OTHER_CONTEXT |-> 1, FIELD_VALIDATED |-> 2]

\* The level of a collector once it is known that o was observed.
Level(col, o) ==
    CHOOSE n \in {Order[assess(registry.used, col, t).level] : t \in {_fv_target(o)}} : TRUE

\* Dimensions are learnt and none that was known changes.
Learns ==
    /\ observed' # observed /\ gateway' = gateway /\ registry' = registry
    /\ \A d \in BooleanDims \cup {"role", "os", "release_update"} : Knows(d) \in {None, Knows(d)'}

(***************************************************************************)
(* "A dimension that is not declared never turns a difference into a       *)
(* match" (policies/field-validation-policy.md): what is learnt of a       *)
(* target where nothing was known never raises the level of a collector.   *)
(***************************************************************************)
LearningNeverUpgrades ==
    [][Learns => \A o \in {observed'}, col \in gateway.collectors :
                     Level(col, o) <= Level(col, observed)]_all

\* s says less than t of the target, or takes something from it.
SaysLess(s, t) ==
    /\ s.specs = t.specs /\ s.queries = t.queries /\ s.profile = t.profile
    /\ s.target.adapter = t.target.adapter
    /\ s.target.enabled => t.target.enabled
    /\ s.target.version \in {None, t.target.version}
    /\ s.target.role \in {"UNKNOWN", t.target.role}
    /\ s.target.container \in {"UNKNOWN", t.target.container}
    /\ s.target.allowed \subseteq t.target.allowed
    /\ t.target.missing_privileges \subseteq s.target.missing_privileges
    /\ \A k \in DOMAIN s.target.license_status :
          k \in DOMAIN t.target.license_status /\ s.target.license_status[k] = t.target.license_status[k]

(***************************************************************************)
(* A target that is "unknown, disabled, has an unknown version/role, or an *)
(* unconfirmed license never silently degrades into allowed": a start with *)
(* a file that says less of the target, or allows less, gives no collector *)
(* a capability it did not have (catalog.evaluate_capability).             *)
(***************************************************************************)
UnknownNeverGrants ==
    [][ (starts' # starts /\ gateway.target # None /\ SaysLess(setup', setup)) =>
          \A col \in gateway'.collectors :
              Capability(col)' = "SUPPORTED" => Capability(col) = "SUPPORTED" ]_all
=============================================================================
