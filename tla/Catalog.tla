------------------------------ MODULE Catalog ------------------------------
(***************************************************************************)
(* mcp_gateway.catalog and versions: what a collector and a target are     *)
(* when the gateway starts, what makes it refuse to start, and what a      *)
(* collector may do on a target; mcp_gateway.field_validation: how far its *)
(* SQL has been tried on a real database like that target.                 *)
(*                                                                         *)
(* A version is a form and a major number, a release update a pair of      *)
(* numbers or None if it does not read as one, the text of a licence       *)
(* requirement the set of the words that matter in it.  Targets do not     *)
(* depend on each other: there is one.  A function of the code that raises *)
(* is an operator for the refusal and one for the value.                   *)
(***************************************************************************)
EXTENDS Integers, SequencesExt

CONSTANT None

---------------------------------------------------------------------------
(* versions *)

FAMILY_BY_MAJOR == [major \in {10, 11, 12, 18, 19, 21, 23} |->
    CASE major = 10 -> "10g" [] major = 11 -> "11g" [] major = 12 -> "12c"
      [] major = 18 -> "18c" [] major = 19 -> "19c" [] major = 21 -> "21c"
      [] major = 23 -> "23ai"]

ORACLE_VERSIONS == Range(FAMILY_BY_MAJOR)

\* "19c" is a token, which must be the name of the family of its number, and
\* "19.3.0.0.0" is dotted; everything else ("latest", an empty text) is neither.
family_of(v) ==
    IF /\ v.form \in {"token", "dotted"}
       /\ v.major \in DOMAIN FAMILY_BY_MAJOR
       /\ v.form = "token" => v.name = FAMILY_BY_MAJOR[v.major]
    THEN FAMILY_BY_MAJOR[v.major] ELSE None

---------------------------------------------------------------------------
(* collectors *)

\* Lists of versions: none, or one that is not of a family, is an error.
_families_refused(values) == values = {} \/ \E v \in values : family_of(v) = None
_families(values) == {family_of(v) : v \in values}

Base(spec, query) ==
    IF query # None THEN _families(query.versions)
    ELSE IF spec.scope = "ANY" THEN ORACLE_VERSIONS ELSE {}

\* A query without versions supports none.  The list of the collector is read
\* only if there is something to narrow.
_effective_versions_refused(spec, query) ==
    \/ query # None /\ query.versions # {} /\ _families_refused(query.versions)
    \/ spec.versions # None /\ Base(spec, query) # {} /\ _families_refused(spec.versions)

_effective_versions(spec, query) ==
    IF spec.versions = None THEN Base(spec, query)
    ELSE Base(spec, query) \cap _families(spec.versions)

Collector(spec, query) ==
    [id        |-> spec.id,
     kind      |-> spec.kind,
     versions  |-> _effective_versions(spec, query),
     role      |-> IF query = None THEN "ANY" ELSE query.role,
     container |-> IF query = None THEN "NOT_APPLICABLE" ELSE query.container,
     licence   |-> IF query = None THEN {} ELSE query.licence,
     sha256    |-> IF query = None THEN None ELSE query.sql]

\* What may leave the gateway in a field: a type that carries names never as it is,
\* and the vocabulary of Oracle only in the fields meant for it.
Vocabulary ==
    [parameter_name |-> {"parameter_name"},
     oracle_term    |-> {"event", "namespace", "privilege", "action_name", "policy_name",
                         "cause", "config_name", "oracle_role"},
     sql_id         |-> {"sql_id", "waiter_sql_id"}]

FIELD_TYPES ==
    {"identifier", "version_string", "enum", "integer", "integer_or_unlimited", "number",
     "boolean", "timestamp_utc", "signature", "text", "interval_string"}
    \cup DOMAIN Vocabulary

POLICIES == {"KEEP", "MASK", "HASH", "TOKENIZE", "DROP", "SIGNATURE"}

violates(f) ==
    \/ f.type \notin FIELD_TYPES \/ f.policy \notin POLICIES
    \/ f.type = "identifier" /\ f.policy \notin {"MASK", "HASH", "TOKENIZE", "DROP"}
    \/ f.type = "text" /\ f.policy # "DROP"
    \/ f.type = "signature" /\ f.policy \notin {"SIGNATURE", "DROP"}
    \/ f.policy = "SIGNATURE" /\ f.type # "signature"
    \/ \E v \in DOMAIN Vocabulary :
          \/ f.type = v /\ (f.name \notin Vocabulary[v] \/ f.policy \notin {"KEEP", "DROP"})
          \/ f.name \in Vocabulary[v] /\ f.type # v

QueryBacked(spec) == spec.kind \in {"sql_query", "alert_log_excerpt"}

\* The certified query of a collector, None for one of the operating system.
QueryOf(spec, queries) == IF QueryBacked(spec) THEN queries[spec.id] ELSE None

Uncertified(spec, queries) ==
    \/ spec.id \notin DOMAIN queries
    \/ LET q == queries[spec.id]
       IN  \/ q.status # "active" \/ q.risk # "R0" \/ q.mode # "READ_ONLY"
           \/ spec.kind = "sql_query" /\ q.max_rows < spec.row_limit
           \/ ~q.read_only

\* specs: the written catalog followed by the generated one.
load_collectors_refused(specs, queries) ==
    \/ \E i, j \in DOMAIN specs : i # j /\ specs[i].id = specs[j].id
    \/ \E s \in ToSet(specs) :
          \/ s.kind \notin {"sql_query", "alert_log_excerpt", "semantic_os"}
          \/ \E f \in s.output_fields : violates(f)
          \/ QueryBacked(s) /\ Uncertified(s, queries)
          \/ _effective_versions_refused(s, QueryOf(s, queries))

load_collectors(specs, queries) == {Collector(s, QueryOf(s, queries)) : s \in ToSet(specs)}

---------------------------------------------------------------------------
(* targets *)

load_targets_refused(spec, collectors) ==
    LET ids == {c.id : c \in collectors}
    IN  \/ spec.version # None /\ family_of(spec.version) = None
        \/ spec.role \notin {"PRIMARY", "STANDBY", "UNKNOWN"}
        \/ spec.connection_material
        \/ ~(spec.allowed \cup spec.missing_privileges \subseteq ids)

Target(spec) ==
    [f \in DOMAIN spec \ {"connection_material"} |->
        IF f = "version" /\ spec.version # None THEN family_of(spec.version) ELSE spec[f]]

---------------------------------------------------------------------------
(* capability *)

\* The keys of license_status that a person must have confirmed.
license_keys(words) ==
    LET keys == (IF "tuning" \in words THEN {"tuning_pack", "diagnostics_pack"} ELSE {})
                \cup (IF words \cap {"diagnostic", "awr", "ash"} # {}
                      THEN {"diagnostics_pack"} ELSE {})
                \cup (IF "active data guard" \in words THEN {"active_data_guard"} ELSE {})
    IN  IF keys = {} THEN {"other_option"} ELSE keys

Running == {"VERIFIED_FIXTURE", "VERIFIED_LAB", "LAB_ENABLED"}

When(condition, status) == IF condition THEN <<status>> ELSE <<>>

LicenceMissing(target, col) ==
    /\ col.licence # {}
    /\ \E k \in license_keys(col.licence) :
          k \notin DOMAIN target.license_status \/ target.license_status[k] # "CONFIRMED"

\* Fault: a target whose role nobody declared has the role that is asked for.
evaluate_capability_RoleAssumed(target, col, adapter_status) ==
    Head(When(~target.enabled \/ adapter_status \notin Running, "DISABLED")
         \o When(col.id \notin target.allowed, "UNSUPPORTED")
         \o When(target.version = None, "ENVIRONMENT_UNKNOWN")
         \o When(target.version \notin col.versions, "UNSUPPORTED")
         \o When(col.container = "CDB_ROOT_ONLY" /\ target.container # "CDB_ROOT", "NOT_APPLICABLE")
         \o When(col.role # "ANY" /\ target.role \notin {col.role, "UNKNOWN"}, "NOT_APPLICABLE")
         \o When(col.id \in target.missing_privileges, "INSUFFICIENT_PRIVILEGES")
         \o When(LicenceMissing(target, col), "LICENSE_RESTRICTED")
         \o <<"SUPPORTED">>)

\* The first reason not to run the collector on the target, in the order of the code.
evaluate_capability(target, col, adapter_status) ==
    LET root == col.container = "CDB_ROOT_ONLY"
        role == col.role # "ANY"
    IN  Head(When(~target.enabled \/ adapter_status \notin Running, "DISABLED")
             \o When(col.id \notin target.allowed, "UNSUPPORTED")
             \o When(target.version = None, "ENVIRONMENT_UNKNOWN")
             \o When(target.version \notin col.versions, "UNSUPPORTED")
             \o When(root /\ target.container = "UNKNOWN", "ENVIRONMENT_UNKNOWN")
             \o When(root /\ target.container # "CDB_ROOT", "NOT_APPLICABLE")
             \o When(role /\ target.role = "UNKNOWN", "ENVIRONMENT_UNKNOWN")
             \o When(role /\ target.role # col.role, "NOT_APPLICABLE")
             \o When(col.id \in target.missing_privileges, "INSUFFICIENT_PRIVILEGES")
             \o When(LicenceMissing(target, col), "LICENSE_RESTRICTED")
             \o <<"SUPPORTED">>)

---------------------------------------------------------------------------
(* field validation *)

\* A registry: the contexts by name, and the validations in order.
_valid(doc) ==
    /\ \A c \in DOMAIN doc.contexts : /\ family_of(doc.contexts[c].version) # None
                                      /\ doc.contexts[c].release_update # None
    /\ \A v \in ToSet(doc.validations) :
          v.context \in DOMAIN doc.contexts /\ v.evidence_refs # {}

Less(p, q) == p[1] < q[1] \/ (p[1] = q[1] /\ p[2] < q[2])

BooleanDims == {"rac", "asm", "dataguard"}

\* The dimensions in which a context and a target differ, and those nobody knows.
_compare(ctx, target) ==
    LET same == target.version # None /\ family_of(ctx.version) = target.version
        known(d) == target[d] \notin {None, "UNKNOWN"}
        arch(d) == d \in DOMAIN target.architecture
    IN  [diff |-> {d \in {"version"} : target.version # None /\ ~same}
                  \cup {d \in {"release_update"} :
                          /\ same /\ target.release_update # None
                          /\ Less(target.release_update, ctx.release_update)}
                  \cup {d \in {"container", "role"} : known(d) /\ target[d] # ctx[d]}
                  \cup {d \in BooleanDims : arch(d) /\ target.architecture[d] # ctx.architecture[d]}
                  \cup {d \in {"os"} : target.os.family # None /\ target.os # ctx.os},
         unknown |-> {d \in {"version"} : target.version = None}
                  \cup {d \in {"release_update"} : same /\ target.release_update = None}
                  \cup {d \in {"container", "role"} : ~known(d)}
                  \cup {d \in BooleanDims : ~arch(d)}
                  \cup {d \in {"os"} : target.os.family = None}]

\* The places of the validations of the collector's query.
Validations(registry, col) ==
    {i \in DOMAIN registry.validations : registry.validations[i].query = col.id}

NotValidated(reason) ==
    [level |-> "DOCUMENTATION_ONLY", reason |-> reason, context |-> None,
     differences |-> {}, not_compared |-> {}]

\* Fault: a validation of an earlier SQL counts.
Current_AnySql(registry, col) == Validations(registry, col)

\* Those of the SQL as it is now.
Current(registry, col) ==
    {i \in Validations(registry, col) : registry.validations[i].sha256 = col.sha256}

\* Fault: the context with the fewest unknown dimensions is the best.
Rank_UnknownFirst(c) == <<Cardinality(c.unknown), Cardinality(c.diff)>>

Rank(c) == <<Cardinality(c.diff), Cardinality(c.unknown)>>

Comparison(registry, target, i) ==
    _compare(registry.contexts[registry.validations[i].context], target)

\* The first of the contexts that are closest to the target.
Best(registry, current, target) ==
    LET rank(i) == Rank(Comparison(registry, target, i))
    IN  Min({i \in current : ~\E j \in current : Less(rank(j), rank(i))})

assess(registry, col, target) ==
    LET current == Current(registry, col)
        best == Best(registry, current, target)
        c == Comparison(registry, target, best)
    IN  IF col.kind # "sql_query" \/ col.sha256 = None
        THEN NotValidated("NOT_A_CERTIFIED_QUERY")
        ELSE IF Validations(registry, col) = {}
        THEN NotValidated("NO_FIELD_VALIDATION_RECORDED")
        ELSE IF current = {} THEN NotValidated("SQL_CHANGED_SINCE_FIELD_VALIDATION")
        ELSE [level   |-> IF c.diff = {} THEN "FIELD_VALIDATED"
                          ELSE "FIELD_VALIDATED_OTHER_CONTEXT",
              reason  |-> IF c.diff = {} THEN "CONTEXT_MATCHES" ELSE "CONTEXT_DIFFERS",
              context |-> registry.validations[best].context,
              differences |-> c.diff, not_compared |-> c.unknown]

---------------------------------------------------------------------------
(* architecture: what a row of a discovery query says of the target *)

\* The row of Q-DISC-ARCHITECTURE-001; a fact that was dropped is None, and then
\* what rests on it is None too, never FALSE.
derive(row) ==
    LET clustered == row.cluster_database = "TRUE" \/ (row.instance_count # None /\ row.instance_count > 1)
        role == IF row.database_role \in {None, "PRIMARY"} THEN row.database_role ELSE "STANDBY"
    IN  [rac       |-> IF row.instance_count = None /\ row.cluster_database \notin {"TRUE", "FALSE"}
                       THEN None ELSE clustered,
         asm       |-> IF row.datafiles_in_asm = None THEN None ELSE row.datafiles_in_asm > 0,
         dataguard |-> IF role = None THEN None
                       ELSE \/ role = "STANDBY"
                            \/ row.standby_destinations # None /\ row.standby_destinations > 0,
         role      |-> role,
         os_family |-> IF row.os_family \in {"AIX", "HPUX", "LINUX", "MACOS", "SOLARIS", "WINDOWS"}
                       THEN row.os_family ELSE None,
         release_update |-> None]

\* version: the first two numbers of the version in the row of Q-DISC-IDENTITY-001.
\* Before 18c the release update is not among them.
release_update_from_identity(version) ==
    IF version = None THEN None ELSE IF version[1] < 18 THEN None ELSE version

\* What is observed and declared, and not the same.
compare(observed, target) ==
    {d \in BooleanDims : /\ observed[d] # None /\ d \in DOMAIN target.architecture
                         /\ observed[d] # target.architecture[d]}
    \cup {d \in {"role"} : observed.role # None /\ target.role \notin {"UNKNOWN", observed.role}}
    \cup {d \in {"os"} : observed.os_family # None /\ target.os.family \notin {None, observed.os_family}}

\* The target field validation compares with: what was observed on it in the session
\* takes the place of what its file says.
ObservedTarget(target, observed) ==
    LET Known(d) == observed[d] # None
    IN  [target EXCEPT
           !.architecture = [d \in DOMAIN target.architecture \cup {b \in BooleanDims : Known(b)}
                               |-> IF d \in BooleanDims /\ Known(d) THEN observed[d]
                                   ELSE target.architecture[d]],
           !.role = IF Known("role") THEN observed.role ELSE @,
           !.os = IF Known("os_family") /\ observed.os_family # @.family
                  THEN [family |-> observed.os_family, distribution |-> None] ELSE @,
           !.release_update = IF Known("release_update") THEN observed.release_update ELSE @]
=============================================================================
