--------------------------- MODULE MCFieldLevels ---------------------------
(* Lab and fixture gateways with one target and four collectors, for TLC. *)
EXTENDS FieldLevels

Token(n, text) == [form |-> "token", major |-> n, name |-> text]
Dotted(n) == [form |-> "dotted", major |-> n]
Latest == [form |-> "other"]

Query(sql, versions, role, container, licence) ==
    [status |-> "active", risk |-> "R0", mode |-> "READ_ONLY", read_only |-> TRUE,
     max_rows |-> 10, sql |-> sql, versions |-> versions, role |-> role,
     container |-> container, licence |-> licence]

Recent == {Token(19, "19c"), Dotted(21)}

Queries == [id \in {"Q-DISC-ARCHITECTURE-001", "Q-DISC-IDENTITY-001", "Q-AWR"} |->
    CASE id = "Q-DISC-ARCHITECTURE-001" -> Query("a1", Recent, "ANY", "ANY", {})
      [] id = "Q-DISC-IDENTITY-001" -> Query("i1", Recent, "ANY", "ANY", {})
      [] OTHER -> Query("w1", Recent, "PRIMARY", "CDB_ROOT_ONLY", {"tuning"})]

Field(n, t, p) == [name |-> n, type |-> t, policy |-> p]

CollectorSpec(id, kind, scope, versions, fields) ==
    [id |-> id, kind |-> kind, scope |-> scope, versions |-> versions, row_limit |-> 5,
     output_fields |-> fields]

Specs == <<
    CollectorSpec("Q-DISC-ARCHITECTURE-001", "sql_query", None, None,
                  {Field("database_role", "enum", "KEEP"), Field("host", "identifier", "MASK")}),
    CollectorSpec("Q-DISC-IDENTITY-001", "sql_query", None, None,
                  {Field("version", "version_string", "KEEP")}),
    CollectorSpec("Q-AWR", "sql_query", None, {Dotted(19)},
                  {Field("event", "oracle_term", "KEEP"), Field("message", "text", "DROP")}),
    CollectorSpec("OS-NPROC", "semantic_os", "ANY", None, {Field("nproc", "integer", "KEEP")})>>

Full == [adapter |-> "oracle_sql", enabled |-> TRUE, version |-> Token(19, "19c"),
         role |-> "PRIMARY", container |-> "CDB_ROOT", release_update |-> <<19, 3>>,
         architecture |-> [rac |-> FALSE, asm |-> TRUE],
         os |-> [family |-> "LINUX", distribution |-> "OL"],
         license_status |-> [tuning_pack |-> "CONFIRMED", diagnostics_pack |-> "CONFIRMED"],
         allowed |-> {"Q-DISC-ARCHITECTURE-001", "Q-DISC-IDENTITY-001", "Q-AWR"},
         missing_privileges |-> {}, connection_material |-> FALSE]

Bare == [Full EXCEPT !.release_update = None, !.architecture = <<>>,
                     !.os = [family |-> None, distribution |-> None]]

Setup(target, profile) ==
    [specs |-> Specs, queries |-> Queries, target |-> target, profile |-> profile]

Lab(target) == Setup(target, [version |-> "19c", role |-> "PRIMARY", container |-> "CDB_ROOT"])

Fixture(target) ==
    Setup([target EXCEPT !.adapter = "fixture", !.allowed = @ \cup {"OS-NPROC"}], None)

MCSetups == {
    Lab(Full), Lab(Bare), Lab([Bare EXCEPT !.architecture = [rac |-> TRUE]]),
    Lab([Full EXCEPT !.role = "STANDBY"]),
    [Lab(Full) EXCEPT !.queries["Q-DISC-IDENTITY-001"].sql = "i2",
                      !.queries["Q-AWR"].versions = {}],
    [Lab(Full) EXCEPT !.specs[1].output_fields = {Field("host", "identifier", "KEEP")}],
    Setup(Full, None), Fixture(Full),
    Fixture([Full EXCEPT !.role = "STANDBY"]), Fixture([Full EXCEPT !.role = "UNKNOWN"]),
    Fixture([Full EXCEPT !.license_status = [tuning_pack |-> "CONFIRMED"]]),
    Fixture([Full EXCEPT !.container = "UNKNOWN",
                         !.missing_privileges = {"Q-DISC-IDENTITY-001"}]),
    Fixture([Full EXCEPT !.version = None]), Fixture([Full EXCEPT !.version = Latest])}

LabContext == [version |-> Token(19, "19c"), release_update |-> <<19, 3>>, container |-> "CDB_ROOT",
               role |-> "PRIMARY", architecture |-> [rac |-> FALSE, asm |-> TRUE, dataguard |-> FALSE],
               os |-> [family |-> "LINUX", distribution |-> "OL"]]

Contexts == [lab |-> LabContext,
             next |-> [LabContext EXCEPT !.version = Dotted(21), !.release_update = <<21, 1>>]]

Validation(query, sql, context, refs) ==
    [query |-> query, sha256 |-> sql, context |-> context, evidence_refs |-> refs]

Docs == {
    [contexts |-> Contexts,
     validations |-> <<Validation("Q-DISC-ARCHITECTURE-001", "a1", "lab", {"EVR"}),
                       Validation("Q-DISC-IDENTITY-001", "i0", "lab", {"EVR"}),
                       Validation("Q-DISC-IDENTITY-001", "i1", "next", {"EVR"}),
                       Validation("Q-DISC-IDENTITY-001", "i1", "lab", {"EVR"})>>],
    [contexts |-> Contexts,
     validations |-> <<Validation("Q-DISC-IDENTITY-001", "i2", "next", {"EVR"})>>],
    [contexts |-> Contexts,
     validations |-> <<Validation("Q-DISC-ARCHITECTURE-001", "a1", "lab", {})>>]}

MCValid == {d \in Docs : _valid(d)}
MCInvalid == Docs \ MCValid
MCEmpty == [contexts |-> <<>>, validations |-> <<>>]

Row(inst, flag, asm, role, dests, os) ==
    [instance_count |-> inst, cluster_database |-> flag, datafiles_in_asm |-> asm,
     database_role |-> role, standby_destinations |-> dests, os_family |-> os]

MCArchitectureRows == {
    Row(1, "FALSE", 3, "PRIMARY", 0, "LINUX"),
    Row(2, None, None, "PRIMARY", 1, "OTHER"),
    Row(None, None, 0, None, None, "AIX")}

MCIdentityVersions == {<<19, 2>>, <<19, 4>>, None}

MCSupported == DOMAIN Queries
=============================================================================
