--------------------------- MODULE FieldRegistry ---------------------------
(***************************************************************************)
(* The field validation registry of a running gateway: the file on disk,   *)
(* which people and checkouts edit at any moment, and the copy in memory   *)
(* that Gateway.call refreshes before every tool.  load and refresh look   *)
(* at the file several times (stat, open and read, stat, open and read),   *)
(* and the file may change between any two looks.                          *)
(***************************************************************************)
EXTENDS Naturals

CONSTANTS
    Valid,       \* contents that are a valid registry
    Invalid,     \* contents that are not
    Missing,     \* there is no file
    Empty,       \* the registry without validations: everything DOCUMENTATION_ONLY
    None,
    MaxEdits,    \* bound of the model: changes of the file
    MaxCalls     \* bound of the model: tool calls

Contents == Valid \cup Invalid

ASSUME RegistryAssumption ==
    /\ Valid \cap Invalid = {}
    /\ Missing \notin Contents \cup {None}
    /\ Empty \notin Valid
    /\ None \notin Contents
    /\ MaxEdits \in Nat
    /\ MaxCalls \in Nat

VARIABLES
    file,      \* what the file holds
    stamp,     \* its size and modification time
    calls,     \* tool calls so far
    pc,        \* where the gateway is
    stat,      \* the result of its last _stat
    registry,  \* Gateway.field_registry
    seen       \* history: what the file has held since the call began

vars == <<file, stamp, calls, pc, stat, registry, seen>>

\* _stat
Stat == IF file = Missing THEN None ELSE stamp

\* The gateway starts by loading the file.
Init ==
    /\ file \in Contents \cup {Missing}
    /\ stamp = 0
    /\ calls = 0
    /\ pc = "load_stat"
    /\ stat = None
    /\ registry = [used |-> Empty, stat |-> None, sha256 |-> None, reloads |-> 0]
    /\ seen = {file}

\* The file is edited, replaced, removed or only touched.  An edit leaves a
\* size and time that the file did not have before.
Edit(c) ==
    /\ stamp < MaxEdits
    /\ file' = c
    /\ stamp' = stamp + 1
    /\ seen' = seen \cup {c}
    /\ UNCHANGED <<calls, pc, stat, registry>>

-----------------------------------------------------------------------------
Call ==
    /\ pc = "idle" /\ calls < MaxCalls
    /\ calls' = calls + 1
    /\ pc' = "stat"
    /\ seen' = {file}
    /\ UNCHANGED <<file, stamp, stat, registry>>

\* refresh: nothing to do if size and time are those of the copy.
RefreshStat ==
    /\ pc = "stat"
    /\ stat' = Stat
    /\ pc' = IF Stat # None /\ Stat = registry.stat THEN "tool" ELSE "digest"
    /\ UNCHANGED <<file, stamp, calls, registry, seen>>

\* Fault: a file that cannot be read leaves the old copy in use.
DigestFailOpen ==
    /\ pc = "digest"
    /\ \/ /\ file \in {registry.sha256, Missing}
          /\ registry' = [registry EXCEPT !.stat = stat]
          /\ pc' = "tool"
       \/ /\ file \notin {registry.sha256, Missing}
          /\ pc' = "load_stat"
          /\ UNCHANGED registry
    /\ UNCHANGED <<file, stamp, calls, stat, seen>>

\* refresh: the same content is only touched; the earlier stat is kept.
RefreshDigest ==
    /\ pc = "digest"
    /\ \/ /\ file = registry.sha256
          /\ registry' = [registry EXCEPT !.stat = stat]
          /\ pc' = "tool"
       \/ /\ file # registry.sha256
          /\ pc' = "load_stat"
          /\ UNCHANGED registry
    /\ UNCHANGED <<file, stamp, calls, stat, seen>>

LoadStat ==
    /\ pc = "load_stat"
    /\ stat' = Stat
    /\ pc' = "load_read"
    /\ UNCHANGED <<file, stamp, calls, registry, seen>>

\* load: what cannot be read or is not valid counts as no validation at all.
LoadRead ==
    /\ pc = "load_read"
    /\ registry' = [used |-> IF file \in Valid THEN file ELSE Empty, stat |-> stat,
                    sha256 |-> IF file = Missing THEN None ELSE file,
                    reloads |-> IF calls = 0 THEN 0 ELSE registry.reloads + 1]
    /\ pc' = IF calls = 0 THEN "idle" ELSE "tool"
    /\ UNCHANGED <<file, stamp, calls, stat, seen>>

\* The tool reads levels from the copy.
Tool ==
    /\ pc = "tool"
    /\ pc' = "idle"
    /\ UNCHANGED <<file, stamp, calls, stat, registry, seen>>

Gateway == Call \/ RefreshStat \/ RefreshDigest \/ LoadStat \/ LoadRead \/ Tool

Next == Gateway \/ \E c \in Contents \cup {Missing} : Edit(c)

Spec == Init /\ [][Next]_vars

-----------------------------------------------------------------------------
Stamps == (0..MaxEdits) \cup {None}

TypeOK ==
    /\ file \in Contents \cup {Missing}
    /\ stamp \in 0..MaxEdits
    /\ calls \in 0..MaxCalls
    /\ pc \in {"idle", "stat", "digest", "load_stat", "load_read", "tool"}
    /\ stat \in Stamps
    /\ registry \in [used: Valid \cup {Empty}, stat: Stamps,
                     sha256: Contents \cup {None}, reloads: 0..MaxCalls]
    /\ seen \subseteq Contents \cup {Missing}

\* What a content of the file means for field validation.
Meaning(c) == IF c \in Valid THEN c ELSE Empty

(***************************************************************************)
(* The registry on disk decides: the levels of a tool call come from what  *)
(* the file held at some moment of that call, never from before it, and an *)
(* unreadable or invalid file never leaves a validation in force.          *)
(***************************************************************************)
DiskDecides == pc = "tool" => \E c \in seen : registry.used = Meaning(c)

(***************************************************************************)
(* A file that was only touched is not loaded again: a reload means that   *)
(* during the call the file held something else than the copy.             *)
(***************************************************************************)
ReloadMeansChange ==
    [][registry'.reloads # registry.reloads =>
        \E c \in seen : c # registry.sha256]_vars
=============================================================================
