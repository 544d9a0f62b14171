----------------------------- MODULE McpGateway -----------------------------
(***************************************************************************)
(* One session of the MCP diagnostic gateway: the protocol states of       *)
(* McpServer, the budgets of a session, the evidence store with its time   *)
(* to live and its bound, and the architecture observed on a target, which *)
(* takes the place of the declared one in field validation.                *)
(*                                                                         *)
(* The protocol loop serves one request at a time, so a request is a step; *)
(* the clock moves between requests.  What a collector may do on a target  *)
(* (evaluate_capability) does not change in a session: Targets holds the   *)
(* targets on which collection is authorized.                              *)
(***************************************************************************)
EXTENDS Naturals, FiniteSetsExt

CONSTANTS
    Targets,             \* enabled targets
    Real,                \* those with a real adapter; the others use fixtures
    Values,              \* values of a dimension of the architecture
    None,
    Declared,            \* per target and dimension: what its file declares, or None
    max_session_calls,   \* MAX_SESSION_CALLS or the operator's lower limit
    max_calls,           \* per target: budget of calls
    max_rows,            \* per target: budget of rows
    row_limit,           \* rows of one collection: the least of the limits on it
    Ttl,                 \* EVIDENCE_TTL_SECONDS
    MaxEntries,          \* MAX_EVIDENCE_ENTRIES
    MaxNow,              \* bound of the model: the clock
    MaxToolCalls         \* bound of the model: requests of a session

\* Refs are random; here the n-th collection of the session gets ref n.
Refs == 1..max_session_calls

\* Dimensions that Q-DISC-ARCHITECTURE-001 observes, and the release update,
\* which Q-DISC-IDENTITY-001 observes.
Dims == {"architecture", "release_update"}

ASSUME GatewayAssumption ==
    /\ Real \subseteq Targets
    /\ None \notin Values
    /\ Declared \in [Targets -> [Dims -> Values \cup {None}]]
    /\ max_session_calls \in Nat \ {0}
    /\ max_calls \in [Targets -> Nat]
    /\ max_rows \in [Targets -> Nat]
    /\ row_limit \in Nat \ {0}
    /\ Ttl \in Nat
    /\ MaxEntries \in Nat \ {0}
    /\ max_session_calls <= MaxEntries
    /\ MaxNow \in Nat
    /\ MaxToolCalls \in Nat

VARIABLES
    state,          \* of McpServer; "CLOSED" after end of input
    calls,          \* Session.calls
    target_calls,   \* Session.target_calls
    target_rows,    \* Session.target_rows
    observed,       \* Session.observed_architecture
    items,          \* EvidenceStore._items
    now,            \* the clock
    tool_calls,     \* tools/call requests served, for the bound
    fetches,        \* history, per target: calls of the adapter
    handed,         \* history: the evidence references the client was given
    lastSeen,       \* history, per target and dimension: last REAL observation
    got             \* history: the last request for evidence and its outcome

session == <<calls, target_calls, target_rows, observed>>

vars == <<state, session, items, now, tool_calls, fetches, handed, lastSeen, got>>

Init ==
    /\ state = "NEW"
    /\ calls = 0
    /\ target_calls = [t \in Targets |-> 0]
    /\ target_rows = [t \in Targets |-> 0]
    /\ observed = [t \in Targets |-> [d \in Dims |-> None]]
    /\ items = {}
    /\ now = 0
    /\ tool_calls = 0
    /\ fetches = [t \in Targets |-> 0]
    /\ handed = {}
    /\ lastSeen = [t \in Targets |-> [d \in Dims |-> None]]
    /\ got = None

-----------------------------------------------------------------------------
(* McpServer *)

Initialize ==
    /\ state = "NEW"
    /\ state' = "INITIALIZING"
    /\ UNCHANGED <<session, items, now, tool_calls, fetches, handed, lastSeen, got>>

Initialized ==
    /\ state = "INITIALIZING"
    /\ state' = "READY"
    /\ UNCHANGED <<session, items, now, tool_calls, fetches, handed, lastSeen, got>>

\* End of input: the session's evidence is cleared.
Eof ==
    /\ state # "CLOSED"
    /\ state' = "CLOSED"
    /\ items' = {}
    /\ UNCHANGED <<session, now, tool_calls, fetches, handed, lastSeen, got>>

ToolCall ==
    /\ state = "READY"
    /\ tool_calls < MaxToolCalls
    /\ tool_calls' = tool_calls + 1
    /\ UNCHANGED <<state, now>>

-----------------------------------------------------------------------------
(* EvidenceStore *)

Live(e) == now - e.t <= Ttl

\* Fault: an entry that is exactly as old as the time to live is dropped.
PurgeEarly(s) == {e \in s : now - e.t < Ttl}

Purge(s) == {e \in s : Live(e)}

\* The entry with the least time; of several the first that was put.
Oldest(s) == CHOOSE e \in s : \A f \in s : e.t < f.t \/ (e.t = f.t /\ e.ref <= f.ref)

Evict(s) == IF Cardinality(s) >= MaxEntries THEN s \ {Oldest(s)} ELSE s

Put(e) == items' = Evict(Purge(items)) \cup {e}

-----------------------------------------------------------------------------
(* Gateway._tool_collect *)

\* _authorize: the budgets.
Authorize(t) ==
    /\ calls < max_session_calls
    /\ target_calls[t] < max_calls[t]
    /\ target_rows[t] < max_rows[t]

\* The call is counted before the adapter runs.
Charge(t) ==
    /\ calls' = calls + 1
    /\ target_calls' = [target_calls EXCEPT ![t] = @ + 1]
    /\ fetches' = [fetches EXCEPT ![t] = @ + 1]

\* The adapter fails, times out or returns what is no list of rows.
CollectFails(t) ==
    /\ Authorize(t)
    /\ ToolCall
    /\ Charge(t)
    /\ UNCHANGED <<target_rows, observed, items, handed, lastSeen, got>>

\* Fault: the rows that are left in the budget are not a cap.
CapRowsOfCall(t, asked) == Min({asked, row_limit})

CapRows(t, asked) == Min({asked, row_limit, max_rows[t] - target_rows[t]})

\* Fault: an unknown release update replaces the observed one.
ObserveAll(t, dim, value) ==
    observed' = IF dim \in Dims /\ t \in Real THEN [observed EXCEPT ![t][dim] = value] ELSE observed

\* What a collection of REAL rows leaves in observed_architecture.  The
\* architecture collector updates its dimensions even when a fact was dropped
\* and its value is unknown; the release update is only set when it is known.
Observe(t, dim, value) ==
    observed' = IF /\ dim \in Dims /\ t \in Real
                   /\ dim = "release_update" => value # None
                THEN [observed EXCEPT ![t][dim] = value] ELSE observed

\* n rows remain after sanitizing.  The evidence is stored before the response
\* is audited and measured, so a response that is refused then (E_SANITIZATION,
\* E_OUTPUT_TOO_LARGE) leaves evidence whose reference nobody has.
CollectOk(t, asked, n, dim, value, refused) ==
    LET e == [ref |-> calls + 1, target |-> t, t |-> now, rows |-> n]
    IN  /\ Authorize(t)
        /\ n <= CapRows(t, asked)
        /\ ToolCall
        /\ Charge(t)
        /\ target_rows' = [target_rows EXCEPT ![t] = @ + n]
        /\ Put(e)
        /\ Observe(t, dim, value)
        /\ handed' = IF refused THEN handed ELSE handed \cup {e}
        /\ lastSeen' = IF dim \in Dims /\ t \in Real /\ value # None
                       THEN [lastSeen EXCEPT ![t][dim] = value] ELSE lastSeen
        /\ UNCHANGED got

Collect(t) ==
    \/ CollectFails(t)
    \/ \E asked \in 1..row_limit, n \in 0..row_limit, refused \in BOOLEAN :
        \/ CollectOk(t, asked, n, None, None, refused)
        \/ \E dim \in Dims, value \in Values \cup {None} :
            /\ n <= 1 /\ (n = 0 => value = None)
            /\ CollectOk(t, asked, n, dim, value, refused)

-----------------------------------------------------------------------------
(* _tool_get_evidence (one reference) and _tool_analyze_incident (several) *)

\* EvidenceStore.get
Found(s, ref, t) == \E e \in s : e.ref = ref /\ e.target = t

\* The client asks for references it was given; each get purges first.  ok: all
\* were found.
ReadEvidence(t, refs) ==
    /\ ToolCall
    /\ items' = Purge(items)
    /\ got' = [refs |-> refs, target |-> t, at |-> now,
               ok |-> \A r \in refs : Found(Purge(items), r, t)]
    /\ UNCHANGED <<session, fetches, handed, lastSeen>>

\* list_capabilities, describe_collector, and calls that are refused before
\* they change anything.
OtherTool ==
    /\ ToolCall
    /\ UNCHANGED <<session, items, fetches, handed, lastSeen, got>>

-----------------------------------------------------------------------------
Tick ==
    /\ now < MaxNow
    /\ now' = now + 1
    /\ UNCHANGED <<state, session, items, tool_calls, fetches, handed, lastSeen, got>>

Next ==
    \/ Initialize \/ Initialized \/ Eof
    \/ \E t \in Targets : Collect(t)
    \/ \E t \in Targets, refs \in SUBSET {e.ref : e \in handed} :
        refs # {} /\ ReadEvidence(t, refs)
    \/ OtherTool
    \/ Tick

Spec == Init /\ [][Next]_vars

-----------------------------------------------------------------------------
Entry == [ref: Refs, target: Targets, t: 0..MaxNow, rows: 0..row_limit]

Observation == [Targets -> [Dims -> Values \cup {None}]]

TypeOK ==
    /\ state \in {"NEW", "INITIALIZING", "READY", "CLOSED"}
    /\ calls \in 0..max_session_calls
    /\ target_calls \in [Targets -> 0..max_session_calls]
    /\ target_rows \in [Targets -> Nat]
    /\ observed \in Observation
    /\ items \subseteq Entry
    /\ now \in 0..MaxNow
    /\ tool_calls \in 0..MaxToolCalls
    /\ fetches \in [Targets -> 0..max_session_calls]
    /\ handed \subseteq Entry
    /\ lastSeen \in Observation

(***************************************************************************)
(* A reference the client holds works exactly as long as it is fresh, and  *)
(* only for its target: the bound of the store never evicts evidence that  *)
(* has not expired, and expired evidence is never served.                  *)
(***************************************************************************)
EvidenceWhileFresh ==
    got # None =>
        (got.ok <=> \A r \in got.refs : \E e \in handed :
                        e.ref = r /\ e.target = got.target /\ got.at - e.t <= Ttl)

(***************************************************************************)
(* A target is never asked more often than its budget allows, however its  *)
(* calls end: a timeout or a failed fetch is paid for too.                 *)
(***************************************************************************)
FetchesWithinBudget ==
    \A t \in Targets : fetches[t] <= max_calls[t]

(***************************************************************************)
(* The rows a target gives away in a session stay within its budget, the   *)
(* last collection included.                                               *)
(***************************************************************************)
RowsWithinBudget ==
    \A t \in Targets :
        MapThenSumSet(LAMBDA e : e.rows, {e \in handed : e.target = t}) <= max_rows[t]

\* The dimension field validation uses: ObservedTarget.
InUse(t, d) == IF observed[t][d] # None THEN observed[t][d] ELSE Declared[t][d]

WinsFor(d) ==
    \A t \in Targets : InUse(t, d) = IF lastSeen[t][d] # None THEN lastSeen[t][d] ELSE Declared[t][d]

(***************************************************************************)
(* Once a release update was observed on a real target, field validation   *)
(* uses the last observed one for the rest of the session, whatever is     *)
(* collected later; without an observation, and on fixtures always, the    *)
(* declared one.                                                           *)
(***************************************************************************)
ReleaseUpdateObservedWins == WinsFor("release_update")

-----------------------------------------------------------------------------
(* What the documentation says and the code does not do.                   *)

(***************************************************************************)
(* "Observed values win for field validation in the same session", for the *)
(* dimensions of the architecture.                                         *)
(***************************************************************************)
ArchitectureObservedWins == WinsFor("architecture")
=============================================================================
