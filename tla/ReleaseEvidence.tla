--------------------------- MODULE ReleaseEvidence ---------------------------
(***************************************************************************)
(* The evidence for a release: `release_readiness run` executes the test   *)
(* suite on the working tree and writes a package, file by file, outside   *)
(* the repository; `verify` and `gate` judge a package against the tree of *)
(* that moment.  The tree belongs to people: any file may change between   *)
(* any two looks at it, a fingerprint reads the files one after the other, *)
(* several runs may be given the same output directory, and each process   *)
(* may die at any point.                                                   *)
(*                                                                         *)
(* A fingerprint is the tree it was taken of (SHA-256 per path).           *)
(***************************************************************************)
EXTENDS RunLog

CONSTANTS
    Runs,       \* `run` commands, all with the same --out
    Security,   \* security_scripts of the capability registry
    Order,      \* the place of a script in the order of the runner's glob
    Worktrees,  \* trees the repository may be in
    AtFirst,    \* those it may be in at first
    MaxEdits    \* bound of the model: edits of the tree

ASSUME EvidenceAssumption ==
    /\ Security \subseteq Scripts
    /\ Order \in [Scripts -> Nat] /\ \A s, u \in Scripts : Order[s] = Order[u] => s = u
    /\ Worktrees \subseteq Trees /\ AtFirst \subseteq Worktrees
    /\ MaxEdits \in Nat
    /\ IsFiniteSet(Scripts)
    /\ None \notin Trees \cup Summaries \cup Nat \cup Runs \cup [by : Runs, full : BOOLEAN]

\* The package in the order of its writing: the log, the exit code, the other
\* results (two fingerprints, git diff --check), the two manifests, and
\* SHA256SUMS.txt last.
REQUIRED_FILES == <<"log", "exitcode", "results", "manifest", "sums">>
Files == {REQUIRED_FILES[i] : i \in DOMAIN REQUIRED_FILES}

VARIABLES
    tree,     \* the working tree
    edits,    \* edits so far
    private,  \* <out>.private exists
    pkg,      \* per file of <out>: nothing, or who created it and whether all is written
    pc,       \* where each `run` command is
    run,      \* what each holds
    gate      \* a `verify` or `gate` command

vars == <<tree, edits, private, pkg, pc, run, gate>>

Fresh == [security |-> {}, before |-> None, after |-> None, todo |-> {},
          ran |-> [s \in Scripts |-> "no"], log |-> EmptyLog, exit_code |-> None,
          timed_out |-> FALSE, diff_check |-> TRUE, published |-> EmptyLog,
          verdict |-> None, next |-> 1, touched |-> FALSE]

NoGate == [pc |-> "idle", mode |-> None, static |-> {}, checks |-> {},
           current |-> None, identity |-> "UNVERIFIED", result |-> None,
           by |-> None, touched |-> FALSE]

Missing == {f \in Files : pkg[f] = None}

Init ==
    /\ tree \in AtFirst
    /\ edits = 0
    /\ private = FALSE
    /\ pkg = [f \in Files |-> None]
    /\ pc = [r \in Runs |-> "idle"]
    /\ run = [r \in Runs |-> Fresh]
    /\ gate = NoGate

\* Where a run depends on the tree, and where a gate does.
Looking == {"before", "before_rest", "start", "tests", "script", "exiting", "ran",
            "after_rest", "judge"}
GateLooking == {"registry", "whitespace", "verify", "current", "current_rest", "report"}

\* Trees that differ in one file.
OneFile(t, u) ==
    \/ t.script = u.script /\ t.rest # u.rest
    \/ t.rest = u.rest /\ \E s \in Scripts : /\ t.script[s] # u.script[s]
                                           /\ t.script = [u.script EXCEPT ![s] = t.script[s]]

\* Somebody edits, adds or removes one file.
Edit(t) ==
    /\ edits < MaxEdits
    /\ OneFile(t, tree)
    /\ tree' = t
    /\ edits' = edits + 1
    /\ run' = [r \in Runs |-> [run[r] EXCEPT !.touched = @ \/ pc[r] \in Looking]]
    /\ gate' = [gate EXCEPT !.touched = @ \/ gate.pc \in GateLooking]
    /\ UNCHANGED <<private, pkg, pc>>

---------------------------------------------------------------------------
(* release_readiness run *)

Become(r, place, data) ==
    /\ pc' = [pc EXCEPT ![r] = place]
    /\ run' = [run EXCEPT ![r] = data]
    /\ UNCHANGED <<tree, edits, gate>>

Goto(r, from, to, data) ==
    /\ pc[r] = from
    /\ Become(r, to, data)
    /\ UNCHANGED <<private, pkg>>

\* The list of security scripts, which main takes as empty when the registry
\* cannot be loaded.
security_scripts == IF tree.rest = "noRegistry" THEN {} ELSE Security

\* main reads that list; the output directory must be empty or new and its
\* private sibling new (otherwise the command ends, and may be given again).
Prepare(r) ==
    /\ ~private /\ Missing = Files
    /\ Goto(r, "idle", "claim", [run[r] EXCEPT !.security = security_scripts])

\* os.makedirs(private) fails when it exists.
Claim(r) ==
    /\ pc[r] = "claim"
    /\ private' = TRUE
    /\ Become(r, IF private THEN "idle" ELSE "before", IF private THEN Fresh ELSE run[r])
    /\ UNCHANGED pkg

\* fingerprint.take, in two steps: it reads one file after the other.
TakeBefore(r) ==
    \/ Goto(r, "before", "before_rest", [run[r] EXCEPT !.before = tree])
    \/ Goto(r, "before_rest", "start", [run[r] EXCEPT !.before.rest = tree.rest])

\* The runner starts and expands its glob, or Popen fails.
StartTests(r) ==
    \/ Goto(r, "start", "tests", [run[r] EXCEPT !.todo = expected(tree)])
    \/ Goto(r, "start", "ran", run[r])

Append2(log, lines) == [log EXCEPT !.lines = @ \o lines]

\* The loop takes the scripts in order.
IsNext(r, s) == s \in run[r].todo /\ \A u \in run[r].todo : Order[s] <= Order[u]

StartScript(r) ==
    \E s \in Scripts :
        /\ IsNext(r, s)
        /\ Goto(r, "tests", "script", [run[r] EXCEPT !.log = Append2(@, <<<<"header", s>>>>)])

\* The script runs as it is on disk now.  One that echoes prints its own
\* "--- PASS" line and then fails; one that is gone fails.
EndScript(r) ==
    \E s \in Scripts :
        LET c == tree.script[s]
            ok == c \in {"passes", "skips"}
            printed == CASE c = "skips"  -> <<<<"SKIP", s>>>>
                         [] c = "echoes" -> <<<<"PASS", s>>>>
                         [] OTHER        -> <<>>
        IN  /\ IsNext(r, s)
            /\ Goto(r, "script", "tests", [run[r] EXCEPT !.todo = @ \ {s},
                    !.ran[s] = IF ok THEN "passed" ELSE "failed",
                    !.log = Append2(@, printed \o <<<<IF ok THEN "PASS" ELSE "FAIL", s>>>>)])

Ran(r, how) == {s \in Scripts : run[r].ran[s] = how}

\* The summary.  Without any script the glob stays a name that does not exist.
Summarise(r) ==
    /\ run[r].todo = {}
    /\ Goto(r, "tests", "exiting", [run[r] EXCEPT !.log.summary =
                IF Ran(r, "no") = Scripts
                THEN [passed |-> 0, total |-> 1, failed |-> 1]
                ELSE [passed |-> Cardinality(Ran(r, "passed")),
                      total  |-> Cardinality(Scripts \ Ran(r, "no")),
                      failed |-> Cardinality(Ran(r, "failed"))]])

Exit(r) ==
    Goto(r, "exiting", "ran", [run[r] EXCEPT !.exit_code =
            IF run[r].log.summary.failed = 0 THEN 0 ELSE 1])

\* The timeout kills the process tree; or the runner is killed by a signal.
CutShort(r) ==
    /\ pc[r] \in {"tests", "script", "exiting"}
    /\ \/ Become(r, "ran", [run[r] EXCEPT !.todo = {}, !.timed_out = TRUE])
       \/ Become(r, "ran", [run[r] EXCEPT !.todo = {}, !.exit_code = 1])
    /\ UNCHANGED <<private, pkg>>

TakeAfter(r) ==
    \/ Goto(r, "ran", "after_rest", [run[r] EXCEPT !.after = tree])
    \/ Goto(r, "after_rest", "judge", [run[r] EXCEPT !.after.rest = tree.rest])

\* What is left of a log that exceeds MAX_LOG_BYTES: its summary is cut off, or
\* only lines after it.
Captures(log) == {log, [log EXCEPT !.summary = None]}

\* git diff --check, then the verdict.  A log that still shows paths or secrets
\* after redaction is withheld.
JudgeRun(r) ==
    \E raw \in Captures(run[r].log), exceeds, withheld \in BOOLEAN :
        LET d == decide(raw, run[r].exit_code, run[r].timed_out, run[r].before,
                        run[r].after, run[r].security, tree.rest # "whitespace")
        IN  /\ raw # run[r].log => exceeds
            /\ exceeds => ~withheld
            /\ Goto(r, "judge", "create", [run[r] EXCEPT
                   !.diff_check = tree.rest # "whitespace",
                   !.log = raw,
                   !.published = IF withheld THEN EmptyLog ELSE raw,
                   !.verdict = IF (exceeds \/ withheld) /\ d # FAIL THEN INCONCLUSIVE ELSE d])

\* _write_new: exclusive creation, then the content.  While a file other than
\* the last is written another one is missing, which is all V01 looks at; only
\* the last has a step of its own in which it exists and is incomplete.
CreateFile(r) ==
    LET f == REQUIRED_FILES[run[r].next]
        new == pkg[f] = None
    IN  /\ pc[r] = "create"
        /\ pkg' = IF new THEN [pkg EXCEPT ![f] = [by |-> r, full |-> f # "sums"]] ELSE pkg
        /\ Become(r, IF ~new THEN "failed" ELSE IF f = "sums" THEN "fill" ELSE "create",
                  [run[r] EXCEPT !.next = @ + 1])
        /\ UNCHANGED private

FillSums(r) ==
    /\ pc[r] = "fill"
    /\ pkg' = [pkg EXCEPT !["sums"] = [by |-> r, full |-> TRUE]]
    /\ Become(r, "done", run[r])
    /\ UNCHANGED private

\* A run that dies (git fails, a disk is full, a signal) takes no further step:
\* what it has written stays, and nothing tells it from a slow one.
RunStep(r) ==
    \/ Prepare(r) \/ Claim(r) \/ TakeBefore(r)
    \/ StartTests(r) \/ StartScript(r) \/ EndScript(r) \/ Summarise(r) \/ Exit(r)
    \/ CutShort(r) \/ TakeAfter(r) \/ JudgeRun(r)
    \/ CreateFile(r) \/ FillSums(r)

---------------------------------------------------------------------------
(* release_readiness verify and gate *)

\* Who wrote a file.
Of(f) == run[pkg[f].by]

Status(passes) == IF passes THEN PASS ELSE FAIL

\* Fault: the verdict of the manifest is not compared with the one derived.
PackageChecks_TrustsDerived ==
    LET m == Of("manifest")
        log == Of("log").published
        code == Of("exitcode").exit_code
    IN  { Status(\A f \in Files : pkg[f].full),
          IF code # m.exit_code THEN FAIL ELSE IF code = None THEN INCONCLUSIVE ELSE PASS,
          Status(Counts(log) = Counts(m.log)),
          Status(Of("results").before = m.before /\ Of("results").after = m.after),
          Status(Of("results").diff_check),
          decide(log, code, m.timed_out, Of("results").before, Of("results").after,
                 m.security, Of("results").diff_check) }

\* verify_package, V02 to V10, of a package that has every file: the hashes
\* (a file that is not written to its end has no hash listed or another one),
\* the exit code, the counts, the fingerprints, git diff --check, and the
\* verdict derived again from the delivered files.
PackageChecks ==
    LET m == Of("manifest")
        log == Of("log").published
        code == Of("exitcode").exit_code
        derived == decide(log, code, m.timed_out, Of("results").before, Of("results").after,
                          m.security, Of("results").diff_check)
    IN  { Status(\A f \in Files : pkg[f].full),
          IF code # m.exit_code THEN FAIL ELSE IF code = None THEN INCONCLUSIVE ELSE PASS,
          Status(Counts(log) = Counts(m.log)),
          Status(Of("results").before = m.before /\ Of("results").after = m.after),
          Status(Of("results").diff_check),
          Status(derived = m.verdict),
          derived }

GateBecomes(from, record) ==
    /\ gate.pc = from
    /\ gate' = record
    /\ UNCHANGED <<tree, edits, private, pkg, pc, run>>

\* verify or gate, once there is something to verify (before, V01 answers
\* INCONCLUSIVE).  A command changes nothing, so one that starts at any time
\* stands for any number of them; one that dies gives no answer, which is to
\* take no further step.
Command(mode) ==
    /\ Missing # Files
    /\ GateBecomes("idle", [NoGate EXCEPT !.mode = mode,
           !.pc = IF mode = "gate" THEN "registry" ELSE "verify"])

\* C01 to C08: what depends on the tree is whether the registry loads.
CheckRegistry ==
    GateBecomes("registry", [gate EXCEPT !.pc = "whitespace",
        !.static = {Status(tree.rest # "noRegistry")}])

\* C09, and C10 of a gate without --evidence.
CheckWhitespace ==
    LET static == gate.static \cup {Status(tree.rest # "whitespace")}
    IN  \/ GateBecomes("whitespace", [gate EXCEPT !.pc = "verify", !.static = static])
        \/ GateBecomes("whitespace", [gate EXCEPT !.pc = "report", !.static = static,
                                                 !.checks = {INCONCLUSIVE}])

\* V01: an incomplete package is not looked into.
VerifyIncomplete ==
    /\ Missing # {}
    /\ GateBecomes("verify", [gate EXCEPT !.pc = "report",
           !.checks = {IF "exitcode" \in Missing THEN INCONCLUSIVE ELSE FAIL}])

\* V02 to V10, and V11 of a package whose tree changed during the run or of a
\* verify without --root.
VerifyPackage ==
    LET changed == Of("results").before # Of("results").after
        checked == [gate EXCEPT !.by = pkg["manifest"].by, !.checks = PackageChecks]
    IN  /\ Missing = {}
        /\ \/ /\ ~changed
              /\ GateBecomes("verify", [checked EXCEPT !.pc = "current"])
           \/ /\ changed \/ gate.mode = "verify"
              /\ GateBecomes("verify", [checked EXCEPT !.pc = "report",
                     !.checks = @ \cup {INCONCLUSIVE},
                     !.identity = IF changed THEN "CHANGED_DURING_RUN" ELSE "UNVERIFIED"])

\* V11: the fingerprint of the current tree.
TakeCurrent ==
    \/ GateBecomes("current", [gate EXCEPT !.pc = "current_rest", !.current = tree])
    \/ LET now == [gate.current EXCEPT !.rest = tree.rest]
           same == now = Of("results").after
       IN  GateBecomes("current_rest", [gate EXCEPT !.pc = "report", !.current = now,
               !.checks = @ \cup {IF same THEN PASS ELSE INCONCLUSIVE},
               !.identity = IF same THEN "VERIFIED" ELSE "UNVERIFIED"])

\* The worst of all checks; PASS of a gate only with a verified identity.
\* A report that does not pass the sanitizer is withheld.
Report ==
    LET all == worst(gate.static \cup {worst(gate.checks)})
        result == IF all = PASS /\ gate.identity # "VERIFIED" THEN INCONCLUSIVE ELSE all
        answer == [gate EXCEPT !.pc = "done", !.static = {}, !.checks = {}]
    IN  \/ GateBecomes("report", [answer EXCEPT !.result = result])
        \/ /\ gate.mode = "gate"
           /\ GateBecomes("report", [answer EXCEPT !.result = INCONCLUSIVE,
                                                 !.identity = "UNVERIFIED"])

GateStep ==
    \/ \E mode \in {"verify", "gate"} : Command(mode)
    \/ CheckRegistry \/ CheckWhitespace \/ VerifyIncomplete \/ VerifyPackage
    \/ TakeCurrent \/ Report

Next ==
    \/ \E t \in Worktrees : Edit(t)
    \/ \E r \in Runs : RunStep(r)
    \/ GateStep

Spec == Init /\ [][Next]_vars

---------------------------------------------------------------------------

Places == Looking \cup {"idle", "claim", "create", "failed", "fill", "done"}
Verdicts == {PASS, FAIL, INCONCLUSIVE}

RunRecords ==
    [security : SUBSET Scripts, before : Trees \cup {None},
     after : Trees \cup {None}, todo : SUBSET Scripts,
     ran : [Scripts -> {"no", "passed", "failed"}], log : Logs, exit_code : {0, 1, None},
     timed_out : BOOLEAN, diff_check : BOOLEAN, published : Logs,
     verdict : Verdicts \cup {None}, next : 1 .. Len(REQUIRED_FILES) + 1, touched : BOOLEAN]

GateRecords ==
    [pc : GateLooking \cup {"idle", "done"}, mode : {"verify", "gate", None},
     static : SUBSET Verdicts, checks : SUBSET Verdicts, current : Trees \cup {None},
     identity : {"UNVERIFIED", "CHANGED_DURING_RUN", "VERIFIED"},
     result : Verdicts \cup {None}, by : Runs \cup {None}, touched : BOOLEAN]

\* Every part of the state has its type; a verdict and an answer are one of
\* the three that main has an exit code for.
TypeOK ==
    /\ tree \in Trees
    /\ edits \in 0 .. MaxEdits
    /\ private \in BOOLEAN
    /\ pkg \in [Files -> [by : Runs, full : BOOLEAN] \cup {None}]
    /\ pc \in [Runs -> Places]
    /\ run \in [Runs -> RunRecords]
    /\ gate \in GateRecords

Answered(result) == gate.pc = "done" /\ gate.result = result

\* A PASS of verify or gate is about a run that wrote its package to the end,
\* exited with 0 and, whatever its output said, ran every script of the tree
\* that V11 saw, each of them successfully; and that tree is the one of both
\* fingerprints.  Interrupted, timed-out, withheld and stale evidence never
\* passes (verify_package, decide, judge).
PassMeansTested ==
    Answered(PASS) =>
        LET r == gate.by
        IN  /\ pc[r] = "done"
            /\ run[r].exit_code = 0
            /\ run[r].before = run[r].after /\ run[r].after = gate.current
            /\ expected(gate.current) \subseteq Ran(r, "passed")
            /\ Ran(r, "failed") = {}
            /\ Ran(r, "passed") # {}

\* When nobody touched the tree while the run looked at it, a PASS means that
\* every script in the current tree is one that passes (without skipping);
\* and when nobody touched it while the gate looked at it, that the static
\* checks hold of that very tree.
PassMeansReleasable ==
    Answered(PASS) /\ ~run[gate.by].touched =>
        /\ \A s \in Scripts : gate.current.script[s] \in {"passes", "absent"}
        /\ gate.current.rest # "whitespace"
        /\ gate.mode = "gate" /\ ~gate.touched => gate.current.rest = "ok"

\* However two runs given one output directory interleave, one of them at most
\* gets beyond the creation of the private directory, and only it has files
\* in the package.
OneRunPerOutput ==
    \A r, q \in Runs :
        /\ pc[r] \in Looking /\ pc[q] \in Looking => r = q
        /\ \A f \in Files : pkg[f] # None /\ pkg[f].by = r /\ pc[q] \in Looking => r = q

\* The verifier derives from a finished package what the packager concluded
\* from the raw log: all its checks pass exactly when the verdict is PASS, and
\* a FAIL stays a FAIL even if the log was withheld.
VerifierAgrees ==
    \A r \in Runs : pc[r] = "done" =>
        /\ run[r].verdict = PASS <=> PackageChecks = {PASS}
        /\ run[r].verdict = FAIL => FAIL \in PackageChecks
=============================================================================
