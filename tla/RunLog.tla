------------------------------- MODULE RunLog -------------------------------
(***************************************************************************)
(* What release_readiness reads out of the log of tests/run-all.sh and how *)
(* it decides: runlog.parse, runlog.judge, evidence.decide, common.worst.  *)
(* The packager and the verifier of an evidence package share them.        *)
(*                                                                         *)
(* A log is the sequence of its lines that the parser recognises, each a   *)
(* kind and a script, and the numbers of its summary.  The summary and the *)
(* closing sentence are the last lines a runner prints: they are there     *)
(* together or the log is truncated.                                       *)
(***************************************************************************)
EXTENDS Naturals, Sequences, FiniteSets

CONSTANTS
    Scripts,   \* names tests/test_*.sh
    None

PASS == "PASS"
FAIL == "FAIL"
INCONCLUSIVE == "INCONCLUSIVE"
NOT_APPLICABLE == "NOT_APPLICABLE"

\* A working tree: each test script with what running it does, and the rest
\* of the files: in order, with a whitespace error that git diff --check and
\* C09 report, or without a loadable capability registry.
Contents == {"passes", "fails", "skips", "echoes", "absent"}
Rests == {"ok", "whitespace", "noRegistry"}
Trees == [script : [Scripts -> Contents], rest : Rests]

Lines == {"header", "PASS", "FAIL", "SKIP"} \X Scripts
Summaries == [passed : Nat, total : Nat, failed : Nat]
Logs == [lines : Seq(Lines), summary : Summaries \cup {None}]

EmptyLog == [lines |-> <<>>, summary |-> None]

At(log, kinds, s) ==
    {i \in DOMAIN log.lines : log.lines[i][1] \in kinds /\ log.lines[i][2] = s}

Terminals(log, s) == At(log, {"PASS", "FAIL"}, s)

unique_scripts(log) == {s \in Scripts : At(log, {"header"}, s) # {}}

\* status == ["PASS"]: one terminal line, and it says PASS.
passed_scripts(log) ==
    {s \in Scripts : \E i \in At(log, {"PASS"}, s) : Terminals(log, s) = {i}}

failed_scripts(log) == {s \in Scripts : At(log, {"FAIL"}, s) # {}}

scripts_without_terminal(log) == {s \in unique_scripts(log) : Terminals(log, s) = {}}

orphan_terminals(log) == {s \in Scripts : Terminals(log, s) # {}} \ unique_scripts(log)

duplicates(log) ==
    {s \in Scripts : \E K \in {{"header"}, {"PASS", "FAIL"}} :
                         \E i, j \in At(log, K, s) : i # j}

skipped(log) == \E s \in Scripts : At(log, {"SKIP"}, s) # {}

Counts(log) == [passed |-> Cardinality(passed_scripts(log)),
                total  |-> Cardinality(unique_scripts(log)),
                failed |-> Cardinality(failed_scripts(log))]

\* The reasons for which judge cannot tell.
Untold(log, exit_code, timed_out) ==
    \/ timed_out
    \/ exit_code = None
    \/ unique_scripts(log) = {}
    \/ log.summary = None
    \/ scripts_without_terminal(log) # {}
    \/ orphan_terminals(log) # {}
    \/ duplicates(log) # {}
    \/ log.summary # Counts(log)

\* Fault: a script whose [SKIP] lines nobody looks at counts as run.
judge_AcceptsSkips(log, exit_code, expected_scripts, timed_out) ==
    IF Untold(log, exit_code, timed_out) THEN INCONCLUSIVE
    ELSE IF \/ expected_scripts \ unique_scripts(log) # {}
            \/ failed_scripts(log) # {}
            \/ exit_code # 0
    THEN FAIL ELSE PASS

\* Fault: the scripts on disk are not compared with those in the log.
judge_AcceptsOmissions(log, exit_code, expected_scripts, timed_out) ==
    IF Untold(log, exit_code, timed_out) THEN INCONCLUSIVE
    ELSE IF failed_scripts(log) # {} \/ exit_code # 0 \/ skipped(log)
    THEN FAIL ELSE PASS

judge(log, exit_code, expected_scripts, timed_out) ==
    IF Untold(log, exit_code, timed_out) THEN INCONCLUSIVE
    ELSE IF \/ expected_scripts \ unique_scripts(log) # {}
            \/ failed_scripts(log) # {}
            \/ exit_code # 0
            \/ skipped(log)
    THEN FAIL ELSE PASS

expected(tree) == {s \in Scripts : tree.script[s] # "absent"}

check_security_scripts(log, security) ==
    IF security = {} THEN NOT_APPLICABLE
    ELSE IF security \cap failed_scripts(log) # {} THEN FAIL
    ELSE IF security \subseteq passed_scripts(log) THEN PASS
    ELSE INCONCLUSIVE

\* decide: the result; the tree identity is CHANGED_DURING_RUN iff the two
\* fingerprints differ.
decide(log, exit_code, timed_out, before, after, security, diff_check) ==
    LET run  == judge(log, exit_code, expected(after), timed_out)
        kept == IF before # after /\ run # FAIL THEN INCONCLUSIVE ELSE run
        sec  == check_security_scripts(log, security)
    IN  IF sec = FAIL \/ ~diff_check THEN FAIL
        ELSE IF sec = INCONCLUSIVE /\ kept = PASS THEN INCONCLUSIVE
        ELSE kept

worst(results) ==
    LET told == results \ {NOT_APPLICABLE}
    IN  IF FAIL \in told THEN FAIL
        ELSE IF INCONCLUSIVE \in told \/ told = {} THEN INCONCLUSIVE
        ELSE PASS
=============================================================================
