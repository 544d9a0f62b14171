------------------------ MODULE ReleaseEvidenceProofs ------------------------
(***************************************************************************)
(* However many `run` commands are given one output directory, and         *)
(* wherever they are interrupted, at most one of them writes there; and    *)
(* what a PASS of verify or gate says of the run and of the tree.          *)
(*                                                                         *)
(* The argument is one inductive invariant, EvidenceInv.  It says of every *)
(* run, place by place, what its record, its log and its files tell        *)
(* (RecordOk, PackageOk), and of the gate what the checks it holds are     *)
(* backed by (GateOk, GateSaw).                                            *)
(***************************************************************************)
EXTENDS ReleaseEvidence, SequenceTheorems, FiniteSetTheorems, TLAPS

\* A run that has got past the creation of the private directory.
Owning == Looking \cup {"create", "failed", "fill", "done"}

PackageFiles == [Files -> [by : Runs, full : BOOLEAN] \cup {None}]

\* The private directory exists from the moment the first run owns it, and it
\* is never removed: that is why there is no second owner.
OutputInv ==
    /\ private \in BOOLEAN
    /\ pc \in [Runs -> Places]
    /\ pkg \in PackageFiles
    /\ \A r \in Runs : pc[r] \in Owning => private
    /\ \A r, q \in Runs : pc[r] \in Owning /\ pc[q] \in Owning => r = q
    /\ \A f \in Files : pkg[f] # None => pc[pkg[f].by] \in Owning

\* A step of one run that neither claims the output directory nor touches it
\* (Goto, CutShort) keeps the invariant.
LEMMA RunMoves ==
    ASSUME OutputInv, NEW r \in Runs, NEW place \in Places,
           place \in Owning <=> pc[r] \in Owning,
           pc' = [pc EXCEPT ![r] = place],
           UNCHANGED <<private, pkg>>
    PROVE  OutputInv'
<1>1. pc' \in [Runs -> Places]
  BY DEF OutputInv
<1>2. \A q \in Runs : pc'[q] \in Owning <=> pc[q] \in Owning
  BY DEF OutputInv
<1>3. ASSUME NEW f \in Files, pkg'[f] # None PROVE pc'[pkg'[f].by] \in Owning
  <2>1. pkg[f] \in [by : Runs, full : BOOLEAN]
    BY <1>3 DEF OutputInv, PackageFiles
  <2>2. pkg[f].by \in Runs
    BY <2>1
  <2> QED
    BY <1>2, <1>3, <2>2 DEF OutputInv
<1> QED
  BY <1>1, <1>2, <1>3 DEF OutputInv

\* Initially no run owns the directory and nothing is in it.
LEMMA OutputInit == Init => OutputInv
<1> SUFFICES ASSUME Init PROVE OutputInv
  OBVIOUS
<1>1. pc \in [Runs -> Places] /\ \A r \in Runs : pc[r] \notin Owning
  BY DEF Init, Places, Owning, Looking
<1>2. pkg \in PackageFiles /\ \A f \in Files : pkg[f] = None
  BY DEF Init, PackageFiles
<1> QED
  BY <1>1, <1>2 DEF Init, OutputInv

\* The steps of a run that stays where it is with respect to the directory.
LEMMA OutputGoto ==
    ASSUME OutputInv, NEW r \in Runs,
           \/ Prepare(r) \/ TakeBefore(r) \/ StartTests(r) \/ StartScript(r) \/ EndScript(r)
           \/ Summarise(r) \/ Exit(r) \/ CutShort(r) \/ TakeAfter(r) \/ JudgeRun(r)
    PROVE  OutputInv'
<1>1. ASSUME NEW from \in Places, NEW to \in Places, NEW data, Goto(r, from, to, data),
             to \in Owning <=> from \in Owning
      PROVE  OutputInv'
  <2>1. pc[r] = from /\ pc' = [pc EXCEPT ![r] = to] /\ UNCHANGED <<private, pkg>>
    BY <1>1 DEF Goto, Become
  <2> QED
    BY <1>1, <2>1, RunMoves
<1>2. /\ {"idle", "claim"} \subseteq Places
      /\ "idle" \notin Owning /\ "claim" \notin Owning
      /\ {"before", "before_rest", "start", "tests", "script", "exiting", "ran",
          "after_rest", "judge", "create"} \subseteq Places \cap Owning
  BY DEF Places, Owning, Looking
<1>3. CASE Prepare(r)
  BY <1>1, <1>2, <1>3 DEF Prepare
<1>4. CASE TakeBefore(r)
  BY <1>1, <1>2, <1>4 DEF TakeBefore
<1>5. CASE StartTests(r)
  BY <1>1, <1>2, <1>5 DEF StartTests
<1>6. CASE StartScript(r)
  BY <1>1, <1>2, <1>6 DEF StartScript
<1>7. CASE EndScript(r)
  BY <1>1, <1>2, <1>7 DEF EndScript
<1>8. CASE Summarise(r)
  BY <1>1, <1>2, <1>8 DEF Summarise
<1>9. CASE Exit(r)
  BY <1>1, <1>2, <1>9 DEF Exit
<1>10. CASE CutShort(r)
  <2>1. pc[r] \in {"tests", "script", "exiting"} /\ pc' = [pc EXCEPT ![r] = "ran"]
        /\ UNCHANGED <<private, pkg>>
    BY <1>10 DEF CutShort, Become
  <2> QED
    BY <1>2, <2>1, RunMoves
<1>11. CASE TakeAfter(r)
  BY <1>1, <1>2, <1>11 DEF TakeAfter
<1>12. CASE JudgeRun(r)
  BY <1>1, <1>2, <1>12 DEF JudgeRun
<1> QED
  BY <1>3, <1>4, <1>5, <1>6, <1>7, <1>8, <1>9, <1>10, <1>11, <1>12

\* Claiming: os.makedirs succeeds only where nobody has been before.
LEMMA OutputClaim ==
    ASSUME OutputInv, NEW r \in Runs, Claim(r)
    PROVE  OutputInv'
<1>1. pc[r] = "claim" /\ private' = TRUE /\ pkg' = pkg
      /\ pc' = [pc EXCEPT ![r] = IF private THEN "idle" ELSE "before"]
  BY DEF Claim, Become
<1>2. "claim" \notin Owning /\ "idle" \notin Owning /\ "before" \in Owning
      /\ "idle" \in Places /\ "before" \in Places
  BY DEF Owning, Looking, Places
<1>3. pc' \in [Runs -> Places]
  BY <1>1, <1>2 DEF OutputInv
<1>4. ASSUME NEW f \in Files, pkg[f] # None
      PROVE  pkg[f].by \in Runs /\ pc[pkg[f].by] \in Owning
  <2>1. pkg[f] \in [by : Runs, full : BOOLEAN]
    BY <1>4 DEF OutputInv, PackageFiles
  <2> QED
    BY <1>4, <2>1 DEF OutputInv
<1>5. CASE private
  <2>1. \A q \in Runs : pc'[q] \in Owning <=> pc[q] \in Owning
    BY <1>1, <1>2, <1>5 DEF OutputInv
  <2> QED
    BY <1>1, <1>3, <1>4, <2>1 DEF OutputInv
<1>6. CASE ~private
  <2>1. \A q \in Runs : pc[q] \notin Owning
    BY <1>6 DEF OutputInv
  <2>2. \A q \in Runs : pc'[q] \in Owning => q = r
    BY <1>1, <2>1 DEF OutputInv
  <2>3. \A f \in Files : pkg[f] = None
    BY <1>4, <2>1
  <2> QED
    BY <1>1, <1>3, <2>2, <2>3 DEF OutputInv
<1> QED
  BY <1>5, <1>6

\* Writing: the files get the name of the one owner.
LEMMA OutputWrite ==
    ASSUME OutputInv, NEW r \in Runs, CreateFile(r) \/ FillSums(r)
    PROVE  OutputInv'
<1>1. PICK place \in {"create", "failed", "fill", "done"} :
          pc[r] \in Owning /\ pc' = [pc EXCEPT ![r] = place] /\ private' = private
  BY DEF CreateFile, FillSums, Become, Owning
<1>2. pc' \in [Runs -> Places] /\ \A q \in Runs : pc'[q] \in Owning <=> pc[q] \in Owning
  BY <1>1 DEF OutputInv, Places, Owning
<1>3. \/ pkg' = pkg
      \/ \E g, b : b \in BOOLEAN /\ pkg' = [pkg EXCEPT ![g] = [by |-> r, full |-> b]]
  <2>1. CASE CreateFile(r)
    <3> DEFINE g == REQUIRED_FILES[run[r].next]
    <3>1. \/ pkg' = pkg
          \/ pkg' = [pkg EXCEPT ![g] = [by |-> r, full |-> g # "sums"]]
      BY <2>1 DEF CreateFile
    <3>2. (g # "sums") \in BOOLEAN
      OBVIOUS
    <3> QED
      BY <3>1, <3>2
  <2>2. CASE FillSums(r)
    BY <2>2 DEF FillSums
  <2> QED
    BY <2>1, <2>2
<1>4. pkg' \in PackageFiles
      /\ \A f \in Files : pkg'[f] = pkg[f] \/ pkg'[f].by = r
  <2>1. CASE pkg' = pkg
    BY <2>1 DEF OutputInv
  <2>2. ASSUME NEW g, NEW b \in BOOLEAN, pkg' = [pkg EXCEPT ![g] = [by |-> r, full |-> b]]
        PROVE  pkg' \in PackageFiles
               /\ \A f \in Files : pkg'[f] = pkg[f] \/ pkg'[f].by = r
    <3> DEFINE new == [by |-> r, full |-> b]
    <3>1. new \in [by : Runs, full : BOOLEAN] /\ new.by = r
      OBVIOUS
    <3> HIDE DEF new
    <3>2. pkg' = [pkg EXCEPT ![g] = new]
      BY <2>2 DEF new
    <3> QED
      BY <3>1, <3>2 DEF OutputInv, PackageFiles
  <2> QED
    BY <1>3, <2>1, <2>2
<1>5. ASSUME NEW f \in Files, pkg'[f] # None PROVE pc'[pkg'[f].by] \in Owning
  <2>1. CASE pkg'[f] = pkg[f]
    <3>1. pkg[f] \in [by : Runs, full : BOOLEAN]
      BY <1>5, <2>1 DEF OutputInv, PackageFiles
    <3>2. pkg[f].by \in Runs
      BY <3>1
    <3> QED
      BY <1>2, <1>5, <2>1, <3>2 DEF OutputInv
  <2>2. CASE pkg'[f].by = r
    BY <1>1, <1>2, <2>2
  <2> QED
    BY <1>4, <2>1, <2>2
<1> QED
  BY <1>1, <1>2, <1>4, <1>5 DEF OutputInv

\* Every step keeps the invariant.
LEMMA OutputStep == OutputInv /\ [Next]_vars => OutputInv'
<1> SUFFICES ASSUME OutputInv, [Next]_vars PROVE OutputInv'
  OBVIOUS
<1>1. ASSUME UNCHANGED <<private, pkg, pc>> PROVE OutputInv'
  BY <1>1 DEF OutputInv
<1>2. CASE UNCHANGED vars
  BY <1>1, <1>2 DEF vars
<1>3. ASSUME NEW t \in Worktrees, Edit(t) PROVE OutputInv'
  BY <1>1, <1>3 DEF Edit
<1>4. ASSUME NEW r \in Runs, RunStep(r) PROVE OutputInv'
  BY <1>4, OutputGoto, OutputClaim, OutputWrite DEF RunStep
<1>5. CASE GateStep
  <2>1. ASSUME NEW from, NEW record, GateBecomes(from, record) PROVE OutputInv'
    BY <1>1, <2>1 DEF GateBecomes
  <2> QED
    BY <1>5, <2>1 DEF GateStep, Command, CheckRegistry, CheckWhitespace,
          VerifyIncomplete, VerifyPackage, TakeCurrent, Report
<1> QED
  BY <1>2, <1>3, <1>4, <1>5 DEF Next

\* However the runs given one output directory interleave or die, one of them
\* at most gets beyond run_and_package's os.makedirs(private), and only it has
\* files in the package.
THEOREM Exclusive == Spec => []OneRunPerOutput
<1>1. OutputInv => OneRunPerOutput
  BY DEF OutputInv, OneRunPerOutput, Owning
<1> QED
  BY <1>1, OutputInit, OutputStep, PTL DEF Spec

-----------------------------------------------------------------------------
(* What the operators of RunLog say.                                       *)

\* decide answers with one of the three results.
LEMMA DecideVerdict ==
    ASSUME NEW log, NEW code, NEW timed, NEW b, NEW a, NEW sec, NEW dc
    PROVE  decide(log, code, timed, b, a, sec, dc) \in Verdicts
<1>1. judge(log, code, expected(a), timed) \in Verdicts
  BY DEF judge, Verdicts, PASS, FAIL, INCONCLUSIVE
<1> QED
  BY <1>1 DEF decide, Verdicts, PASS, FAIL, INCONCLUSIVE

\* A PASS of decide: nothing left untold, no script on disk without a header,
\* no FAIL and no SKIP line, exit code 0, one tree and clean whitespace.
LEMMA DecidePass ==
    ASSUME NEW log, NEW code, NEW timed, NEW b, NEW a, NEW sec, NEW dc,
           decide(log, code, timed, b, a, sec, dc) = PASS
    PROVE  /\ b = a /\ dc /\ code = 0
           /\ unique_scripts(log) # {}
           /\ scripts_without_terminal(log) = {}
           /\ expected(a) \subseteq unique_scripts(log)
           /\ failed_scripts(log) = {}
           /\ ~skipped(log)
<1>1. dc /\ judge(log, code, expected(a), timed) = PASS /\ b = a
  BY DEF decide, PASS, FAIL, INCONCLUSIVE
<1>2. /\ ~Untold(log, code, timed)
      /\ expected(a) \ unique_scripts(log) = {} /\ failed_scripts(log) = {} /\ code = 0
      /\ ~skipped(log)
  BY <1>1 DEF judge, PASS, FAIL, INCONCLUSIVE
<1>3. unique_scripts(log) # {} /\ scripts_without_terminal(log) = {}
  BY <1>2 DEF Untold
<1> QED
  BY <1>1, <1>2, <1>3

\* worst is PASS only if every result is, and there is one.
LEMMA WorstPass ==
    ASSUME NEW S, S \subseteq Verdicts
    PROVE  worst(S) \in Verdicts /\ (worst(S) = PASS <=> S = {PASS})
BY DEF worst, Verdicts, PASS, FAIL, INCONCLUSIVE, NOT_APPLICABLE

\* The lines of a log, one more line, and a log with more lines.
LEMMA OneMoreLine ==
    ASSUME NEW x \in Seq(Lines), NEW b \in Lines
    PROVE  /\ x \o <<b>> \in Seq(Lines)
           /\ Len(x) + 1 \in DOMAIN (x \o <<b>>)
           /\ (x \o <<b>>)[Len(x) + 1] = b
           /\ \A j \in DOMAIN x : j \in DOMAIN (x \o <<b>>) /\ (x \o <<b>>)[j] = x[j]
           /\ \A j \in DOMAIN (x \o <<b>>) : j \in DOMAIN x \/ (x \o <<b>>)[j] = b
<1> DEFINE y == <<b>>
           z == x \o y
<1>1. y \in Seq(Lines) /\ Len(y) = 1 /\ y[1] = b
  OBVIOUS
<1> HIDE DEF y
<1>2. /\ z \in Seq(Lines) /\ Len(z) = Len(x) + Len(y)
      /\ \A i \in 1 .. Len(x) + Len(y) : z[i] = IF i <= Len(x) THEN x[i] ELSE y[i - Len(x)]
  BY <1>1, ConcatProperties
<1> HIDE DEF z
<1>3. /\ DOMAIN x = 1 .. Len(x) /\ Len(x) \in Nat /\ DOMAIN z = 1 .. Len(x) + 1
  BY <1>1, <1>2, LenProperties
<1>4. \A i \in 1 .. Len(x) : z[i] = x[i]
  BY <1>1, <1>2, <1>3
<1>5. z[Len(x) + 1] = b
  BY <1>1, <1>2, <1>3
<1>6. \A j \in 1 .. Len(x) + 1 : j \in 1 .. Len(x) \/ j = Len(x) + 1
  BY <1>3
<1> QED
  BY <1>2, <1>3, <1>4, <1>5, <1>6 DEF z, y

LEMMA MoreLines ==
    ASSUME NEW log \in Logs, NEW x \in Seq(Lines)
    PROVE  /\ Append2(log, x) \in Logs
           /\ \A K, s : At(log, K, s) \subseteq At(Append2(log, x), K, s)
           /\ \A K, s : At(Append2(log, x), K, s) # {} =>
                At(log, K, s) # {} \/ \E j \in DOMAIN x : x[j][1] \in K /\ x[j][2] = s
           /\ \A K, s : \A j \in DOMAIN x : x[j][1] \in K /\ x[j][2] = s =>
                At(Append2(log, x), K, s) # {}
<1> DEFINE n == Append2(log, x)
           z == log.lines \o x
<1>1. log.lines \in Seq(Lines) /\ log.summary \in Summaries \cup {None}
  BY DEF Logs
<1>2. n.lines = z /\ n.summary = log.summary /\ n = [lines |-> z, summary |-> log.summary]
  <2>1. n = [log EXCEPT !.lines = z]
    BY DEF Append2
  <2>2. log \in [lines : Seq(Lines), summary : Summaries \cup {None}]
    BY DEF Logs
  <2> HIDE DEF n, z
  <2> QED
    BY <2>1, <2>2
<1>3. /\ z \in Seq(Lines) /\ Len(z) = Len(log.lines) + Len(x)
      /\ \A i \in 1 .. Len(log.lines) + Len(x) :
            z[i] = IF i <= Len(log.lines) THEN log.lines[i] ELSE x[i - Len(log.lines)]
  BY <1>1, ConcatProperties
<1>4. n \in Logs
  BY <1>1, <1>2, <1>3 DEF Logs
<1> HIDE DEF n, z
<1>5. /\ DOMAIN log.lines = 1 .. Len(log.lines) /\ Len(log.lines) \in Nat
      /\ DOMAIN x = 1 .. Len(x) /\ Len(x) \in Nat
      /\ DOMAIN z = 1 .. Len(log.lines) + Len(x)
  BY <1>1, <1>3, LenProperties
<1>6. \A i \in DOMAIN log.lines : i \in DOMAIN z /\ z[i] = log.lines[i]
  BY <1>3, <1>5
<1>7. \A i \in DOMAIN z : i \notin DOMAIN log.lines =>
          i - Len(log.lines) \in DOMAIN x /\ z[i] = x[i - Len(log.lines)]
  BY <1>3, <1>5
<1>8. \A j \in DOMAIN x : Len(log.lines) + j \in DOMAIN z /\ z[Len(log.lines) + j] = x[j]
  <2>1. ASSUME NEW j \in DOMAIN x
        PROVE  /\ Len(log.lines) + j \in 1 .. Len(log.lines) + Len(x)
               /\ ~(Len(log.lines) + j <= Len(log.lines))
               /\ (Len(log.lines) + j) - Len(log.lines) = j
    BY <1>5
  <2> QED
    BY <1>3, <1>5, <2>1
<1>9. \A K, s : At(log, K, s) \subseteq At(n, K, s)
  BY <1>2, <1>6 DEF At
<1>10. ASSUME NEW K, NEW s, At(n, K, s) # {}
       PROVE  At(log, K, s) # {} \/ \E j \in DOMAIN x : x[j][1] \in K /\ x[j][2] = s
  <2>1. PICK i \in DOMAIN z : z[i][1] \in K /\ z[i][2] = s
    BY <1>2, <1>10 DEF At
  <2>2. CASE i \in DOMAIN log.lines
    BY <1>6, <2>1, <2>2 DEF At
  <2>3. CASE i \notin DOMAIN log.lines
    BY <1>7, <2>1, <2>3
  <2> QED
    BY <2>2, <2>3
<1>11. ASSUME NEW K, NEW s, NEW j \in DOMAIN x, x[j][1] \in K, x[j][2] = s
       PROVE  At(n, K, s) # {}
  BY <1>2, <1>8, <1>11 DEF At
<1> QED
  BY <1>4, <1>9, <1>10, <1>11 DEF n
-----------------------------------------------------------------------------
(* What a run holds, place by place.                                       *)

\* Places where no script has run, and those of a run that has its verdict.
NotRun == {"idle", "claim", "before", "before_rest", "start"}
Packing == {"create", "failed", "fill", "done"}

\* A script that failed left a FAIL line, and a script with a PASS or FAIL
\* line ran, whatever the scripts themselves print.
LogTold(d) ==
    \A s \in Scripts :
        /\ d.ran[s] = "failed" => At(d.log, {"FAIL"}, s) # {}
        /\ d.ran[s] = "no" => Terminals(d.log, s) = {}

\* A script that passed is one that passes in the fingerprint of the start, or
\* it said that it skips.
RanAsRead(d) ==
    \A s \in Scripts :
        d.ran[s] = "passed" => d.before.script[s] = "passes" \/ At(d.log, {"SKIP"}, s) # {}

\* What evidence.decide makes of a log of the run.
Decision(log, d) ==
    decide(log, d.exit_code, d.timed_out, d.before, d.after, d.security, d.diff_check)

Judged(d) ==
    /\ d.published = EmptyLog \/ d.published.lines = d.log.lines
    /\ d.verdict = PASS => d.published = d.log /\ Decision(d.log, d) = PASS
    /\ ~d.touched /\ d.diff_check => d.after.rest # "whitespace"

\* A run with data d at place p, while the tree is t.
RecordOk(d, p, t) ==
    /\ d \in RunRecords
    /\ p \notin {"idle", "claim", "before"} => d.before \in Trees
    /\ p \in {"after_rest", "judge"} \cup Packing => d.after \in Trees
    /\ p \in NotRun => d.ran = [s \in Scripts |-> "no"]
    /\ p \notin Packing => d.next = 1
    /\ LogTold(d)
    /\ ~d.touched => RanAsRead(d)
    /\ ~d.touched /\ p \in Looking \ {"before"} => d.before = t
    /\ ~d.touched /\ p \in {"after_rest", "judge"} => d.after = t
    /\ p \in Packing => Judged(d)

\* The files of the package follow the place p of the run r that writes them,
\* with k the number of its next file.
PackageOk(r, p, k, files) ==
    /\ p = "create" =>
        /\ k \in 1..5
        /\ \A i \in 1..5 : i < k => files[REQUIRED_FILES[i]] = [by |-> r, full |-> TRUE]
    /\ p = "fill" => \A f \in Files : files[f] = [by |-> r, full |-> f # "sums"]
    /\ p = "done" => \A f \in Files : files[f] = [by |-> r, full |-> TRUE]
    /\ files["sums"] = [by |-> r, full |-> TRUE] => p = "done"

\* A finished run whose delivered files lead to PASS.
Backed(r, places, data) ==
    /\ r \in Runs
    /\ places[r] = "done"
    /\ Decision(data[r].published, data[r]) = PASS

\* What a gate g holds, place by place.
GateOk(g, files, places, data) ==
    /\ g \in GateRecords
    /\ g.pc \in {"idle", "registry", "whitespace", "verify"} => g.identity = "UNVERIFIED"
    /\ g.pc = "current_rest" => g.current \in Trees
    /\ g.pc \in {"current", "current_rest"} =>
        /\ g.by \in Runs
        /\ \A f \in Files : files[f] # None /\ files[f].by = g.by
        /\ g.checks # {}
        /\ g.checks = {PASS} => Backed(g.by, places, data)
    /\ g.pc = "report" /\ g.identity = "VERIFIED" =>
        /\ g.checks # {}
        /\ g.checks = {PASS} => Backed(g.by, places, data) /\ g.current = data[g.by].after
    /\ g.pc = "done" /\ g.result = PASS =>
        Backed(g.by, places, data) /\ g.current = data[g.by].after

\* What the static checks of an untouched gate g say of the tree t.
GateSaw(g, t) ==
    g.mode = "gate" /\ ~g.touched =>
        /\ g.pc = "whitespace" /\ g.static \subseteq {PASS} => t.rest # "noRegistry"
        /\ g.pc \in {"verify", "current", "current_rest", "report"}
                /\ g.static \subseteq {PASS} =>
            /\ t.rest = "ok"
            /\ g.pc = "report" /\ g.identity = "VERIFIED" => g.current.rest = "ok"
        /\ g.pc = "done" /\ g.result = PASS => g.current.rest = "ok"

\* The inductive invariant.
EvidenceInv ==
    /\ OutputInv
    /\ tree \in Trees /\ edits \in 0 .. MaxEdits
    /\ run \in [Runs -> RunRecords]
    /\ \A r \in Runs :
        RecordOk(run[r], pc[r], tree) /\ PackageOk(r, pc[r], run[r].next, pkg)
    /\ GateOk(gate, pkg, pc, run) /\ GateSaw(gate, tree)

-----------------------------------------------------------------------------
(* Each step of a run keeps what its record promises.                      *)

\* The record with one field changed, or a few, as a record.
LEMMA NewSecurity ==
    ASSUME NEW d, NEW t, RecordOk(d, "idle", t), NEW S, S \subseteq Scripts
    PROVE  RecordOk([d EXCEPT !.security = S], "claim", t)
BY DEF RecordOk, RunRecords, LogTold, RanAsRead, NotRun, Packing, Looking

LEMMA NewClaim ==
    ASSUME NEW d, NEW t, RecordOk(d, "claim", t)
    PROVE  RecordOk(d, "before", t)
BY DEF RecordOk, NotRun, Packing, Looking

LEMMA FreshRecord ==
    ASSUME NEW t
    PROVE  RecordOk(Fresh, "idle", t)
<1>1. EmptyLog \in Logs /\ EmptyLog.lines = <<>>
  BY EmptySeq DEF EmptyLog, Logs
<1>2. \A K, s : At(EmptyLog, K, s) = {}
  BY <1>1 DEF At
<1>3. 1 \in 1 .. Len(REQUIRED_FILES) + 1
  BY DEF REQUIRED_FILES
<1> HIDE DEF EmptyLog
<1>4. Fresh \in RunRecords /\ Fresh.ran = [s \in Scripts |-> "no"] /\ Fresh.log = EmptyLog
      /\ Fresh.next = 1
  BY <1>1, <1>3 DEF Fresh, RunRecords
<1>5. LogTold(Fresh) /\ RanAsRead(Fresh)
  BY <1>2, <1>4 DEF LogTold, RanAsRead, Terminals
<1> QED
  BY <1>4, <1>5 DEF RecordOk, NotRun, Packing, Looking

LEMMA NewBefore ==
    ASSUME NEW d, NEW t \in Trees
    PROVE  /\ RecordOk(d, "before", t) => RecordOk([d EXCEPT !.before = t], "before_rest", t)
           /\ RecordOk(d, "before_rest", t) => RecordOk([d EXCEPT !.before.rest = t.rest], "start", t)
<1>1. ASSUME RecordOk(d, "before", t)
      PROVE  RecordOk([d EXCEPT !.before = t], "before_rest", t)
  BY <1>1 DEF RecordOk, RunRecords, LogTold, RanAsRead, NotRun, Packing, Looking
<1>2. ASSUME RecordOk(d, "before_rest", t)
      PROVE  RecordOk([d EXCEPT !.before.rest = t.rest], "start", t)
  <2> DEFINE b == [d.before EXCEPT !.rest = t.rest]
  <2>1. d \in RunRecords /\ d.before \in Trees
    BY <1>2 DEF RecordOk
  <2>2. [d EXCEPT !.before.rest = t.rest] = [d EXCEPT !.before = b]
    BY <2>1 DEF RunRecords
  <2>3. b \in Trees /\ (d.before = t => b = t)
    BY <2>1 DEF Trees
  <2> HIDE DEF b
  <2>4. RecordOk([d EXCEPT !.before = b], "start", t)
    BY <1>2, <2>3 DEF RecordOk, RunRecords, LogTold, RanAsRead, NotRun, Packing, Looking
  <2> QED
    BY <2>2, <2>4
<1> QED
  BY <1>1, <1>2

LEMMA NewAfter ==
    ASSUME NEW d, NEW t \in Trees
    PROVE  /\ RecordOk(d, "ran", t) => RecordOk([d EXCEPT !.after = t], "after_rest", t)
           /\ RecordOk(d, "after_rest", t) => RecordOk([d EXCEPT !.after.rest = t.rest], "judge", t)
<1>1. ASSUME RecordOk(d, "ran", t)
      PROVE  RecordOk([d EXCEPT !.after = t], "after_rest", t)
  BY <1>1 DEF RecordOk, RunRecords, LogTold, RanAsRead, NotRun, Packing, Looking
<1>2. ASSUME RecordOk(d, "after_rest", t)
      PROVE  RecordOk([d EXCEPT !.after.rest = t.rest], "judge", t)
  <2> DEFINE b == [d.after EXCEPT !.rest = t.rest]
  <2>1. d \in RunRecords /\ d.after \in Trees
    BY <1>2 DEF RecordOk
  <2>2. [d EXCEPT !.after.rest = t.rest] = [d EXCEPT !.after = b]
    BY <2>1 DEF RunRecords
  <2>3. b \in Trees /\ (d.after = t => b = t)
    BY <2>1 DEF Trees
  <2> HIDE DEF b
  <2>4. RecordOk([d EXCEPT !.after = b], "judge", t)
    BY <1>2, <2>3 DEF RecordOk, RunRecords, LogTold, RanAsRead, NotRun, Packing, Looking
  <2> QED
    BY <2>2, <2>4
<1> QED
  BY <1>1, <1>2

LEMMA NewTodo ==
    ASSUME NEW d, NEW t, RecordOk(d, "start", t), NEW S, S \subseteq Scripts
    PROVE  RecordOk([d EXCEPT !.todo = S], "tests", t) /\ RecordOk(d, "ran", t)
BY DEF RecordOk, RunRecords, LogTold, RanAsRead, NotRun, Packing, Looking

\* Somebody edits the tree: a run that looks at it knows nothing any more.
LEMMA NewTree ==
    ASSUME NEW d, NEW t, NEW u, NEW p, RecordOk(d, p, t)
    PROVE  RecordOk([d EXCEPT !.touched = @ \/ p \in Looking], p, u)
<1> DEFINE b == d.touched \/ p \in Looking
           e == [d EXCEPT !.touched = b]
<1>1. b \in BOOLEAN /\ (p \in Looking => b) /\ (~b => ~d.touched)
  OBVIOUS
<1> HIDE DEF b
<1>2. /\ e \in RunRecords /\ e.touched = b /\ e.before = d.before /\ e.after = d.after
      /\ e.ran = d.ran /\ e.next = d.next /\ e.log = d.log /\ e.published = d.published
      /\ e.verdict = d.verdict /\ e.diff_check = d.diff_check
      /\ e.exit_code = d.exit_code /\ e.timed_out = d.timed_out /\ e.security = d.security
  BY <1>1 DEF RecordOk, RunRecords
<1> HIDE DEF e
<1>3. LogTold(e) /\ (~b => RanAsRead(e))
  BY <1>1, <1>2 DEF RecordOk, LogTold, RanAsRead
<1>4. Judged(d) => Judged(e)
  BY <1>1, <1>2 DEF Judged, Decision
<1>5. {"after_rest", "judge"} \subseteq Looking
  BY DEF Looking
<1>6. RecordOk(e, p, u)
  BY <1>1, <1>2, <1>3, <1>4, <1>5 DEF RecordOk
<1> QED
  BY <1>6 DEF e, b

\* A header line is no terminal line.
LEMMA NewHeader ==
    ASSUME NEW d, NEW t, RecordOk(d, "tests", t), NEW s \in Scripts
    PROVE  RecordOk([d EXCEPT !.log = Append2(@, <<<<"header", s>>>>)], "script", t)
<1> DEFINE x == <<<<"header", s>>>>
           n == Append2(d.log, x)
           e == [d EXCEPT !.log = n]
<1>1. d \in RunRecords /\ d.log \in Logs
  BY DEF RecordOk, RunRecords
<1>2. <<"header", s>> \in Lines
  BY DEF Lines
<1>3. x \in Seq(Lines) /\ \A j \in DOMAIN x : x[j][1] = "header"
  BY <1>2
<1> HIDE DEF x
<1>4. /\ n \in Logs
      /\ \A K, u : At(d.log, K, u) \subseteq At(n, K, u)
      /\ \A K, u : At(n, K, u) # {} => At(d.log, K, u) # {} \/ "header" \in K
  BY <1>1, <1>3, MoreLines
<1> HIDE DEF n
<1>5. e \in RunRecords /\ e.log = n /\ e.ran = d.ran /\ e.before = d.before
      /\ e.touched = d.touched /\ e.next = d.next
  BY <1>1, <1>4 DEF RunRecords
<1> HIDE DEF e
<1>6. LogTold(e)
  BY <1>4, <1>5 DEF RecordOk, LogTold, Terminals
<1>7. ~e.touched => RanAsRead(e)
  BY <1>4, <1>5 DEF RecordOk, RanAsRead
<1>8. RecordOk(e, "script", t)
  BY <1>5, <1>6, <1>7 DEF RecordOk, NotRun, Packing, Looking
<1> QED
  BY <1>8 DEF e, n, x

\* The lines at the end of a script whose content is c: the runner's own line
\* is among them and tells the truth.
EndPrinted(c, s) ==
    CASE c = "skips"  -> <<<<"SKIP", s>>>>
      [] c = "echoes" -> <<<<"PASS", s>>>>
      [] OTHER        -> <<>>

EndLine(c, s) == <<IF c \in {"passes", "skips"} THEN "PASS" ELSE "FAIL", s>>

Ending(c, s) == EndPrinted(c, s) \o <<EndLine(c, s)>>

\* Lines x tell what became of script s with content c.
Truthful(x, c, s) ==
    /\ x \in Seq(Lines)
    /\ \A j \in DOMAIN x : x[j][2] = s
    /\ c \notin {"passes", "skips"} => \E j \in DOMAIN x : x[j][1] = "FAIL"
    /\ c = "skips" => \E j \in DOMAIN x : x[j][1] = "SKIP"

LEMMA EndLines ==
    ASSUME NEW s \in Scripts, NEW c
    PROVE  Truthful(Ending(c, s), c, s)
<1> DEFINE x == Ending(c, s)
           b == EndLine(c, s)
           y == EndPrinted(c, s)
<1>1. b \in Lines /\ b[2] = s /\ (c \notin {"passes", "skips"} => b[1] = "FAIL")
  BY DEF Lines, EndLine
<1>2. /\ y \in Seq(Lines) /\ \A j \in DOMAIN y : y[j][2] = s
      /\ c = "skips" => 1 \in DOMAIN y /\ y[1][1] = "SKIP"
  <2>1. <<"SKIP", s>> \in Lines /\ <<"PASS", s>> \in Lines
    BY DEF Lines
  <2>2. CASE c = "skips"
    <3>1. y = <<<<"SKIP", s>>>>
      BY <2>2 DEF EndPrinted
    <3> QED
      BY <2>1, <3>1
  <2>3. CASE c = "echoes"
    <3>1. y = <<<<"PASS", s>>>>
      BY <2>3 DEF EndPrinted
    <3> QED
      BY <2>1, <2>3, <3>1
  <2>4. CASE c \notin {"skips", "echoes"}
    <3>1. y = <<>>
      BY <2>4 DEF EndPrinted
    <3> QED
      BY <2>4, <3>1, EmptySeq
  <2> QED
    BY <2>2, <2>3, <2>4
<1> HIDE DEF b, y, x
<1>3. x = y \o <<b>>
  BY DEF b, y, x, Ending
<1>4. /\ x \in Seq(Lines) /\ Len(y) + 1 \in DOMAIN x /\ x[Len(y) + 1] = b
      /\ \A j \in DOMAIN y : j \in DOMAIN x /\ x[j] = y[j]
      /\ \A j \in DOMAIN x : j \in DOMAIN y \/ x[j] = b
  BY <1>1, <1>2, <1>3, OneMoreLine
<1>5. \A j \in DOMAIN x : x[j][2] = s
  BY <1>1, <1>2, <1>4
<1>6. c \notin {"passes", "skips"} => \E j \in DOMAIN x : x[j][1] = "FAIL"
  BY <1>1, <1>4
<1>7. c = "skips" => \E j \in DOMAIN x : x[j][1] = "SKIP"
  BY <1>2, <1>4
<1> QED
  BY <1>4, <1>5, <1>6, <1>7 DEF x, Truthful

\* A script has ended, with c its content, and what it printed is in the log.
LEMMA NewResult ==
    ASSUME NEW d, NEW t \in Trees, RecordOk(d, "script", t), NEW s \in Scripts,
           NEW c, c = t.script[s],
           NEW how, how = IF c \in {"passes", "skips"} THEN "passed" ELSE "failed",
           NEW x, Truthful(x, c, s)
    PROVE  RecordOk([d EXCEPT !.todo = @ \ {s}, !.ran[s] = how, !.log = Append2(@, x)],
                    "tests", t)
<1> DEFINE n == Append2(d.log, x)
           ran == [d.ran EXCEPT ![s] = how]
           todo == d.todo \ {s}
           e == [d EXCEPT !.todo = todo, !.ran = ran, !.log = n]
<1>1. d \in RunRecords /\ d.log \in Logs /\ d.ran \in [Scripts -> {"no", "passed", "failed"}]
      /\ d.todo \subseteq Scripts
  BY DEF RecordOk, RunRecords
<1>2. /\ x \in Seq(Lines)
      /\ \A j \in DOMAIN x : x[j][2] = s
      /\ c \notin {"passes", "skips"} => \E j \in DOMAIN x : x[j][1] = "FAIL"
      /\ c = "skips" => \E j \in DOMAIN x : x[j][1] = "SKIP"
  BY DEF Truthful
<1>3. e = [d EXCEPT !.todo = @ \ {s}, !.ran[s] = how, !.log = Append2(@, x)]
  BY <1>1 DEF RunRecords
<1>4. how \in {"passed", "failed"} /\ (how = "failed" <=> c \notin {"passes", "skips"})
  OBVIOUS
<1>5. /\ n \in Logs
      /\ \A K, u : At(d.log, K, u) \subseteq At(n, K, u)
      /\ \A K, u : At(n, K, u) # {} => At(d.log, K, u) # {} \/ u = s
      /\ c \notin {"passes", "skips"} => At(n, {"FAIL"}, s) # {}
      /\ c = "skips" => At(n, {"SKIP"}, s) # {}
  <2>1. /\ n \in Logs
        /\ \A K, u : At(d.log, K, u) \subseteq At(n, K, u)
        /\ \A K, u : At(n, K, u) # {} =>
              At(d.log, K, u) # {} \/ \E j \in DOMAIN x : x[j][1] \in K /\ x[j][2] = u
        /\ \A K, u : \A j \in DOMAIN x : x[j][1] \in K /\ x[j][2] = u => At(n, K, u) # {}
    BY <1>1, <1>2, MoreLines
  <2> HIDE DEF n
  <2>2. \A K, u : At(n, K, u) # {} => At(d.log, K, u) # {} \/ u = s
    BY <1>2, <2>1
  <2>3. c \notin {"passes", "skips"} => At(n, {"FAIL"}, s) # {}
    BY <1>2, <2>1
  <2>4. c = "skips" => At(n, {"SKIP"}, s) # {}
    BY <1>2, <2>1
  <2> QED
    BY <2>1, <2>2, <2>3, <2>4
<1> HIDE DEF n
<1>6. ran \in [Scripts -> {"no", "passed", "failed"}] /\ ran[s] = how
      /\ \A u \in Scripts \ {s} : ran[u] = d.ran[u]
  BY <1>1, <1>4
<1>7. todo \subseteq Scripts
  BY <1>1
<1> HIDE DEF ran, todo
<1>8. e \in RunRecords /\ e.log = n /\ e.ran = ran /\ e.before = d.before
      /\ e.touched = d.touched /\ e.next = d.next
  BY <1>1, <1>5, <1>6, <1>7 DEF RunRecords
<1> HIDE DEF e
<1>9. LogTold(e)
  <2>1. LogTold(d)
    BY DEF RecordOk
  <2> QED
    BY <1>4, <1>5, <1>6, <1>8, <2>1 DEF LogTold, Terminals
<1>10. ~e.touched => RanAsRead(e)
  <2> SUFFICES ASSUME ~e.touched, NEW u \in Scripts, e.ran[u] = "passed"
               PROVE  e.before.script[u] = "passes" \/ At(e.log, {"SKIP"}, u) # {}
    BY DEF RanAsRead
  <2>1. e.before = t /\ RanAsRead(d)
    BY <1>8 DEF RecordOk, Looking
  <2>2. CASE u = s
    BY <1>4, <1>5, <1>6, <1>8, <2>1, <2>2
  <2>3. CASE u # s
    BY <1>5, <1>6, <1>8, <2>1, <2>3 DEF RanAsRead
  <2> QED
    BY <2>2, <2>3
<1>11. RecordOk(e, "tests", t)
  BY <1>8, <1>9, <1>10 DEF RecordOk, NotRun, Packing, Looking
<1> QED
  BY <1>3, <1>11

\* The summary and the exit code change none of what the lines tell.
LEMMA NewSummary ==
    ASSUME NEW d, NEW t, RecordOk(d, "tests", t), NEW m \in Summaries
    PROVE  RecordOk([d EXCEPT !.log.summary = m], "exiting", t)
<1> DEFINE n == [d.log EXCEPT !.summary = m]
<1>1. d \in RunRecords /\ d.log \in Logs
  BY DEF RecordOk, RunRecords
<1>2. [d EXCEPT !.log.summary = m] = [d EXCEPT !.log = n]
  BY <1>1 DEF RunRecords
<1>3. n \in Logs /\ n.lines = d.log.lines
  BY <1>1 DEF Logs
<1> HIDE DEF n
<1>4. \A K, s : At(n, K, s) = At(d.log, K, s)
  BY <1>3 DEF At
<1>5. RecordOk([d EXCEPT !.log = n], "exiting", t)
  BY <1>3, <1>4 DEF RecordOk, RunRecords, LogTold, RanAsRead, Terminals, NotRun, Packing, Looking
<1> QED
  BY <1>2, <1>5

LEMMA NewExit ==
    ASSUME NEW d, NEW t, NEW p \in {"tests", "script", "exiting"}, RecordOk(d, p, t)
    PROVE  /\ \A code \in {0, 1} : RecordOk([d EXCEPT !.exit_code = code], "ran", t)
           /\ RecordOk([d EXCEPT !.todo = {}, !.timed_out = TRUE], "ran", t)
           /\ RecordOk([d EXCEPT !.todo = {}, !.exit_code = 1], "ran", t)
<1>1. \A code \in {0, 1} : RecordOk([d EXCEPT !.exit_code = code], "ran", t)
  BY DEF RecordOk, RunRecords, LogTold, RanAsRead, NotRun, Packing, Looking
<1>2. RecordOk([d EXCEPT !.todo = {}, !.timed_out = TRUE], "ran", t)
  BY DEF RecordOk, RunRecords, LogTold, RanAsRead, NotRun, Packing, Looking
<1>3. RecordOk([d EXCEPT !.todo = {}, !.exit_code = 1], "ran", t)
  BY DEF RecordOk, RunRecords, LogTold, RanAsRead, NotRun, Packing, Looking
<1> QED
  BY <1>1, <1>2, <1>3

\* The verdict: PASS only when decide says so of the log that is delivered.
LEMMA NewVerdict ==
    ASSUME NEW d, NEW t \in Trees, RecordOk(d, "judge", t), NEW raw \in Captures(d.log),
           NEW pub \in {EmptyLog, raw}, NEW v \in Verdicts,
           NEW dc \in BOOLEAN, dc <=> t.rest # "whitespace",
           v = PASS => pub = raw /\ decide(raw, d.exit_code, d.timed_out, d.before, d.after,
                                          d.security, dc) = PASS
    PROVE  RecordOk([d EXCEPT !.diff_check = dc, !.log = raw, !.published = pub,
                              !.verdict = v], "create", t)
<1> DEFINE e == [d EXCEPT !.diff_check = dc, !.log = raw, !.published = pub, !.verdict = v]
<1>1. d \in RunRecords /\ d.log \in Logs
  BY DEF RecordOk, RunRecords
<1>2. raw \in Logs /\ raw.lines = d.log.lines
  <2>1. d.log \in [lines : Seq(Lines), summary : Summaries \cup {None}]
    BY <1>1 DEF Logs
  <2>2. CASE raw = d.log
    BY <1>1, <2>2
  <2>3. CASE raw = [d.log EXCEPT !.summary = None]
    BY <2>1, <2>3 DEF Logs
  <2> QED
    BY <2>2, <2>3 DEF Captures
<1>3. \A K, s : At(raw, K, s) = At(d.log, K, s)
  BY <1>2 DEF At
<1>4. EmptyLog \in Logs
  BY EmptySeq DEF EmptyLog, Logs
<1>5. /\ e \in RunRecords /\ e.touched = d.touched /\ e.before = d.before
      /\ e.after = d.after /\ e.ran = d.ran /\ e.next = d.next /\ e.log = raw
      /\ e.published = pub /\ e.verdict = v /\ e.diff_check = dc
      /\ e.exit_code = d.exit_code /\ e.timed_out = d.timed_out /\ e.security = d.security
  BY <1>1, <1>2, <1>4 DEF RunRecords
<1> HIDE DEF e
<1>6. LogTold(e) /\ (~e.touched => RanAsRead(e))
  BY <1>3, <1>5 DEF RecordOk, LogTold, RanAsRead, Terminals
<1>7. ~d.touched => d.after = t
  BY DEF RecordOk
<1>8. Judged(e)
  BY <1>5, <1>7 DEF Judged, Decision
<1>9. d.before \in Trees /\ d.after \in Trees
  BY DEF RecordOk
<1>10. RecordOk(e, "create", t)
  BY <1>5, <1>6, <1>8, <1>9 DEF RecordOk, NotRun, Packing, Looking
<1> QED
  BY <1>10 DEF e

\* Writing the files changes nothing that has been judged.
LEMMA NewNext ==
    ASSUME NEW d, NEW t, NEW p \in Packing, NEW q \in Packing, RecordOk(d, p, t), NEW k \in 1..6
    PROVE  RecordOk([d EXCEPT !.next = k], q, t) /\ RecordOk(d, q, t)
<1> DEFINE e == [d EXCEPT !.next = k]
<1>1. k \in 1 .. Len(REQUIRED_FILES) + 1
  BY DEF REQUIRED_FILES
<1>2. /\ e \in RunRecords /\ e.touched = d.touched /\ e.before = d.before
      /\ e.after = d.after /\ e.ran = d.ran /\ e.log = d.log
      /\ e.published = d.published /\ e.verdict = d.verdict /\ e.diff_check = d.diff_check
      /\ e.exit_code = d.exit_code /\ e.timed_out = d.timed_out /\ e.security = d.security
  BY <1>1 DEF RecordOk, RunRecords
<1> HIDE DEF e
<1>3. LogTold(e) /\ (~e.touched => RanAsRead(e))
  BY <1>2 DEF RecordOk, LogTold, RanAsRead
<1>4. Judged(e) /\ Judged(d)
  BY <1>2 DEF RecordOk, Judged, Decision
<1>5. RecordOk(e, q, t)
  BY <1>2, <1>3, <1>4 DEF RecordOk, NotRun, Packing, Looking
<1>6. RecordOk(d, q, t)
  BY <1>4 DEF RecordOk, NotRun, Packing, Looking
<1> QED
  BY <1>5, <1>6 DEF e

-----------------------------------------------------------------------------
(* Each step keeps the invariant.                                          *)

\* A step of a run that is not finished leaves the others, and what a gate
\* holds, alone.
LEMMA RunFrame ==
    ASSUME EvidenceInv, NEW r \in Runs, NEW place \in Places, NEW data,
           pc[r] # "done", Become(r, place, data), RecordOk(data, place, tree),
           \A f \in Files : pkg[f] # None => pkg'[f] # None /\ pkg'[f].by = pkg[f].by
    PROVE  /\ tree' = tree /\ edits' = edits
           /\ pc'[r] = place /\ run'[r] = data
           /\ \A q \in Runs \ {r} : pc'[q] = pc[q] /\ run'[q] = run[q]
           /\ run' \in [Runs -> RunRecords]
           /\ \A q \in Runs : RecordOk(run'[q], pc'[q], tree')
           /\ GateOk(gate', pkg', pc', run') /\ GateSaw(gate', tree')
<1>1. /\ pc \in [Runs -> Places] /\ run \in [Runs -> RunRecords]
      /\ pc' = [pc EXCEPT ![r] = place] /\ run' = [run EXCEPT ![r] = data]
      /\ tree' = tree /\ edits' = edits /\ gate' = gate
  BY DEF EvidenceInv, OutputInv, Become
<1>2. data \in RunRecords
  BY DEF RecordOk
<1>3. /\ pc'[r] = place /\ run'[r] = data
      /\ \A q \in Runs \ {r} : pc'[q] = pc[q] /\ run'[q] = run[q]
      /\ run' \in [Runs -> RunRecords]
  BY <1>1, <1>2
<1>4. \A q \in Runs : RecordOk(run'[q], pc'[q], tree')
  BY <1>1, <1>3 DEF EvidenceInv
<1>5. ASSUME NEW q, Backed(q, pc, run) PROVE Backed(q, pc', run') /\ run'[q] = run[q]
  BY <1>3, <1>5 DEF Backed
<1>6. GateOk(gate', pkg', pc', run')
  <2>1. GateOk(gate, pkg, pc, run)
    BY DEF EvidenceInv
  <2> QED
    BY <1>1, <1>5, <2>1 DEF GateOk
<1>7. GateSaw(gate', tree')
  BY <1>1 DEF EvidenceInv
<1> QED
  BY <1>1, <1>3, <1>4, <1>6, <1>7

\* A step of a run that writes no file.
LEMMA QuietStep ==
    ASSUME EvidenceInv, OutputInv', NEW r \in Runs, NEW place \in Places, NEW data,
           pc[r] # "done", Become(r, place, data), RecordOk(data, place, tree),
           pkg' = pkg, place \notin {"fill", "done"}, place = "create" => data.next = 1
    PROVE  EvidenceInv'
<1>1. /\ tree' = tree /\ edits' = edits
      /\ pc'[r] = place /\ run'[r] = data
      /\ \A q \in Runs \ {r} : pc'[q] = pc[q] /\ run'[q] = run[q]
      /\ run' \in [Runs -> RunRecords]
      /\ \A q \in Runs : RecordOk(run'[q], pc'[q], tree')
      /\ GateOk(gate', pkg', pc', run') /\ GateSaw(gate', tree')
  BY RunFrame
<1>2. ASSUME NEW q \in Runs PROVE PackageOk(q, pc'[q], run'[q].next, pkg')
  <2>1. PackageOk(q, pc[q], run[q].next, pkg)
    BY DEF EvidenceInv
  <2>2. CASE q # r
    BY <1>1, <2>1, <2>2
  <2>3. CASE q = r
    BY <1>1, <2>1, <2>3 DEF PackageOk
  <2> QED
    BY <2>2, <2>3
<1> QED
  BY <1>1, <1>2 DEF EvidenceInv

LEMMA GotoStep ==
    ASSUME EvidenceInv, OutputInv', NEW r \in Runs, NEW from \in Places, NEW to \in Places,
           NEW data, Goto(r, from, to, data), from # "done",
           to \notin {"create", "fill", "done"},
           RecordOk(run[r], from, tree) => RecordOk(data, to, tree)
    PROVE  EvidenceInv'
<1>1. pc[r] = from /\ Become(r, to, data) /\ pkg' = pkg
  BY DEF Goto
<1>2. RecordOk(run[r], from, tree)
  BY <1>1 DEF EvidenceInv
<1> QED
  BY <1>1, <1>2, QuietStep

\* Before the scripts run.
LEMMA EvidenceBegin ==
    ASSUME EvidenceInv, OutputInv', NEW r \in Runs,
           Prepare(r) \/ Claim(r) \/ TakeBefore(r) \/ StartTests(r)
    PROVE  EvidenceInv'
<1>1. {"idle", "claim", "before", "before_rest", "start", "tests", "ran"} \subseteq Places
  BY DEF Places, Looking
<1>2. tree \in Trees
  BY DEF EvidenceInv
<1>3. CASE Prepare(r)
  <2>1. security_scripts \subseteq Scripts
    BY EvidenceAssumption DEF security_scripts
  <2>2. Goto(r, "idle", "claim", [run[r] EXCEPT !.security = security_scripts])
    BY <1>3 DEF Prepare
  <2> HIDE DEF security_scripts
  <2>3. RecordOk(run[r], "idle", tree) =>
            RecordOk([run[r] EXCEPT !.security = security_scripts], "claim", tree)
    BY <2>1, NewSecurity
  <2> QED
    BY <1>1, <2>2, <2>3, GotoStep
<1>4. CASE Claim(r)
  <2>1. pc[r] = "claim" /\ pkg' = pkg
        /\ Become(r, IF private THEN "idle" ELSE "before", IF private THEN Fresh ELSE run[r])
    BY <1>4 DEF Claim
  <2>2. RecordOk(run[r], "claim", tree)
    BY <2>1 DEF EvidenceInv
  <2>3. CASE private
    <3>1. Become(r, "idle", Fresh)
      BY <2>1, <2>3
    <3>2. RecordOk(Fresh, "idle", tree)
      BY FreshRecord
    <3> QED
      BY <1>1, <2>1, <3>1, <3>2, QuietStep
  <2>4. CASE ~private
    <3>1. Become(r, "before", run[r])
      BY <2>1, <2>4
    <3>2. RecordOk(run[r], "before", tree)
      BY <2>2, NewClaim
    <3> QED
      BY <1>1, <2>1, <3>1, <3>2, QuietStep
  <2> QED
    BY <2>3, <2>4
<1>5. CASE TakeBefore(r)
  <2>1. CASE Goto(r, "before", "before_rest", [run[r] EXCEPT !.before = tree])
    <3>1. RecordOk(run[r], "before", tree) =>
              RecordOk([run[r] EXCEPT !.before = tree], "before_rest", tree)
      BY <1>2, NewBefore
    <3> QED
      BY <1>1, <2>1, <3>1, GotoStep
  <2>2. CASE Goto(r, "before_rest", "start", [run[r] EXCEPT !.before.rest = tree.rest])
    <3>1. RecordOk(run[r], "before_rest", tree) =>
              RecordOk([run[r] EXCEPT !.before.rest = tree.rest], "start", tree)
      BY <1>2, NewBefore
    <3> QED
      BY <1>1, <2>2, <3>1, GotoStep
  <2> QED
    BY <1>5, <2>1, <2>2 DEF TakeBefore
<1>6. CASE StartTests(r)
  <2>1. expected(tree) \subseteq Scripts
    BY DEF expected
  <2>2. CASE Goto(r, "start", "tests", [run[r] EXCEPT !.todo = expected(tree)])
    <3>1. RecordOk(run[r], "start", tree) =>
              RecordOk([run[r] EXCEPT !.todo = expected(tree)], "tests", tree)
      BY <2>1, NewTodo
    <3> QED
      BY <1>1, <2>2, <3>1, GotoStep
  <2>3. CASE Goto(r, "start", "ran", run[r])
    <3>1. RecordOk(run[r], "start", tree) => RecordOk(run[r], "ran", tree)
      BY <2>1, NewTodo
    <3> QED
      BY <1>1, <2>3, <3>1, GotoStep
  <2> QED
    BY <1>6, <2>2, <2>3 DEF StartTests
<1> QED
  BY <1>3, <1>4, <1>5, <1>6

\* While the scripts run.
LEMMA EvidenceScripts ==
    ASSUME EvidenceInv, OutputInv', NEW r \in Runs, StartScript(r) \/ EndScript(r)
    PROVE  EvidenceInv'
<1>1. {"tests", "script"} \subseteq Places
  BY DEF Places, Looking
<1>2. tree \in Trees
  BY DEF EvidenceInv
<1>3. CASE StartScript(r)
  <2>1. PICK s \in Scripts :
            Goto(r, "tests", "script", [run[r] EXCEPT !.log = Append2(@, <<<<"header", s>>>>)])
    BY <1>3 DEF StartScript
  <2> DEFINE data == [run[r] EXCEPT !.log = Append2(@, <<<<"header", s>>>>)]
  <2>2. RecordOk(run[r], "tests", tree) => RecordOk(data, "script", tree)
    BY NewHeader
  <2> HIDE DEF data
  <2>3. Goto(r, "tests", "script", data)
    BY <2>1 DEF data
  <2> QED
    BY <1>1, <2>2, <2>3, GotoStep
<1>4. CASE EndScript(r)
  <2>1. PICK s \in Scripts :
            LET c == tree.script[s]
                ok == c \in {"passes", "skips"}
            IN  Goto(r, "script", "tests", [run[r] EXCEPT !.todo = @ \ {s},
                    !.ran[s] = IF ok THEN "passed" ELSE "failed",
                    !.log = Append2(@, Ending(c, s))])
    BY <1>4 DEF EndScript, Ending, EndPrinted, EndLine
  <2> DEFINE c == tree.script[s]
             how == IF c \in {"passes", "skips"} THEN "passed" ELSE "failed"
             x == Ending(c, s)
             data == [run[r] EXCEPT !.todo = @ \ {s}, !.ran[s] = how, !.log = Append2(@, x)]
  <2>2. Goto(r, "script", "tests", data)
    BY <2>1
  <2>3. Truthful(x, c, s)
    BY EndLines
  <2>4. ASSUME RecordOk(run[r], "script", tree) PROVE RecordOk(data, "tests", tree)
    <3> HIDE DEF x, data
    <3>1. c = tree.script[s] /\ how = IF c \in {"passes", "skips"} THEN "passed" ELSE "failed"
      OBVIOUS
    <3> HIDE DEF c, how
    <3>2. RecordOk([run[r] EXCEPT !.todo = @ \ {s}, !.ran[s] = how, !.log = Append2(@, x)],
                    "tests", tree)
      BY <1>2, <2>3, <2>4, <3>1, NewResult
    <3> QED
      BY <3>2 DEF data
  <2> HIDE DEF data
  <2> QED
    BY <1>1, <2>2, <2>4, GotoStep
<1> QED
  BY <1>3, <1>4

\* From the summary to the second fingerprint.
LEMMA EvidenceEnd ==
    ASSUME EvidenceInv, OutputInv', NEW r \in Runs,
           Summarise(r) \/ Exit(r) \/ CutShort(r) \/ TakeAfter(r)
    PROVE  EvidenceInv'
<1>1. {"tests", "script", "exiting", "ran", "after_rest", "judge"} \subseteq Places
  BY DEF Places, Looking
<1>2. tree \in Trees
  BY DEF EvidenceInv
<1>3. CASE Summarise(r)
  <2> DEFINE m == IF Ran(r, "no") = Scripts
                  THEN [passed |-> 0, total |-> 1, failed |-> 1]
                  ELSE [passed |-> Cardinality(Ran(r, "passed")),
                        total  |-> Cardinality(Scripts \ Ran(r, "no")),
                        failed |-> Cardinality(Ran(r, "failed"))]
  <2>1. Goto(r, "tests", "exiting", [run[r] EXCEPT !.log.summary = m])
    BY <1>3 DEF Summarise
  <2>2. ASSUME NEW S, S \subseteq Scripts PROVE Cardinality(S) \in Nat
    BY <2>2, EvidenceAssumption, FS_Subset, FS_CardinalityType
  <2>3. /\ Cardinality(Ran(r, "passed")) \in Nat
        /\ Cardinality(Scripts \ Ran(r, "no")) \in Nat
        /\ Cardinality(Ran(r, "failed")) \in Nat
    <3>1. Ran(r, "passed") \subseteq Scripts /\ Ran(r, "failed") \subseteq Scripts
          /\ Scripts \ Ran(r, "no") \subseteq Scripts
      BY DEF Ran
    <3> QED
      BY <2>2, <3>1
  <2>4. m \in Summaries
    BY <2>3 DEF Summaries
  <2> HIDE DEF m
  <2>5. RecordOk(run[r], "tests", tree) =>
            RecordOk([run[r] EXCEPT !.log.summary = m], "exiting", tree)
    BY <2>4, NewSummary
  <2> QED
    BY <1>1, <2>1, <2>5, GotoStep
<1>4. CASE Exit(r)
  <2> DEFINE code == IF run[r].log.summary.failed = 0 THEN 0 ELSE 1
  <2>1. Goto(r, "exiting", "ran", [run[r] EXCEPT !.exit_code = code]) /\ code \in {0, 1}
    BY <1>4 DEF Exit
  <2> HIDE DEF code
  <2>2. RecordOk(run[r], "exiting", tree) =>
            RecordOk([run[r] EXCEPT !.exit_code = code], "ran", tree)
    BY <2>1, NewExit
  <2> QED
    BY <1>1, <2>1, <2>2, GotoStep
<1>5. CASE CutShort(r)
  <2>1. /\ pc[r] \in {"tests", "script", "exiting"} /\ pkg' = pkg
        /\ \/ Become(r, "ran", [run[r] EXCEPT !.todo = {}, !.timed_out = TRUE])
           \/ Become(r, "ran", [run[r] EXCEPT !.todo = {}, !.exit_code = 1])
    BY <1>5 DEF CutShort
  <2>2. RecordOk(run[r], pc[r], tree)
    BY DEF EvidenceInv
  <2>3. /\ RecordOk([run[r] EXCEPT !.todo = {}, !.timed_out = TRUE], "ran", tree)
        /\ RecordOk([run[r] EXCEPT !.todo = {}, !.exit_code = 1], "ran", tree)
    BY <2>1, <2>2, NewExit
  <2> QED
    BY <1>1, <2>1, <2>3, QuietStep
<1>6. CASE TakeAfter(r)
  <2>1. CASE Goto(r, "ran", "after_rest", [run[r] EXCEPT !.after = tree])
    <3>1. RecordOk(run[r], "ran", tree) =>
              RecordOk([run[r] EXCEPT !.after = tree], "after_rest", tree)
      BY <1>2, NewAfter
    <3> QED
      BY <1>1, <2>1, <3>1, GotoStep
  <2>2. CASE Goto(r, "after_rest", "judge", [run[r] EXCEPT !.after.rest = tree.rest])
    <3>1. RecordOk(run[r], "after_rest", tree) =>
              RecordOk([run[r] EXCEPT !.after.rest = tree.rest], "judge", tree)
      BY <1>2, NewAfter
    <3> QED
      BY <1>1, <2>2, <3>1, GotoStep
  <2> QED
    BY <1>6, <2>1, <2>2 DEF TakeAfter
<1> QED
  BY <1>3, <1>4, <1>5, <1>6

\* The verdict.
LEMMA EvidenceJudge ==
    ASSUME EvidenceInv, OutputInv', NEW r \in Runs, JudgeRun(r)
    PROVE  EvidenceInv'
<1> DEFINE dc == tree.rest # "whitespace"
           said(raw) == decide(raw, run[r].exit_code, run[r].timed_out, run[r].before,
                               run[r].after, run[r].security, dc)
<1>1. PICK raw \in Captures(run[r].log), exceeds \in BOOLEAN, withheld \in BOOLEAN :
          Goto(r, "judge", "create", [run[r] EXCEPT
                   !.diff_check = dc,
                   !.log = raw,
                   !.published = IF withheld THEN EmptyLog ELSE raw,
                   !.verdict = IF (exceeds \/ withheld) /\ said(raw) # FAIL THEN INCONCLUSIVE
                               ELSE said(raw)])
  BY DEF JudgeRun
<1> DEFINE pub == IF withheld THEN EmptyLog ELSE raw
           v == IF (exceeds \/ withheld) /\ said(raw) # FAIL THEN INCONCLUSIVE ELSE said(raw)
           data == [run[r] EXCEPT !.diff_check = dc, !.log = raw, !.published = pub, !.verdict = v]
<1>2. Goto(r, "judge", "create", data)
  BY <1>1
<1>3. said(raw) \in Verdicts
  BY DecideVerdict
<1>4. v \in Verdicts /\ (v = PASS => pub = raw /\ said(raw) = PASS)
  <2> HIDE DEF said
  <2> QED
    BY <1>3 DEF Verdicts, PASS, FAIL, INCONCLUSIVE
<1>5. pub \in {EmptyLog, raw} /\ dc \in BOOLEAN /\ (dc <=> tree.rest # "whitespace")
  OBVIOUS
<1>6. tree \in Trees /\ pc[r] = "judge" /\ RecordOk(run[r], "judge", tree)
  BY <1>2 DEF EvidenceInv, Goto
<1>7. v = PASS => pub = raw /\ decide(raw, run[r].exit_code, run[r].timed_out, run[r].before,
                                     run[r].after, run[r].security, dc) = PASS
  BY <1>4
<1> HIDE DEF v, pub, dc
<1>8. RecordOk(data, "create", tree)
  BY <1>4, <1>5, <1>6, <1>7, NewVerdict
<1>9. data.next = 1
  <2>1. run[r] \in RunRecords /\ run[r].next = 1
    BY <1>6 DEF RecordOk, Packing
  <2> QED
    BY <2>1 DEF RunRecords
<1> HIDE DEF data
<1>10. Become(r, "create", data) /\ pkg' = pkg /\ "create" \in Places
  BY <1>2 DEF Goto, Places
<1> QED
  BY <1>6, <1>8, <1>9, <1>10, QuietStep

\* While a run writes its files the package has files of no other.
LEMMA OthersIdle ==
    ASSUME EvidenceInv, NEW r \in Runs, pc[r] \in Packing, NEW q \in Runs, q # r
    PROVE  pc[q] \notin Owning
BY DEF EvidenceInv, OutputInv, Owning, Packing

LEMMA FileNumbers ==
    /\ \A i \in 1..5 : REQUIRED_FILES[i] \in Files /\ (REQUIRED_FILES[i] = "sums" <=> i = 5)
    /\ \A i, j \in 1..5 : REQUIRED_FILES[i] = REQUIRED_FILES[j] => i = j
    /\ \A f \in Files : \E i \in 1..5 : f = REQUIRED_FILES[i]
    /\ "sums" \in Files /\ "manifest" \in Files /\ "log" \in Files
    /\ "exitcode" \in Files /\ "results" \in Files
<1>1. /\ REQUIRED_FILES[1] = "log" /\ REQUIRED_FILES[2] = "exitcode"
      /\ REQUIRED_FILES[3] = "results" /\ REQUIRED_FILES[4] = "manifest"
      /\ REQUIRED_FILES[5] = "sums"
      /\ DOMAIN REQUIRED_FILES = 1..5
  BY DEF REQUIRED_FILES
<1>2. \A i \in 1..5 : i = 1 \/ i = 2 \/ i = 3 \/ i = 4 \/ i = 5
  OBVIOUS
<1> QED
  BY <1>1, <1>2 DEF Files

\* Creating the next file, or failing because somebody else has.
LEMMA EvidenceCreate ==
    ASSUME EvidenceInv, OutputInv', NEW r \in Runs, CreateFile(r)
    PROVE  EvidenceInv'
<1> DEFINE k == run[r].next
           f == REQUIRED_FILES[k]
           b == f # "sums"
           new == pkg[f] = None
           place == IF ~new THEN "failed" ELSE IF f = "sums" THEN "fill" ELSE "create"
           data == [run[r] EXCEPT !.next = @ + 1]
<1>1. /\ pc[r] = "create"
      /\ pkg' = IF new THEN [pkg EXCEPT ![f] = [by |-> r, full |-> b]] ELSE pkg
      /\ Become(r, place, data)
  BY DEF CreateFile
<1>2. /\ RecordOk(run[r], "create", tree) /\ PackageOk(r, "create", k, pkg)
      /\ run[r] \in RunRecords /\ pkg \in PackageFiles
  BY <1>1 DEF EvidenceInv, OutputInv
<1>3. k \in 1..5 /\ \A i \in 1..5 : i < k => pkg[REQUIRED_FILES[i]] = [by |-> r, full |-> TRUE]
  BY <1>2 DEF PackageOk
<1>4. f \in Files /\ (f = "sums" <=> k = 5) /\ \A j \in 1..5 : REQUIRED_FILES[j] = f => j = k
  BY <1>3, FileNumbers
<1>5. data = [run[r] EXCEPT !.next = k + 1] /\ k + 1 \in 1..6 /\ data.next = k + 1
  BY <1>2, <1>3 DEF RunRecords
<1>6. place \in Packing /\ place \in Places /\ "create" \in Packing
  BY DEF Packing, Places
<1> HIDE DEF data, place, f, k
<1>7. RecordOk(data, place, tree)
  BY <1>2, <1>5, <1>6, NewNext
<1>8. \A g \in Files : pkg[g] # None => pkg'[g] = pkg[g]
  BY <1>1, <1>2 DEF PackageFiles
<1>9. /\ tree' = tree /\ edits' = edits
      /\ pc'[r] = place /\ run'[r] = data
      /\ \A q \in Runs \ {r} : pc'[q] = pc[q] /\ run'[q] = run[q]
      /\ run' \in [Runs -> RunRecords]
      /\ \A q \in Runs : RecordOk(run'[q], pc'[q], tree')
      /\ GateOk(gate', pkg', pc', run') /\ GateSaw(gate', tree')
  BY <1>1, <1>6, <1>7, <1>8, RunFrame
<1>10. ASSUME NEW q \in Runs \ {r} PROVE PackageOk(q, pc'[q], run'[q].next, pkg')
  <2>1. pc'[q] \notin Owning
    BY <1>1, <1>6, <1>9, OthersIdle
  <2>2. pkg'["sums"] # [by |-> q, full |-> TRUE]
    <3>1. pkg["sums"] # [by |-> q, full |-> TRUE]
      BY <1>9, <2>1 DEF EvidenceInv, PackageOk, Owning
    <3>2. pkg'["sums"] = pkg["sums"] \/ pkg'["sums"] = [by |-> r, full |-> b]
      BY <1>1, <1>2, FileNumbers DEF PackageFiles
    <3> QED
      BY <3>1, <3>2
  <2> QED
    BY <2>1, <2>2 DEF PackageOk, Owning
<1>11. PackageOk(r, place, k + 1, pkg')
  <2>1. pkg["sums"] # [by |-> r, full |-> TRUE]
    BY <1>2 DEF PackageOk
  <2>2. CASE ~new
    <3>1. place = "failed" /\ pkg' = pkg
      BY <1>1, <2>2 DEF place
    <3> QED
      BY <2>1, <3>1 DEF PackageOk
  <2>3. CASE new /\ k # 5
    <3>1. place = "create" /\ b /\ pkg' = [pkg EXCEPT ![f] = [by |-> r, full |-> b]]
      BY <1>1, <1>4, <2>3 DEF place
    <3>2. pkg'[f] = [by |-> r, full |-> TRUE] /\ \A g \in Files \ {f} : pkg'[g] = pkg[g]
      BY <1>2, <1>4, <3>1 DEF PackageFiles
    <3>3. pkg'["sums"] # [by |-> r, full |-> TRUE]
      BY <1>4, <2>1, <2>3, <3>2, FileNumbers
    <3>4. ASSUME NEW i \in 1..5, i < k + 1
          PROVE  pkg'[REQUIRED_FILES[i]] = [by |-> r, full |-> TRUE]
      <4>1. CASE i = k
        BY <3>2, <4>1 DEF f
      <4>2. CASE i # k
        <5>1. i < k
          BY <1>3, <3>4, <4>2
        <5>2. REQUIRED_FILES[i] \in Files \ {f}
          BY <1>4, <4>2, FileNumbers
        <5> QED
          BY <1>3, <3>2, <5>1, <5>2
      <4> QED
        BY <4>1, <4>2
    <3>5. k + 1 \in 1..5
      BY <1>3, <2>3
    <3> QED
      BY <3>1, <3>3, <3>4, <3>5 DEF PackageOk
  <2>4. CASE new /\ k = 5
    <3>1. f = "sums" /\ place = "fill" /\ ~b /\ pkg' = [pkg EXCEPT ![f] = [by |-> r, full |-> b]]
      BY <1>1, <1>4, <2>4 DEF place
    <3>2. pkg'["sums"] = [by |-> r, full |-> FALSE] /\ \A g \in Files \ {"sums"} : pkg'[g] = pkg[g]
      BY <1>2, <1>4, <3>1 DEF PackageFiles
    <3>3. ASSUME NEW g \in Files, g # "sums" PROVE pkg'[g] = [by |-> r, full |-> TRUE]
      <4>1. PICK i \in 1..5 : g = REQUIRED_FILES[i]
        BY FileNumbers
      <4>2. i < k
        BY <2>4, <3>3, <4>1, FileNumbers
      <4> QED
        BY <1>3, <3>2, <3>3, <4>1, <4>2
    <3>4. pkg'["sums"] # [by |-> r, full |-> TRUE]
      BY <3>2
    <3>5. \A g \in Files : pkg'[g] = [by |-> r, full |-> g # "sums"]
      BY <3>2, <3>3
    <3> QED
      BY <3>1, <3>4, <3>5 DEF PackageOk
  <2> QED
    BY <2>2, <2>3, <2>4
<1> QED
  BY <1>5, <1>9, <1>10, <1>11 DEF EvidenceInv

\* SHA256SUMS.txt is complete: the run is done.
LEMMA EvidenceFill ==
    ASSUME EvidenceInv, OutputInv', NEW r \in Runs, FillSums(r)
    PROVE  EvidenceInv'
<1>1. /\ pc[r] = "fill" /\ Become(r, "done", run[r])
      /\ pkg' = [pkg EXCEPT !["sums"] = [by |-> r, full |-> TRUE]]
  BY DEF FillSums
<1>2. /\ RecordOk(run[r], "fill", tree)
      /\ \A f \in Files : pkg[f] = [by |-> r, full |-> f # "sums"]
      /\ pkg \in PackageFiles
  BY <1>1 DEF EvidenceInv, OutputInv, PackageOk
<1>3. \A f \in Files : pkg'[f] = [by |-> r, full |-> TRUE]
  <2> DEFINE full == [by |-> r, full |-> TRUE]
  <2>1. \A f \in Files : f # "sums" => pkg[f] = full
    BY <1>2
  <2> HIDE DEF full
  <2>2. pkg' = [pkg EXCEPT !["sums"] = full]
    BY <1>1 DEF full
  <2>3. \A f \in Files : pkg'[f] = full
    BY <1>2, <2>1, <2>2 DEF PackageFiles
  <2> QED
    BY <2>3 DEF full
<1>4. {"fill", "done"} \subseteq Packing /\ "done" \in Places
  BY DEF Packing, Places
<1>5. RecordOk(run[r], "done", tree)
  <2>1. 1 \in 1..6
    OBVIOUS
  <2> QED
    BY <1>2, <1>4, <2>1, NewNext
<1>6. \A f \in Files : pkg'[f] # None /\ pkg'[f].by = pkg[f].by
  <2>1. [by |-> r, full |-> TRUE] \in [by : Runs, full : BOOLEAN]
    OBVIOUS
  <2>2. [by |-> r, full |-> TRUE] # None
    BY <2>1, EvidenceAssumption, Zenon
  <2>3. ASSUME NEW f \in Files PROVE pkg[f].by = r /\ pkg'[f].by = r
    <3>1. pkg[f] = [by |-> r, full |-> f # "sums"] /\ pkg'[f] = [by |-> r, full |-> TRUE]
      BY <1>2, <1>3
    <3> QED
      BY <3>1
  <2> QED
    BY <1>3, <2>2, <2>3
<1>7. /\ tree' = tree /\ edits' = edits
      /\ pc'[r] = "done" /\ run'[r] = run[r]
      /\ \A q \in Runs \ {r} : pc'[q] = pc[q] /\ run'[q] = run[q]
      /\ run' \in [Runs -> RunRecords]
      /\ \A q \in Runs : RecordOk(run'[q], pc'[q], tree')
      /\ GateOk(gate', pkg', pc', run') /\ GateSaw(gate', tree')
  BY <1>1, <1>4, <1>5, <1>6, RunFrame
<1>8. PackageOk(r, "done", run[r].next, pkg')
  BY <1>3 DEF PackageOk
<1>9. ASSUME NEW q \in Runs \ {r} PROVE PackageOk(q, pc'[q], run'[q].next, pkg')
  <2>1. pc'[q] \notin Owning
    BY <1>1, <1>4, <1>7, OthersIdle
  <2>2. pkg'["sums"] # [by |-> q, full |-> TRUE]
    BY <1>3, FileNumbers
  <2> QED
    BY <2>1, <2>2 DEF PackageOk, Owning
<1> QED
  BY <1>7, <1>8, <1>9 DEF EvidenceInv

\* An edit of the tree.
LEMMA EvidenceEdit ==
    ASSUME EvidenceInv, OutputInv', NEW t \in Worktrees, Edit(t)
    PROVE  EvidenceInv'
<1> DEFINE data(r) == [run[r] EXCEPT !.touched = @ \/ pc[r] \in Looking]
           b == gate.touched \/ gate.pc \in GateLooking
<1>1. /\ edits < MaxEdits /\ tree' = t /\ edits' = edits + 1 /\ pkg' = pkg /\ pc' = pc
      /\ run' = [r \in Runs |-> data(r)]
      /\ gate' = [gate EXCEPT !.touched = b]
  BY DEF Edit
<1>2. t \in Trees
  BY EvidenceAssumption
<1>3. edits' \in 0 .. MaxEdits
  BY <1>1, EvidenceAssumption DEF EvidenceInv
<1>4. ASSUME NEW r \in Runs
      PROVE  /\ RecordOk(data(r), pc[r], t) /\ data(r) \in RunRecords
             /\ data(r).next = run[r].next /\ data(r).after = run[r].after
             /\ Decision(data(r).published, data(r)) = Decision(run[r].published, run[r])
  <2>1. RecordOk(run[r], pc[r], tree) /\ run[r] \in RunRecords
    BY DEF EvidenceInv
  <2>2. RecordOk(data(r), pc[r], t)
    BY <2>1, NewTree
  <2>3. /\ data(r).next = run[r].next /\ data(r).after = run[r].after
        /\ data(r).published = run[r].published /\ data(r).exit_code = run[r].exit_code
        /\ data(r).timed_out = run[r].timed_out /\ data(r).before = run[r].before
        /\ data(r).security = run[r].security /\ data(r).diff_check = run[r].diff_check
    BY <2>1 DEF RunRecords
  <2>4. data(r) \in RunRecords
    BY <2>2 DEF RecordOk
  <2> QED
    BY <2>2, <2>3, <2>4 DEF Decision
<1> HIDE DEF data
<1>5. run' \in [Runs -> RunRecords] /\ \A r \in Runs : run'[r] = data(r)
  BY <1>1, <1>4
<1>6. \A r \in Runs : RecordOk(run'[r], pc'[r], tree') /\ PackageOk(r, pc'[r], run'[r].next, pkg')
  BY <1>1, <1>4, <1>5 DEF EvidenceInv
<1>7. ASSUME NEW q, Backed(q, pc, run) PROVE Backed(q, pc', run') /\ run'[q].after = run[q].after
  BY <1>1, <1>4, <1>5, <1>7 DEF Backed
<1>8. GateOk(gate, pkg, pc, run) /\ GateSaw(gate, tree) /\ gate \in GateRecords
  BY DEF EvidenceInv, GateOk
<1>9. b \in BOOLEAN /\ (gate.pc \in GateLooking => b) /\ (~b => ~gate.touched)
  OBVIOUS
<1> HIDE DEF b
<1>10. /\ gate' \in GateRecords /\ gate'.touched = b /\ gate'.pc = gate.pc
       /\ gate'.mode = gate.mode /\ gate'.static = gate.static /\ gate'.checks = gate.checks
       /\ gate'.current = gate.current /\ gate'.identity = gate.identity
       /\ gate'.result = gate.result /\ gate'.by = gate.by
  BY <1>1, <1>8, <1>9 DEF GateRecords
<1>11. GateOk(gate', pkg', pc', run')
  BY <1>1, <1>7, <1>8, <1>10 DEF GateOk
<1>12. GateSaw(gate', tree')
  BY <1>8, <1>9, <1>10 DEF GateSaw, GateLooking
<1> QED
  BY <1>1, <1>2, <1>3, <1>5, <1>6, <1>11, <1>12 DEF EvidenceInv

\* A step of the gate changes nothing but the gate.
LEMMA GateFrame ==
    ASSUME EvidenceInv, OutputInv', NEW from, NEW g, GateBecomes(from, g),
           gate.pc = from /\ GateOk(gate, pkg, pc, run) /\ GateSaw(gate, tree)
               /\ gate \in GateRecords =>
           GateOk(g, pkg, pc, run) /\ GateSaw(g, tree)
    PROVE  EvidenceInv'
<1>1. gate.pc = from /\ gate' = g /\ UNCHANGED <<tree, edits, private, pkg, pc, run>>
  BY DEF GateBecomes
<1>2. GateOk(g, pkg, pc, run) /\ GateSaw(g, tree)
  BY <1>1 DEF EvidenceInv, GateOk
<1> QED
  BY <1>1, <1>2 DEF EvidenceInv

LEMMA StatusPass ==
    ASSUME NEW b PROVE Status(b) \in Verdicts /\ (Status(b) = PASS <=> b)
BY DEF Status, Verdicts, PASS, FAIL

\* The command, the static checks, and a package with files missing.
LEMMA EvidenceStatic ==
    ASSUME EvidenceInv, OutputInv',
           \/ \E mode \in {"verify", "gate"} : Command(mode)
           \/ CheckRegistry \/ CheckWhitespace \/ VerifyIncomplete
    PROVE  EvidenceInv'
<1>1. tree \in Trees
  BY DEF EvidenceInv
<1>2. ASSUME NEW mode \in {"verify", "gate"}, Command(mode) PROVE EvidenceInv'
  <2> DEFINE g == [NoGate EXCEPT !.mode = mode, !.pc = IF mode = "gate" THEN "registry" ELSE "verify"]
  <2>1. GateBecomes("idle", g)
    BY <1>2 DEF Command
  <2>2. g \in GateRecords /\ g.identity = "UNVERIFIED" /\ g.mode = mode
        /\ g.pc = IF mode = "gate" THEN "registry" ELSE "verify"
    BY DEF NoGate, GateRecords, GateLooking
  <2> HIDE DEF g
  <2>3. GateOk(g, pkg, pc, run) /\ GateSaw(g, tree)
    BY <2>2 DEF GateOk, GateSaw
  <2> QED
    BY <2>1, <2>3, GateFrame
<1>3. CASE CheckRegistry
  <2> DEFINE b == tree.rest # "noRegistry"
             st == Status(b)
             g == [gate EXCEPT !.pc = "whitespace", !.static = {st}]
  <2>1. GateBecomes("registry", g)
    BY <1>3 DEF CheckRegistry
  <2>2. st \in Verdicts /\ (st = PASS <=> b)
    BY StatusPass
  <2> HIDE DEF st
  <2>3. ASSUME gate.pc = "registry", GateOk(gate, pkg, pc, run), gate \in GateRecords
        PROVE  GateOk(g, pkg, pc, run) /\ GateSaw(g, tree)
    <3>1. g \in GateRecords /\ g.pc = "whitespace" /\ g.static = {st}
          /\ g.identity = "UNVERIFIED"
      BY <2>2, <2>3 DEF GateRecords, GateLooking, GateOk
    <3> HIDE DEF g
    <3> QED
      BY <2>2, <3>1 DEF GateOk, GateSaw
  <2> HIDE DEF g
  <2> QED
    BY <2>1, <2>3, GateFrame
<1>4. CASE CheckWhitespace
  <2> DEFINE b == tree.rest # "whitespace"
             st == Status(b)
             static == gate.static \cup {st}
             g == [gate EXCEPT !.pc = "verify", !.static = static]
             h == [gate EXCEPT !.pc = "report", !.static = static, !.checks = {INCONCLUSIVE}]
  <2>1. GateBecomes("whitespace", g) \/ GateBecomes("whitespace", h)
    BY <1>4 DEF CheckWhitespace
  <2>2. st \in Verdicts /\ (st = PASS <=> b)
    BY StatusPass
  <2> HIDE DEF st
  <2>3. ASSUME gate.pc = "whitespace", GateOk(gate, pkg, pc, run), GateSaw(gate, tree),
               gate \in GateRecords
        PROVE  /\ GateOk(g, pkg, pc, run) /\ GateSaw(g, tree)
               /\ GateOk(h, pkg, pc, run) /\ GateSaw(h, tree)
    <3>1. static \subseteq Verdicts /\ INCONCLUSIVE \in Verdicts
      BY <2>2, <2>3 DEF GateRecords, Verdicts
    <3>2. static \subseteq {PASS} => gate.static \subseteq {PASS} /\ b
      BY <2>2
    <3>3. tree.rest \in {"ok", "whitespace", "noRegistry"}
      BY <1>1 DEF Trees, Rests
    <3>4. gate.identity = "UNVERIFIED"
      BY <2>3 DEF GateOk
    <3>5. gate.mode = "gate" /\ ~gate.touched /\ static \subseteq {PASS} => tree.rest = "ok"
      BY <2>3, <3>2, <3>3 DEF GateSaw
    <3> HIDE DEF static
    <3>6. g \in GateRecords /\ g.pc = "verify" /\ g.static = static /\ g.identity = "UNVERIFIED"
          /\ g.mode = gate.mode /\ g.touched = gate.touched
      BY <2>3, <3>1, <3>4 DEF GateRecords, GateLooking
    <3>7. h \in GateRecords /\ h.pc = "report" /\ h.static = static /\ h.identity = "UNVERIFIED"
          /\ h.mode = gate.mode /\ h.touched = gate.touched
      BY <2>3, <3>1, <3>4 DEF GateRecords, GateLooking
    <3> HIDE DEF g, h
    <3>8. GateOk(g, pkg, pc, run) /\ GateSaw(g, tree)
      BY <3>5, <3>6 DEF GateOk, GateSaw
    <3>9. GateOk(h, pkg, pc, run) /\ GateSaw(h, tree)
      BY <3>5, <3>7 DEF GateOk, GateSaw
    <3> QED
      BY <3>8, <3>9
  <2> HIDE DEF g, h
  <2> QED
    BY <2>1, <2>3, GateFrame
<1>5. CASE VerifyIncomplete
  <2> DEFINE c == IF "exitcode" \in Missing THEN INCONCLUSIVE ELSE FAIL
             g == [gate EXCEPT !.pc = "report", !.checks = {c}]
  <2>1. GateBecomes("verify", g)
    BY <1>5 DEF VerifyIncomplete
  <2>2. c \in Verdicts
    BY DEF Verdicts
  <2> HIDE DEF c
  <2>3. ASSUME gate.pc = "verify", GateOk(gate, pkg, pc, run), GateSaw(gate, tree),
               gate \in GateRecords
        PROVE  GateOk(g, pkg, pc, run) /\ GateSaw(g, tree)
    <3>1. g \in GateRecords /\ g.pc = "report" /\ g.static = gate.static
          /\ g.identity = "UNVERIFIED" /\ g.mode = gate.mode /\ g.touched = gate.touched
      BY <2>2, <2>3 DEF GateRecords, GateLooking, GateOk
    <3> HIDE DEF g
    <3> QED
      BY <2>3, <3>1 DEF GateOk, GateSaw
  <2> HIDE DEF g
  <2> QED
    BY <2>1, <2>3, GateFrame
<1> QED
  BY <1>2, <1>3, <1>4, <1>5

\* A package with every file has them all from one run.
LEMMA OneAuthor ==
    ASSUME EvidenceInv, Missing = {}
    PROVE  /\ pkg["manifest"].by \in Runs
           /\ \A f \in Files : /\ pkg[f] \in [by : Runs, full : BOOLEAN]
                               /\ pkg[f] # None
                               /\ pkg[f].by = pkg["manifest"].by
<1>1. \A f \in Files : pkg[f] # None
  BY DEF Missing
<1>2. ASSUME NEW f \in Files
      PROVE  pkg[f] \in [by : Runs, full : BOOLEAN] /\ pkg[f].by \in Runs
             /\ pc[pkg[f].by] \in Owning
  <2>1. pkg[f] \in [by : Runs, full : BOOLEAN]
    BY <1>1 DEF EvidenceInv, OutputInv, PackageFiles
  <2> QED
    BY <1>1, <2>1 DEF EvidenceInv, OutputInv
<1>3. \A f, g \in Files : pkg[f].by = pkg[g].by
  BY <1>2 DEF EvidenceInv, OutputInv
<1> QED
  BY <1>1, <1>2, <1>3, FileNumbers

\* What verify_package finds in a package that one run wrote.
LEMMA ChecksOf ==
    ASSUME NEW r, \A f \in Files : pkg[f].by = r
    PROVE  PackageChecks =
               { Status(\A f \in Files : pkg[f].full),
                 IF run[r].exit_code = None THEN INCONCLUSIVE ELSE PASS,
                 Status(Counts(run[r].published) = Counts(run[r].log)),
                 Status(TRUE),
                 Status(run[r].diff_check),
                 Status(Decision(run[r].published, run[r]) = run[r].verdict),
                 Decision(run[r].published, run[r]) }
<1>1. Of("manifest") = run[r] /\ Of("log") = run[r] /\ Of("exitcode") = run[r]
      /\ Of("results") = run[r]
  BY FileNumbers DEF Of
<1> QED
  BY <1>1 DEF PackageChecks, Decision

LEMMA ChecksBacked ==
    ASSUME EvidenceInv, Missing = {}, NEW r, r = pkg["manifest"].by
    PROVE  /\ PackageChecks \subseteq Verdicts /\ PackageChecks # {}
           /\ PackageChecks = {PASS} => Backed(r, pc, run)
<1>1. r \in Runs /\ \A f \in Files : pkg[f] \in [by : Runs, full : BOOLEAN] /\ pkg[f].by = r
  BY OneAuthor
<1> DEFINE a1 == Status(\A f \in Files : pkg[f].full)
           a2 == IF run[r].exit_code = None THEN INCONCLUSIVE ELSE PASS
           a3 == Status(Counts(run[r].published) = Counts(run[r].log))
           a4 == Status(TRUE)
           a5 == Status(run[r].diff_check)
           a6 == Status(Decision(run[r].published, run[r]) = run[r].verdict)
           a7 == Decision(run[r].published, run[r])
<1>2. PackageChecks = {a1, a2, a3, a4, a5, a6, a7}
  BY <1>1, ChecksOf
<1>3. a1 \in Verdicts /\ a3 \in Verdicts /\ a4 \in Verdicts /\ a5 \in Verdicts /\ a6 \in Verdicts
  BY StatusPass
<1>4. a2 \in Verdicts
  BY DEF Verdicts
<1>5. a7 \in Verdicts
  BY DecideVerdict DEF Decision
<1>6. a1 = PASS => \A f \in Files : pkg[f].full
  BY StatusPass
<1>7. (\A f \in Files : pkg[f].full) => pc[r] = "done"
  <2> SUFFICES ASSUME \A f \in Files : pkg[f].full PROVE pc[r] = "done"
    OBVIOUS
  <2>1. pkg["sums"] \in [by : Runs, full : BOOLEAN] /\ pkg["sums"].by = r /\ pkg["sums"].full
    BY <1>1, FileNumbers
  <2>2. pkg["sums"] = [by |-> r, full |-> TRUE]
    BY <2>1
  <2> QED
    BY <1>1, <2>2 DEF EvidenceInv, PackageOk
<1> HIDE DEF a1, a2, a3, a4, a5, a6, a7
<1>8. PackageChecks = {PASS} => a1 = PASS /\ a7 = PASS
  BY <1>2
<1>9. PackageChecks = {PASS} => Backed(r, pc, run)
  BY <1>1, <1>6, <1>7, <1>8 DEF Backed, a7
<1> QED
  BY <1>2, <1>3, <1>4, <1>5, <1>9

\* V02 to V11.
LEMMA EvidenceVerify ==
    ASSUME EvidenceInv, OutputInv', VerifyPackage
    PROVE  EvidenceInv'
<1> DEFINE r == pkg["manifest"].by
           checks == PackageChecks
           more == checks \cup {INCONCLUSIVE}
           changed == Of("results").before # Of("results").after
           ident == IF changed THEN "CHANGED_DURING_RUN" ELSE "UNVERIFIED"
           g == [gate EXCEPT !.by = r, !.checks = checks, !.pc = "current"]
           h == [gate EXCEPT !.by = r, !.checks = more, !.pc = "report", !.identity = ident]
<1>1. Missing = {} /\ gate.pc = "verify"
  BY DEF VerifyPackage, GateBecomes
<1>2. /\ r \in Runs /\ \A f \in Files : pkg[f] # None /\ pkg[f].by = r
      /\ checks \subseteq Verdicts /\ checks # {} /\ (checks = {PASS} => Backed(r, pc, run))
  BY <1>1, OneAuthor, ChecksBacked
<1>3. GateOk(gate, pkg, pc, run) /\ GateSaw(gate, tree) /\ gate \in GateRecords
      /\ gate.identity = "UNVERIFIED"
  BY <1>1 DEF EvidenceInv, GateOk
<1>4. GateBecomes("verify", g) \/ GateBecomes("verify", h)
  <2> HIDE DEF r, checks
  <2>1. \/ GateBecomes("verify", [[gate EXCEPT !.by = r, !.checks = checks] EXCEPT !.pc = "current"])
        \/ GateBecomes("verify", [[gate EXCEPT !.by = r, !.checks = checks] EXCEPT !.pc = "report",
                     !.checks = @ \cup {INCONCLUSIVE}, !.identity = ident])
    BY DEF VerifyPackage, r, checks
  <2>2. [[gate EXCEPT !.by = r, !.checks = checks] EXCEPT !.pc = "current"] = g
    BY <1>3 DEF GateRecords
  <2>3. [[gate EXCEPT !.by = r, !.checks = checks] EXCEPT !.pc = "report",
                     !.checks = @ \cup {INCONCLUSIVE}, !.identity = ident] = h
    BY <1>3 DEF GateRecords
  <2> QED
    BY <2>1, <2>2, <2>3
<1>5. more \subseteq Verdicts /\ ident \in {"CHANGED_DURING_RUN", "UNVERIFIED"}
  BY <1>2 DEF Verdicts
<1> HIDE DEF r, checks, more, ident
<1>6. /\ g \in GateRecords /\ g.pc = "current" /\ g.by = r /\ g.checks = checks
      /\ g.static = gate.static /\ g.mode = gate.mode /\ g.touched = gate.touched
  BY <1>2, <1>3 DEF GateRecords, GateLooking
<1>7. /\ h \in GateRecords /\ h.pc = "report" /\ h.identity = ident
      /\ h.static = gate.static /\ h.mode = gate.mode /\ h.touched = gate.touched
  BY <1>2, <1>3, <1>5 DEF GateRecords, GateLooking
<1> HIDE DEF g, h
<1>8. GateOk(g, pkg, pc, run) /\ GateSaw(g, tree)
  BY <1>1, <1>2, <1>3, <1>6 DEF GateOk, GateSaw
<1>9. GateOk(h, pkg, pc, run) /\ GateSaw(h, tree)
  BY <1>1, <1>3, <1>5, <1>7 DEF GateOk, GateSaw
<1> QED
  BY <1>4, <1>8, <1>9, GateFrame

\* V11: the tree of the gate is compared with the second fingerprint.
LEMMA EvidenceCurrent ==
    ASSUME EvidenceInv, OutputInv', TakeCurrent
    PROVE  EvidenceInv'
<1>1. tree \in Trees /\ gate \in GateRecords /\ GateOk(gate, pkg, pc, run) /\ GateSaw(gate, tree)
  BY DEF EvidenceInv, GateOk
<1>2. CASE GateBecomes("current", [gate EXCEPT !.pc = "current_rest", !.current = tree])
  <2> DEFINE g == [gate EXCEPT !.pc = "current_rest", !.current = tree]
  <2>1. gate.pc = "current" /\ GateBecomes("current", g)
    BY <1>2 DEF GateBecomes
  <2>2. /\ g \in GateRecords /\ g.pc = "current_rest" /\ g.by = gate.by /\ g.checks = gate.checks
        /\ g.static = gate.static /\ g.mode = gate.mode /\ g.touched = gate.touched
        /\ g.current = tree
    BY <1>1 DEF GateRecords, GateLooking
  <2> HIDE DEF g
  <2>3. GateOk(g, pkg, pc, run)
    BY <1>1, <2>1, <2>2 DEF GateOk
  <2>4. GateSaw(g, tree)
    BY <1>1, <2>1, <2>2 DEF GateSaw
  <2> QED
    BY <2>1, <2>3, <2>4, GateFrame
<1> DEFINE now == [gate.current EXCEPT !.rest = tree.rest]
           same == now = Of("results").after
           checks == gate.checks \cup {IF same THEN PASS ELSE INCONCLUSIVE}
           ident == IF same THEN "VERIFIED" ELSE "UNVERIFIED"
           h == [gate EXCEPT !.pc = "report", !.current = now, !.checks = checks,
                             !.identity = ident]
<1>3. CASE GateBecomes("current_rest", h)
  <2>1. gate.pc = "current_rest"
    BY <1>3 DEF GateBecomes
  <2>2. /\ gate.current \in Trees /\ gate.by \in Runs /\ gate.checks # {}
        /\ gate.checks = {PASS} => Backed(gate.by, pc, run)
        /\ pkg["results"].by = gate.by
    BY <1>1, <2>1, FileNumbers DEF GateOk
  <2>3. now \in Trees /\ now.rest = tree.rest
    BY <1>1, <2>2 DEF Trees
  <2>4. same => now = run[gate.by].after
    BY <2>2 DEF Of
  <2>5. /\ ident \in {"VERIFIED", "UNVERIFIED"} /\ (ident = "VERIFIED" => same)
        /\ checks \subseteq Verdicts /\ checks # {}
        /\ checks = {PASS} => gate.checks = {PASS}
    BY <1>1, <2>2 DEF GateRecords, Verdicts
  <2> HIDE DEF now, same, checks, ident
  <2>6. /\ h \in GateRecords /\ h.pc = "report" /\ h.by = gate.by /\ h.checks = checks
        /\ h.static = gate.static /\ h.mode = gate.mode /\ h.touched = gate.touched
        /\ h.current = now /\ h.identity = ident
    BY <1>1, <2>3, <2>5 DEF GateRecords, GateLooking
  <2> HIDE DEF h
  <2>7. GateOk(h, pkg, pc, run)
    BY <2>2, <2>4, <2>5, <2>6 DEF GateOk
  <2>8. GateSaw(h, tree)
    BY <1>1, <2>1, <2>3, <2>6 DEF GateSaw
  <2> QED
    BY <1>3, <2>7, <2>8, GateFrame
<1> QED
  BY <1>2, <1>3 DEF TakeCurrent

\* The answer.
LEMMA EvidenceReport ==
    ASSUME EvidenceInv, OutputInv', Report
    PROVE  EvidenceInv'
<1> DEFINE w == worst(gate.checks)
           all == worst(gate.static \cup {w})
           result == IF all = PASS /\ gate.identity # "VERIFIED" THEN INCONCLUSIVE ELSE all
           g == [gate EXCEPT !.pc = "done", !.static = {}, !.checks = {}, !.result = result]
           h == [gate EXCEPT !.pc = "done", !.static = {}, !.checks = {},
                             !.result = INCONCLUSIVE, !.identity = "UNVERIFIED"]
<1>1. gate \in GateRecords /\ GateOk(gate, pkg, pc, run) /\ GateSaw(gate, tree)
      /\ gate.pc = "report"
  BY DEF EvidenceInv, GateOk, Report, GateBecomes
<1>2. GateBecomes("report", g) \/ GateBecomes("report", h)
  <2> HIDE DEF result
  <2>1. \/ GateBecomes("report", [[gate EXCEPT !.pc = "done", !.static = {}, !.checks = {}]
                                   EXCEPT !.result = result])
        \/ GateBecomes("report", [[gate EXCEPT !.pc = "done", !.static = {}, !.checks = {}]
                                   EXCEPT !.result = INCONCLUSIVE, !.identity = "UNVERIFIED"])
    BY DEF Report, result
  <2>2. [[gate EXCEPT !.pc = "done", !.static = {}, !.checks = {}] EXCEPT !.result = result] = g
    BY <1>1 DEF GateRecords
  <2>3. [[gate EXCEPT !.pc = "done", !.static = {}, !.checks = {}]
            EXCEPT !.result = INCONCLUSIVE, !.identity = "UNVERIFIED"] = h
    BY <1>1 DEF GateRecords
  <2> QED
    BY <2>1, <2>2, <2>3
<1>3. gate.checks \subseteq Verdicts /\ gate.static \subseteq Verdicts
  BY <1>1 DEF GateRecords
<1>4. w \in Verdicts /\ (w = PASS => gate.checks = {PASS})
  BY <1>3, WorstPass
<1> HIDE DEF w
<1>5. all \in Verdicts /\ (all = PASS => gate.static \cup {w} = {PASS})
  <2>1. gate.static \cup {w} \subseteq Verdicts
    BY <1>3, <1>4
  <2> QED
    BY <2>1, WorstPass
<1> HIDE DEF all
<1>6. /\ result \in Verdicts
      /\ result = PASS => gate.checks = {PASS} /\ gate.static \subseteq {PASS}
                          /\ gate.identity = "VERIFIED"
  <2>1. result = PASS => all = PASS /\ gate.identity = "VERIFIED"
    BY DEF PASS, INCONCLUSIVE
  <2>2. result \in Verdicts
    BY <1>5 DEF Verdicts
  <2>3. all = PASS => w = PASS /\ gate.static \subseteq {PASS}
    BY <1>5
  <2> HIDE DEF result
  <2> QED
    BY <1>4, <2>1, <2>2, <2>3
<1> HIDE DEF result
<1>7. /\ g \in GateRecords /\ g.pc = "done" /\ g.by = gate.by /\ g.result = result
      /\ g.mode = gate.mode /\ g.touched = gate.touched /\ g.current = gate.current
  BY <1>1, <1>6 DEF GateRecords
<1>8. h \in GateRecords /\ h.pc = "done" /\ h.result # PASS
  BY <1>1 DEF GateRecords, Verdicts, PASS, INCONCLUSIVE
<1> HIDE DEF g, h
<1>9. GateOk(g, pkg, pc, run)
  BY <1>1, <1>6, <1>7 DEF GateOk
<1>10. GateSaw(g, tree)
  BY <1>1, <1>6, <1>7 DEF GateSaw
<1>11. GateOk(h, pkg, pc, run) /\ GateSaw(h, tree)
  BY <1>8 DEF GateOk, GateSaw
<1> QED
  BY <1>2, <1>9, <1>10, <1>11, GateFrame

-----------------------------------------------------------------------------

LEMMA EvidenceInit == Init => EvidenceInv
<1> SUFFICES ASSUME Init PROVE EvidenceInv
  OBVIOUS
<1>1. OutputInv
  BY OutputInit
<1>2. tree \in Trees /\ edits \in 0 .. MaxEdits
  BY EvidenceAssumption DEF Init
<1>3. RecordOk(Fresh, "idle", tree)
  BY FreshRecord
<1>4. Fresh \in RunRecords
  BY <1>3 DEF RecordOk
<1>5. run \in [Runs -> RunRecords] /\ \A r \in Runs : run[r] = Fresh /\ pc[r] = "idle"
  BY <1>4 DEF Init
<1>6. ASSUME NEW r \in Runs PROVE PackageOk(r, pc[r], run[r].next, pkg)
  <2>1. pkg["sums"] = None
    BY FileNumbers DEF Init
  <2>2. [by |-> r, full |-> TRUE] \in [by : Runs, full : BOOLEAN]
    OBVIOUS
  <2>3. [by |-> r, full |-> TRUE] # None
    BY <2>2, EvidenceAssumption, Zenon
  <2> QED
    BY <1>5, <2>1, <2>3 DEF PackageOk
<1>7. gate \in GateRecords /\ gate.pc = "idle" /\ gate.identity = "UNVERIFIED"
  BY DEF Init, NoGate, GateRecords
<1>8. GateOk(gate, pkg, pc, run) /\ GateSaw(gate, tree)
  BY <1>7 DEF GateOk, GateSaw
<1> QED
  BY <1>1, <1>2, <1>3, <1>5, <1>6, <1>8 DEF EvidenceInv

LEMMA EvidenceStep == EvidenceInv /\ [Next]_vars => EvidenceInv'
<1> SUFFICES ASSUME EvidenceInv, [Next]_vars PROVE EvidenceInv'
  OBVIOUS
<1>1. OutputInv'
  BY OutputStep DEF EvidenceInv
<1>2. CASE UNCHANGED vars
  BY <1>1, <1>2 DEF vars, EvidenceInv
<1>3. ASSUME NEW t \in Worktrees, Edit(t) PROVE EvidenceInv'
  BY <1>1, <1>3, EvidenceEdit
<1>4. ASSUME NEW r \in Runs, RunStep(r) PROVE EvidenceInv'
  BY <1>1, <1>4, EvidenceBegin, EvidenceScripts, EvidenceEnd, EvidenceJudge, EvidenceCreate,
     EvidenceFill DEF RunStep
<1>5. CASE GateStep
  BY <1>1, <1>5, EvidenceStatic, EvidenceVerify, EvidenceCurrent, EvidenceReport DEF GateStep
<1> QED
  BY <1>2, <1>3, <1>4, <1>5 DEF Next

\* The state of the runs, the package and the gate has its type in every
\* reachable state, for any number of runs, scripts and edits.
THEOREM EvidenceTypes == Spec => []TypeOK
<1>1. EvidenceInv => TypeOK
  BY DEF EvidenceInv, OutputInv, PackageFiles, GateOk, TypeOK
<1> QED
  BY <1>1, EvidenceInit, EvidenceStep, PTL DEF Spec

\* A finished run whose delivered files lead to PASS ran every script of its
\* tree, and none of them failed: the published lines are those of the log.
LEMMA BackedRan ==
    ASSUME EvidenceInv, NEW r, Backed(r, pc, run)
    PROVE  /\ r \in Runs /\ run[r].exit_code = 0
           /\ run[r].before = run[r].after
           /\ run[r].diff_check
           /\ expected(run[r].after) \subseteq Ran(r, "passed")
           /\ Ran(r, "failed") = {}
           /\ Ran(r, "passed") # {}
           /\ \A s \in Scripts : At(run[r].log, {"SKIP"}, s) = {}
           /\ run[r] \in RunRecords /\ run[r].after \in Trees
           /\ (~run[r].touched => RanAsRead(run[r]))
           /\ (~run[r].touched => run[r].after.rest # "whitespace")
<1> DEFINE d == run[r]
           p == d.published
<1>1. r \in Runs /\ pc[r] = "done" /\ Decision(p, d) = PASS
  BY DEF Backed
<1>2. RecordOk(d, "done", tree)
  BY <1>1 DEF EvidenceInv
<1>3. d \in RunRecords /\ d.after \in Trees /\ LogTold(d) /\ Judged(d)
      /\ (~d.touched => RanAsRead(d))
  BY <1>2 DEF RecordOk, Packing
<1> HIDE DEF d, p
<1>4. /\ d.before = d.after /\ d.diff_check /\ d.exit_code = 0
      /\ unique_scripts(p) # {}
      /\ scripts_without_terminal(p) = {}
      /\ expected(d.after) \subseteq unique_scripts(p)
      /\ failed_scripts(p) = {}
      /\ ~skipped(p)
  BY <1>1, DecidePass DEF Decision
<1>5. p.lines = d.log.lines
  <2>1. p # EmptyLog
    <3>1. EmptyLog.lines = <<>>
      BY DEF EmptyLog
    <3>2. unique_scripts(EmptyLog) = {}
      BY <3>1 DEF unique_scripts, At
    <3> QED
      BY <1>4, <3>2
  <2> QED
    BY <1>3, <2>1 DEF Judged, p
<1>6. \A K, s : At(p, K, s) = At(d.log, K, s)
  BY <1>5 DEF At
<1>7. \A s \in Scripts : At(d.log, {"FAIL"}, s) = {} /\ At(d.log, {"SKIP"}, s) = {}
  BY <1>4, <1>6 DEF failed_scripts, skipped
<1>8. \A s \in Scripts : d.ran[s] # "failed"
  BY <1>3, <1>7 DEF LogTold
<1>9. ASSUME NEW s \in unique_scripts(p) PROVE s \in Scripts /\ d.ran[s] = "passed"
  <2>1. s \in Scripts /\ Terminals(p, s) # {}
    BY <1>4 DEF unique_scripts, scripts_without_terminal
  <2>2. d.ran[s] # "no"
    BY <1>3, <1>6, <2>1 DEF LogTold, Terminals
  <2>3. d.ran[s] \in {"no", "passed", "failed"}
    BY <1>3, <2>1 DEF RunRecords
  <2> QED
    BY <1>8, <2>1, <2>2, <2>3
<1>10. unique_scripts(p) \subseteq Ran(r, "passed") /\ Ran(r, "failed") = {}
  BY <1>8, <1>9 DEF Ran, d
<1>11. ~d.touched => d.after.rest # "whitespace"
  BY <1>3, <1>4 DEF Judged
<1> QED
  BY <1>1, <1>3, <1>4, <1>7, <1>10, <1>11 DEF d

\* Whatever the interleaving of runs, edits, interruptions and gates, and
\* whatever the scripts print: a PASS of verify or gate is about one finished
\* run that exited with 0 and passed every script of the tree that V11 saw,
\* which is the tree of both its fingerprints.
THEOREM PassTested == Spec => []PassMeansTested
<1>1. EvidenceInv => PassMeansTested
  <2> SUFFICES ASSUME EvidenceInv, Answered(PASS)
               PROVE  /\ pc[gate.by] = "done"
                      /\ run[gate.by].exit_code = 0
                      /\ run[gate.by].before = run[gate.by].after
                      /\ run[gate.by].after = gate.current
                      /\ expected(gate.current) \subseteq Ran(gate.by, "passed")
                      /\ Ran(gate.by, "failed") = {}
                      /\ Ran(gate.by, "passed") # {}
    BY DEF PassMeansTested
  <2>1. Backed(gate.by, pc, run) /\ gate.current = run[gate.by].after
    BY DEF EvidenceInv, GateOk, Answered
  <2>2. pc[gate.by] = "done"
    BY <2>1 DEF Backed
  <2> QED
    BY <2>1, <2>2, BackedRan
<1> QED
  BY <1>1, EvidenceInit, EvidenceStep, PTL DEF Spec

\* When nobody touched the tree while the run looked at it, a PASS says that
\* every script in it passes without skipping and that git diff --check is
\* clean; and of an untouched gate, that the static checks hold of that tree.
THEOREM PassReleasable == Spec => []PassMeansReleasable
<1>1. EvidenceInv => PassMeansReleasable
  <2> SUFFICES ASSUME EvidenceInv, Answered(PASS), ~run[gate.by].touched
               PROVE  /\ \A s \in Scripts : gate.current.script[s] \in {"passes", "absent"}
                      /\ gate.current.rest # "whitespace"
                      /\ gate.mode = "gate" /\ ~gate.touched => gate.current.rest = "ok"
    BY DEF PassMeansReleasable
  <2> DEFINE d == run[gate.by]
  <2>1. Backed(gate.by, pc, run) /\ gate.current = d.after
    BY DEF EvidenceInv, GateOk, Answered
  <2>2. /\ d.before = d.after /\ expected(d.after) \subseteq Ran(gate.by, "passed")
        /\ \A s \in Scripts : At(d.log, {"SKIP"}, s) = {}
        /\ RanAsRead(d) /\ d.after.rest # "whitespace"
    BY <2>1, BackedRan
  <2>3. ASSUME NEW s \in Scripts, d.after.script[s] # "absent" PROVE d.after.script[s] = "passes"
    <3>1. d.ran[s] = "passed"
      BY <2>2, <2>3 DEF expected, Ran
    <3> QED
      BY <2>2, <3>1 DEF RanAsRead
  <2>4. gate.mode = "gate" /\ ~gate.touched => gate.current.rest = "ok"
    BY DEF EvidenceInv, GateSaw, Answered
  <2> QED
    BY <2>1, <2>2, <2>3, <2>4
<1> QED
  BY <1>1, EvidenceInit, EvidenceStep, PTL DEF Spec

\* The verifier derives from a finished package what the packager concluded
\* from the raw log: every check passes exactly when the verdict is PASS, and
\* a FAIL stays a FAIL even when the log was withheld or cut.
THEOREM VerifierAgreement == Spec => []VerifierAgrees
<1>1. EvidenceInv => VerifierAgrees
  <2> SUFFICES ASSUME EvidenceInv, NEW r \in Runs, pc[r] = "done"
               PROVE  /\ run[r].verdict = PASS <=> PackageChecks = {PASS}
                      /\ run[r].verdict = FAIL => FAIL \in PackageChecks
    BY DEF VerifierAgrees
  <2> DEFINE d == run[r]
             a1 == Status(\A f \in Files : pkg[f].full)
             a2 == IF d.exit_code = None THEN INCONCLUSIVE ELSE PASS
             a3 == Status(Counts(d.published) = Counts(d.log))
             a4 == Status(TRUE)
             a5 == Status(d.diff_check)
             a6 == Status(Decision(d.published, d) = d.verdict)
             a7 == Decision(d.published, d)
  <2>1. \A f \in Files : pkg[f] = [by |-> r, full |-> TRUE]
    BY DEF EvidenceInv, PackageOk
  <2>2. \A f \in Files : pkg[f].by = r /\ pkg[f].full
    BY <2>1
  <2>3. PackageChecks = {a1, a2, a3, a4, a5, a6, a7}
    BY <2>2, ChecksOf
  <2>4. Judged(d)
    BY DEF EvidenceInv, RecordOk, Packing
  <2>5. a6 = PASS <=> a7 = d.verdict
    BY StatusPass
  <2>6. a1 = PASS /\ a4 = PASS
    BY <2>2, StatusPass
  <2>7. a6 \in {PASS, FAIL}
    BY DEF Status
  <2>8. ASSUME d.verdict = PASS PROVE PackageChecks = {PASS}
    <3>1. d.published = d.log /\ a7 = PASS
      BY <2>4, <2>8 DEF Judged
    <3>2. d.diff_check /\ d.exit_code = 0
      BY <3>1, DecidePass DEF Decision
    <3>3. a2 = PASS
      BY <3>2, EvidenceAssumption
    <3>4. a3 = PASS /\ a5 = PASS
      BY <3>1, <3>2, StatusPass
    <3>5. a6 = PASS
      BY <2>5, <2>8, <3>1
    <3> HIDE DEF a1, a2, a3, a4, a5, a6, a7
    <3> QED
      BY <2>3, <2>6, <3>1, <3>3, <3>4, <3>5
  <2> HIDE DEF a1, a2, a3, a4, a5, a6, a7
  <2>9. PackageChecks = {PASS} => a6 = PASS /\ a7 = PASS
    BY <2>3
  <2>10. a6 \in PackageChecks /\ a7 \in PackageChecks
    BY <2>3
  <2> HIDE DEF d
  <2>11. d.verdict = PASS <=> PackageChecks = {PASS}
    BY <2>5, <2>8, <2>9
  <2>12. d.verdict = FAIL => FAIL \in PackageChecks
    BY <2>5, <2>7, <2>10
  <2> QED
    BY <2>11, <2>12 DEF d
<1> QED
  BY <1>1, EvidenceInit, EvidenceStep, PTL DEF Spec
=============================================================================
