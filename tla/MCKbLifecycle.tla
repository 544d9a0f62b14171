--------------------------- MODULE MCKbLifecycle ---------------------------
(* Small instances of KbLifecycle for TLC. *)
EXTENDS KbLifecycle, TLC

CONSTANTS k1, k2, r1, r2, r3, a1, a2, a3, a4, a5, u1, u2, t1, t2

Cand(kb, rec, sup, prop) ==
    [kb |-> kb, rec |-> rec, supersedes |-> sup, proposers |-> prop,
     confirmed |-> TRUE, complete |-> TRUE, flagged |-> FALSE]

\* An article, two rivals that are to supersede it, and candidates of another
\* entry: one with flagged text, one without evidence, one whose RCA is not
\* confirmed, and one that names a foreign entry to supersede.
MCCandidates ==
    {Cand(k1, r1, None, {u1}), Cand(k1, r2, k1, {u2}), Cand(k1, r3, k1, {u2}),
     [Cand(k2, r1, None, {u1}) EXCEPT !.flagged = TRUE],
     [Cand(k2, r2, None, {u1}) EXCEPT !.complete = FALSE],
     [Cand(k2, r3, None, {}) EXCEPT !.confirmed = FALSE],
     Cand(k2, r3, k1, {})}

\* One entry: an article and a later one that supersedes it.
MCPair == {Cand(k1, r1, None, {u1}), Cand(k1, r2, k1, {})}

\* Two unrelated entries.
MCTwoEntries == {Cand(k1, r1, None, {}), Cand(k2, r2, None, {})}

MCOrdered == [s \in Stamps |-> IF s = t1 THEN 1 ELSE 2]

AuthSymmetry == Permutations(AuthIds)
=============================================================================
