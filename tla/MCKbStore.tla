----------------------------- MODULE MCKbStore -----------------------------
(* A small instance of KbStore for TLC. *)
EXTENDS KbStore, TLC

CONSTANTS k1, k2, r1, r2, a1, a2, a3, a4, u1, t1, w1, s1

\* Candidates whose text was flagged, so that they start as DRAFT.
Cand(kb, rec, sup, complete) ==
    [kb |-> kb, rec |-> rec, supersedes |-> sup, proposers |-> {},
     confirmed |-> TRUE, complete |-> complete, flagged |-> TRUE]

\* An article, one that supersedes it, and a rough one of another entry.
MCCandidates ==
    {Cand(k1, r1, None, TRUE), Cand(k1, r2, k1, TRUE), Cand(k2, r1, None, FALSE)}

MCRank == [s \in Stamps |-> 1]

Symmetry == Permutations(AuthIds)
=============================================================================
