------------------------- MODULE MCReleaseEvidence -------------------------
(* A small instance of ReleaseEvidence for TLC. *)
EXTENDS ReleaseEvidence, TLC

CONSTANTS r1, r2, s1, s2

Symmetry == Permutations(Runs)

MCOrder == (s1 :> 1 @@ s2 :> 2)

Worktree(c, d, x) == [script |-> (s1 :> c @@ s2 :> d), rest |-> x]

\* In order; with a security script s1 that skips or echoes; with an s2 that
\* fails; without s2; with a whitespace error; and without a registry.
MCWorktrees ==
    {Worktree(c, "passes", "ok") : c \in {"passes", "skips", "echoes"}}
    \cup {Worktree("passes", d, "ok") : d \in {"fails", "absent"}}
    \cup {Worktree("passes", "passes", x) : x \in {"whitespace", "noRegistry"}}

\* One that is in order, and one that fails, so that one edit can repair it for
\* the time of the tests and a second bring it back.
MCAtFirst == {Worktree(c, "passes", "ok") : c \in {"passes", "echoes"}}
=============================================================================
