---------------------------- MODULE KbLifecycle ----------------------------
(***************************************************************************)
(* The life cycle of KB articles with every kb-add and kb-transition as    *)
(* one step on the manifest: the specification that the file-by-file store *)
(* of KbStore implements.  A refused command changes nothing and is no     *)
(* step.                                                                   *)
(***************************************************************************)
EXTENDS KbManifest

VARIABLE manifest

LifecycleInit == manifest = EmptyManifest

\* kb-add
AddCandidate(c) ==
    /\ CanAdd(manifest, c)
    /\ Len(manifest[c.kb]) < VersionBound
    /\ manifest' = AddTo(manifest, c)

\* kb-transition without a human decision
Move(kb, v, to) ==
    /\ CanMove(manifest, kb, v, to)
    /\ manifest' = MoveTo(manifest, kb, v, to)

\* kb-transition with an authorization record
Decide(kb, v, to, a) ==
    /\ CanDecide(manifest, kb, v, to, a)
    /\ manifest' = DecideTo(manifest, kb, v, to, a)

LifecycleNext ==
    \/ \E c \in Candidates : AddCandidate(c)
    \/ \E kb \in KbIds : \E v \in Versions(manifest, kb), to \in KbState :
        \/ Move(kb, v, to)
        \/ \E a \in Authorizations(manifest) : Decide(kb, v, to, a)

LifecycleSpec == LifecycleInit /\ [][LifecycleNext]_manifest

-----------------------------------------------------------------------------
ManifestOK == manifest \in Manifest

Current(kb) == CurrentVersions(manifest, kb)

(***************************************************************************)
(* A KB id never has two versions that kb-search certifies as current      *)
(* guidance: duplicate review, the conflict gate and supersession on       *)
(* publication together keep a second one out.                             *)
(***************************************************************************)
SingleGuidance == AtMostOneCurrent(manifest)

(***************************************************************************)
(* What duplicate review at kb-add guarantees for ever: the versions of a  *)
(* KB id that are neither rejected nor retired say different things.       *)
(***************************************************************************)
DistinctLive == LiveVersionsDiffer(manifest)

(***************************************************************************)
(* Whatever kb-search certifies went through the whole life cycle: its     *)
(* article passes the quality gate and its history holds an approval and a *)
(* later publication, under different authorizations, by reviewers who did *)
(* not propose it.                                                         *)
(***************************************************************************)
GuidanceAuthorized == CurrentAuthorized(manifest)

(***************************************************************************)
(* One authorization, one decision: within an entry an authorization id is *)
(* in the history of a single version, or it published one and is repeated *)
(* on the versions that this publication superseded.                       *)
(***************************************************************************)
OneDecisionPerAuthorization == DecidedOnce(manifest)

(***************************************************************************)
(* History is append-only: a step never edits or drops an event, nor the   *)
(* article of a version.                                                   *)
(***************************************************************************)
AppendOnly ==
    [][\A kb \in KbIds : \A v \in Versions(manifest, kb) :
        /\ v \in Versions(manifest', kb)
        /\ manifest'[kb][v].cand = manifest[kb][v].cand
        /\ \A i \in DOMAIN manifest[kb][v].hist :
            /\ i \in DOMAIN manifest'[kb][v].hist
            /\ manifest'[kb][v].hist[i] = manifest[kb][v].hist[i]]_manifest

(***************************************************************************)
(* The entries keep the promise of KbGuidance.                             *)
(***************************************************************************)
Withdrawn(kb) == {v \in Versions(manifest, kb) :
                    manifest[kb][v].state \in {"DEPRECATED", "SUPERSEDED", "RETIRED"}}

Guidance == INSTANCE KbGuidance WITH
    VersionNumbers <- 1..VersionBound,
    guidance <- [k \in KbIds |-> Current(k)],
    withdrawn <- [k \in KbIds |-> Withdrawn(k)],
    spent <- [k \in KbIds |-> UsedAuths(manifest, k)]

KeepsGuidancePromise == Guidance!Spec

-----------------------------------------------------------------------------
(* What the comments and messages of the code say and the code does not do. *)

(***************************************************************************)
(* "decisions are chronologically monotonic": the decision times in the    *)
(* history of a version never go back, over all its events, those that the *)
(* publication of another version adds included.                           *)
(***************************************************************************)
DecisionsChronological ==
    \A kb \in KbIds : \A v \in Versions(manifest, kb) :
        LET h == manifest[kb][v].hist
        IN  \A i, j \in DOMAIN h :
                i < j /\ h[i].at # None /\ h[j].at # None => Instant[h[i].at] <= Instant[h[j].at]

(***************************************************************************)
(* The history of a version is the path it took: every event starts where  *)
(* the previous one ended.                                                 *)
(***************************************************************************)
HistoryChain ==
    \A kb \in KbIds : \A v \in Versions(manifest, kb) :
        LET h == manifest[kb][v].hist
        IN  \A i \in DOMAIN h : i > 1 => h[i].from = h[i - 1].to

(***************************************************************************)
(* "an authorization id is single-use", over the whole knowledge base.     *)
(***************************************************************************)
AuthorizationSingleUse ==
    \A k, l \in KbIds : UsedAuths(manifest, k) \cap UsedAuths(manifest, l) # {} => k = l
=============================================================================
