----------------------------- MODULE KbGuidance -----------------------------
(***************************************************************************)
(* What the knowledge base promises its readers, without its life cycle:   *)
(* an entry has at most one current article, the current article changes   *)
(* only by a human decision whose authorization was not used before on     *)
(* that entry, and an article that was withdrawn never comes back.         *)
(***************************************************************************)
CONSTANTS KbIds, AuthIds, VersionNumbers

VARIABLES
    guidance,    \* per entry: the version that is current guidance, if any
    withdrawn,   \* per entry: the versions that were current and no longer are
    spent        \* per entry: the authorizations used on it

vars == <<guidance, withdrawn, spent>>

Init ==
    /\ guidance = [k \in KbIds |-> {}]
    /\ withdrawn = [k \in KbIds |-> {}]
    /\ spent = [k \in KbIds |-> {}]

Spend(k, a) ==
    /\ a \notin spent[k]
    /\ spent' = [spent EXCEPT ![k] = @ \cup {a}]

\* A version becomes current and replaces the one that was.
Publish(k, v, a) ==
    /\ v \notin guidance[k] \cup withdrawn[k]
    /\ Spend(k, a)
    /\ guidance' = [guidance EXCEPT ![k] = {v}]
    /\ withdrawn' = [withdrawn EXCEPT ![k] = @ \cup guidance[k]]

\* The entry is left without current guidance.
Withdraw(k, a) ==
    /\ guidance[k] # {}
    /\ Spend(k, a)
    /\ guidance' = [guidance EXCEPT ![k] = {}]
    /\ withdrawn' = [withdrawn EXCEPT ![k] = @ \cup guidance[k]]

\* A decision that leaves what is current as it is.
Confirm(k, a) ==
    /\ Spend(k, a)
    /\ UNCHANGED <<guidance, withdrawn>>

Next ==
    \E k \in KbIds, a \in AuthIds :
        \/ \E v \in VersionNumbers : Publish(k, v, a)
        \/ Withdraw(k, a)
        \/ Confirm(k, a)

Spec == Init /\ [][Next]_vars
=============================================================================
