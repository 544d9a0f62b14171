------------------------------ MODULE KbStore ------------------------------
(***************************************************************************)
(* The knowledge base as it lies on disk and the CLI processes that work   *)
(* on it.  A command reads manifest.json into memory, decides on what it   *)
(* read, writes the two article files of a new version (kb-add only) and   *)
(* replaces manifest.json; a process can be killed, or an I/O step can     *)
(* fail, between any two of these.  atomic_write_text tests for an         *)
(* existing file and then renames a temporary one: two steps.              *)
(***************************************************************************)
EXTENDS KbLifecycle

CONSTANTS
    Writers,   \* processes that run kb-add and kb-transition
    Readers    \* processes that run kb-search

Procs == Writers \cup Readers

Paths == KbIds \X (1..VersionBound)

\* manifest, the variable of KbLifecycle, is manifest.json.
VARIABLES
    json,      \* articles/<KB-id>/v<N>.json: the article in it, or None
    md,        \* articles/<KB-id>/v<N>.md: the article it renders, or None
    pc,        \* where each process is
    mem,       \* the manifest each process holds in memory
    cand,      \* the candidate a process is adding
    broken     \* the checks that have ended a command in E_KB_INTEGRITY

vars == <<manifest, json, md, pc, mem, cand, broken>>

disk == <<manifest, json, md>>

Init ==
    /\ manifest = EmptyManifest
    /\ json = [f \in Paths |-> None]
    /\ md = [f \in Paths |-> None]
    /\ pc = [p \in Procs |-> "idle"]
    /\ mem = [p \in Procs |-> EmptyManifest]
    /\ cand = [p \in Procs |-> None]
    /\ broken = {}

\* The process ends; its memory is gone.
End(p) ==
    /\ pc' = [pc EXCEPT ![p] = "idle"]
    /\ mem' = [mem EXCEPT ![p] = EmptyManifest]
    /\ cand' = [cand EXCEPT ![p] = None]

\* It ends well, is refused or is stopped.
Exit(p) == End(p) /\ broken' = broken

\* It ends in E_KB_INTEGRITY, raised by a check of the manifest it reads, of a
\* file of an article, or of the number of entries with a new one.
IntegrityError(p, check) == End(p) /\ broken' = broken \cup {check}

Goto(p, step) ==
    /\ pc' = [pc EXCEPT ![p] = step]
    /\ broken' = broken

\* load_manifest
Load(p) ==
    /\ pc[p] = "idle"
    /\ \/ /\ Loadable(manifest)
          /\ Goto(p, "loaded")
          /\ mem' = [mem EXCEPT ![p] = manifest]
          /\ cand' = cand
       \/ ~Loadable(manifest) /\ IntegrityError(p, "manifest")
    /\ UNCHANGED disk

\* load_article: the file is there and is the article the manifest lists.
Intact(m, kb, v) == json[<<kb, v>>] = m[kb][v].cand

-----------------------------------------------------------------------------
(* kb-add *)

\* The path of the version being added: the next free number.
Target(p) == <<cand[p].kb, Len(mem[p][cand[p].kb]) + 1>>

\* Fault: the manifest lists the version before its files are there.
AddListedFirst(p, c) ==
    /\ pc[p] = "loaded"
    /\ CanAdd(mem[p], c)
    /\ Len(mem[p][c.kb]) < VersionBound
    /\ Goto(p, "check_json")
    /\ cand' = [cand EXCEPT ![p] = c]
    /\ manifest' = AddTo(mem[p], c)
    /\ UNCHANGED <<json, md, mem>>

AddReview(p, c) ==
    /\ pc[p] = "loaded"
    /\ CanAdd(mem[p], c)
    /\ Len(mem[p][c.kb]) < VersionBound
    /\ Goto(p, "check_json")
    /\ cand' = [cand EXCEPT ![p] = c]
    /\ UNCHANGED <<disk, mem>>

\* The entry would be one too many.
AddRefused(p, c) ==
    /\ pc[p] = "loaded"
    /\ Admissible(mem[p], c)
    /\ ~Fits(mem[p], c)
    /\ IntegrityError(p, "new entry")
    /\ UNCHANGED disk

\* Fault: an existing file is replaced.
Overwrite(p, file, here, then) ==
    /\ pc[p] = here
    /\ Goto(p, then)
    /\ UNCHANGED <<disk, mem, cand>>

\* os.path.lexists: an existing file is never overwritten.
CheckFile(p, file, here, then) ==
    /\ pc[p] = here
    /\ \/ file[Target(p)] = None /\ Goto(p, then) /\ UNCHANGED <<mem, cand>>
       \/ file[Target(p)] # None /\ Exit(p)
    /\ UNCHANGED disk

CheckJson(p) == CheckFile(p, json, "check_json", "put_json")

\* Fault: the manifest is saved before the rendering is written.
PutJsonOnly(p) ==
    /\ pc[p] = "put_json"
    /\ json' = [json EXCEPT ![Target(p)] = cand[p]]
    /\ Goto(p, "save")
    /\ mem' = [mem EXCEPT ![p] = AddTo(@, cand[p])]
    /\ UNCHANGED <<manifest, md, cand>>

\* os.replace
PutJson(p) ==
    /\ pc[p] = "put_json"
    /\ json' = [json EXCEPT ![Target(p)] = cand[p]]
    /\ Goto(p, "check_md")
    /\ UNCHANGED <<manifest, md, mem, cand>>

CheckMd(p) == CheckFile(p, md, "check_md", "put_md")

\* The version is entered in memory once both files are written.
PutMd(p) ==
    /\ pc[p] = "put_md"
    /\ md' = [md EXCEPT ![Target(p)] = cand[p]]
    /\ Goto(p, "save")
    /\ mem' = [mem EXCEPT ![p] = AddTo(@, cand[p])]
    /\ UNCHANGED <<manifest, json, cand>>

-----------------------------------------------------------------------------
(* kb-transition *)

Transition(p, kb, v, to) ==
    /\ pc[p] = "loaded"
    /\ Intact(mem[p], kb, v)
    /\ \/ /\ CanMove(mem[p], kb, v, to)
          /\ mem' = [mem EXCEPT ![p] = MoveTo(@, kb, v, to)]
       \/ \E a \in Authorizations(mem[p]) :
          /\ CanDecide(mem[p], kb, v, to, a)
          /\ mem' = [mem EXCEPT ![p] = DecideTo(@, kb, v, to, a)]
    /\ Goto(p, "save")
    /\ UNCHANGED <<disk, cand>>

TransitionBroken(p, kb, v) ==
    /\ pc[p] = "loaded"
    /\ ~Intact(mem[p], kb, v)
    /\ IntegrityError(p, "article")
    /\ UNCHANGED disk

-----------------------------------------------------------------------------
\* Fault: the file is truncated and rewritten in place, so a failure empties it.
SaveInPlace(p) ==
    /\ pc[p] = "save"
    /\ manifest' \in {mem[p], EmptyManifest}
    /\ Exit(p)
    /\ UNCHANGED <<json, md>>

\* _save_manifest, the last step of both: an atomic replace.
Save(p) ==
    /\ pc[p] = "save"
    /\ manifest' = mem[p]
    /\ Exit(p)
    /\ UNCHANGED <<json, md>>

\* kb-search in the given states: every article it considers is verified.
Search(p, states) ==
    /\ pc[p] = "loaded"
    /\ LET wanted == {f \in Paths : f[2] \in Versions(mem[p], f[1])
                                    /\ mem[p][f[1]][f[2]].state \in states}
       IN  IF \A f \in wanted : Intact(mem[p], f[1], f[2])
           THEN Exit(p) ELSE IntegrityError(p, "article")
    /\ UNCHANGED disk

SearchableStates == {CURRENT_GUIDANCE, KbState \ {"RETIRED", "REJECTED"}}

\* A command refused for another reason, an I/O error, a manifest too large to write or a kill.
Stop(p) ==
    /\ pc[p] # "idle"
    /\ Exit(p)
    /\ UNCHANGED disk

WriterStep(p) ==
    \/ Load(p)
    \/ \E c \in Candidates : AddReview(p, c) \/ AddRefused(p, c)
    \/ CheckJson(p) \/ PutJson(p) \/ CheckMd(p) \/ PutMd(p)
    \/ \E kb \in KbIds : \E v \in Versions(mem[p], kb) :
        \/ \E to \in KbState : Transition(p, kb, v, to)
        \/ TransitionBroken(p, kb, v)
    \/ Save(p)
    \/ Stop(p)

ReaderStep(p) ==
    \/ Load(p)
    \/ \E states \in SearchableStates : Search(p, states)
    \/ Stop(p)

Next ==
    \/ \E p \in Writers : WriterStep(p)
    \/ \E p \in Readers : ReaderStep(p)

Spec == Init /\ [][Next]_vars

-----------------------------------------------------------------------------
Steps == {"idle", "loaded", "check_json", "put_json", "check_md", "put_md", "save"}

TypeOK ==
    /\ manifest \in Manifest
    /\ json \in [Paths -> Candidates \cup {None}]
    /\ md \in [Paths -> Candidates \cup {None}]
    /\ pc \in [Procs -> Steps]
    /\ mem \in [Procs -> Manifest]
    /\ cand \in [Procs -> Candidates \cup {None}]
    /\ broken \subseteq {"manifest", "new entry", "article"}

(***************************************************************************)
(* Wherever a kb-add was interrupted, every version that manifest.json     *)
(* lists has its two files, holding the article that was entered: the      *)
(* article files are written before the manifest that lists them.          *)
(***************************************************************************)
ListedHaveFiles ==
    \A kb \in KbIds : \A v \in Versions(manifest, kb) :
        /\ json[<<kb, v>>] = manifest[kb][v].cand
        /\ md[<<kb, v>>] = manifest[kb][v].cand

(***************************************************************************)
(* The commands never make a store that they then call damaged.  A command *)
(* ends in E_KB_INTEGRITY only where kb-add is refused a new entry in a    *)
(* full knowledge base; every manifest that was saved can be loaded, and a *)
(* search or a transition that read the manifest before a concurrent       *)
(* kb-add or kb-transition, or after a crash of one, still finds every     *)
(* article it considers intact (load_manifest, load_article,               *)
(* add_candidate).                                                         *)
(***************************************************************************)
NoIntegrityError == broken \subseteq {"new entry"}

(***************************************************************************)
(* Article files are written once: no step changes a file that exists.     *)
(***************************************************************************)
WrittenOnce ==
    [][\A f \in Paths : /\ json[f] # None => json'[f] = json[f]
                        /\ md[f] # None => md'[f] = md[f]]_vars

(***************************************************************************)
(* With a single writer the store, crashes included, is the atomic life    *)
(* cycle: what a command decides on what it read is still true when it     *)
(* replaces the manifest.                                                  *)
(***************************************************************************)
ImplementsLifecycle == LifecycleSpec

=============================================================================
