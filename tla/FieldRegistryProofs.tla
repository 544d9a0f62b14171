------------------------ MODULE FieldRegistryProofs ------------------------
(***************************************************************************)
(* The freshness of the registry for any number of contents, edits and     *)
(* calls.  The inductive invariant says why the order stat-then-read is    *)
(* safe: the stamp the copy carries is never newer than its content, so a  *)
(* file that still has that stamp still has that content.  The same holds  *)
(* in FieldLevels, where the gateway is started again with other catalogs: *)
(* a start begins the argument anew, and there is no copy while it is down.*)
(*                                                                         *)
(* On top of it SessionInv says what an answer was made from, and the      *)
(* lemmas about Catalog what it can then state: a level is granted by a    *)
(* validation of what is known, and knowing more never raises it.          *)
(***************************************************************************)
EXTENDS FieldLevels, SequenceTheorems, FiniteSetTheorems, TLAPS

Refreshing == {"stat", "digest", "load_stat", "load_read"}

\* The copy and the file.
CopyInv ==
    /\ registry.used = Meaning(registry.sha256)
    /\ registry.stat # None =>
        /\ registry.stat <= stamp
        /\ registry.stat = stamp /\ file # Missing => file = registry.sha256
    /\ stat # None => stat <= stamp

\* Where a call stands.
CallInv ==
    /\ file \in seen
    /\ registry.reloads <= calls
    /\ pc \in Refreshing /\ calls > 0 => registry.reloads < calls
    /\ pc = "tool" => \E c \in seen : registry.used = Meaning(c)
    /\ pc \in {"load_stat", "load_read"} /\ calls > 0 =>
        \E c \in seen : c # registry.sha256
    /\ pc \in {"stat", "digest"} => calls > 0

Inv == TypeOK /\ CopyInv /\ CallInv

(* Steps keep the types. *)
LEMMA TypeStep ==
    ASSUME Inv, [Next]_vars
    PROVE  TypeOK'
<1> USE RegistryAssumption DEF Inv, TypeOK, CallInv, Stamps, Refreshing
<1>1. CASE Call
  BY <1>1 DEF Call
<1>2. CASE RefreshStat
  BY <1>2 DEF RefreshStat, Stat
<1>3. CASE RefreshDigest
  BY <1>3 DEF RefreshDigest
<1>4. CASE LoadStat
  BY <1>4 DEF LoadStat, Stat
<1>5. CASE LoadRead
  BY <1>5 DEF LoadRead, Contents
<1>6. CASE Tool
  BY <1>6 DEF Tool
<1>7. ASSUME NEW c \in Contents \cup {Missing}, Edit(c)
      PROVE  TypeOK'
  BY <1>7 DEF Edit
<1>8. CASE UNCHANGED vars
  BY <1>8 DEF vars
<1>9. QED
  BY <1>1, <1>2, <1>3, <1>4, <1>5, <1>6, <1>7, <1>8 DEF Next, Gateway

(* Steps keep the copy's relation to the file. *)
LEMMA CopyStep ==
    ASSUME Inv, [Next]_vars
    PROVE  CopyInv'
<1> USE RegistryAssumption DEF Inv, TypeOK, CopyInv, Stamps, Meaning, Contents
<1>1. CASE Call
  BY <1>1 DEF Call
<1>2. CASE RefreshStat
  BY <1>2 DEF RefreshStat, Stat
<1>3. CASE RefreshDigest
  BY <1>3 DEF RefreshDigest
<1>4. CASE LoadStat
  BY <1>4 DEF LoadStat, Stat
<1>5. CASE LoadRead
  BY <1>5 DEF LoadRead
<1>6. CASE Tool
  BY <1>6 DEF Tool
<1>7. ASSUME NEW c \in Contents \cup {Missing}, Edit(c)
      PROVE  CopyInv'
  BY <1>7 DEF Edit
<1>8. CASE UNCHANGED vars
  BY <1>8 DEF vars
<1>9. QED
  BY <1>1, <1>2, <1>3, <1>4, <1>5, <1>6, <1>7, <1>8 DEF Next, Gateway

(* Steps keep the account of the call. *)
LEMMA CallStep ==
    ASSUME Inv, [Next]_vars
    PROVE  CallInv'
<1> USE RegistryAssumption DEF Inv, TypeOK, CopyInv, CallInv, Refreshing, Contents
<1>1. CASE Call
  BY <1>1 DEF Call
<1>2. CASE RefreshStat
  BY <1>2 DEF RefreshStat, Stat
<1>3. CASE RefreshDigest
  BY <1>3 DEF RefreshDigest
<1>4. CASE LoadStat
  BY <1>4 DEF LoadStat
<1>5. CASE LoadRead
  BY <1>5 DEF LoadRead, Meaning
<1>6. CASE Tool
  BY <1>6 DEF Tool
<1>7. ASSUME NEW c \in Contents \cup {Missing}, Edit(c)
      PROVE  CallInv'
  BY <1>7 DEF Edit
<1>8. CASE UNCHANGED vars
  BY <1>8 DEF vars
<1>9. QED
  BY <1>1, <1>2, <1>3, <1>4, <1>5, <1>6, <1>7, <1>8 DEF Next, Gateway

(* Init of FieldRegistry gives its invariant. *)
LEMMA InitInv ==
    ASSUME Init PROVE Inv
<1> USE RegistryAssumption DEF Init
<1>1. TypeOK
  BY DEF TypeOK, Stamps
<1>2. CopyInv
  BY DEF CopyInv, Meaning, Contents
<1>3. CallInv
  BY DEF CallInv, Refreshing
<1>4. QED
  BY <1>1, <1>2, <1>3 DEF Inv

(* The inductive invariant holds in every reachable state. *)
THEOREM RegistryInv == Spec => []Inv
<1>1. Init => Inv
  BY InitInv
<1>2. Inv /\ [Next]_vars => Inv'
  BY TypeStep, CopyStep, CallStep DEF Inv
<1>3. QED
  BY <1>1, <1>2, PTL DEF Spec

(***************************************************************************)
(* The refreshed copy of field_validation keeps its type.                  *)
(***************************************************************************)
THEOREM RegistryTypeOK == Spec => []TypeOK
<1>1. Inv => TypeOK
  BY DEF Inv
<1>2. QED
  BY <1>1, RegistryInv, PTL

(***************************************************************************)
(* Whatever the edits between the looks of refresh and load at the file, a *)
(* tool call uses what the file meant at a moment of that call.            *)
(***************************************************************************)
THEOREM RegistryDiskDecides == Spec => []DiskDecides
<1>1. Inv => DiskDecides
  BY DEF Inv, CallInv, DiskDecides
<1>2. QED
  BY <1>1, RegistryInv, PTL

(***************************************************************************)
(* refresh loads the file again only when it held another content.         *)
(***************************************************************************)
THEOREM RegistryReloadMeansChange == Spec => ReloadMeansChange
<1>1. Inv /\ [Next]_vars =>
        [registry'.reloads # registry.reloads => \E c \in seen : c # registry.sha256]_vars
  <2> SUFFICES ASSUME Inv, Next, registry'.reloads # registry.reloads
               PROVE  \E c \in seen : c # registry.sha256
    OBVIOUS
  <2> USE DEF Inv, TypeOK, CallInv
  <2>1. CASE LoadRead
    BY <2>1 DEF LoadRead
  <2>2. CASE RefreshDigest
    BY <2>2 DEF RefreshDigest
  <2>3. CASE Call \/ RefreshStat \/ LoadStat \/ Tool \/ \E c \in Contents \cup {Missing} : Edit(c)
    BY <2>3 DEF Call, RefreshStat, LoadStat, Tool, Edit
  <2>4. QED
    BY <2>1, <2>2, <2>3 DEF Next, Gateway
<1>2. QED
  BY <1>1, RegistryInv, PTL DEF Spec, ReloadMeansChange

-----------------------------------------------------------------------------
(* A gateway that is started again. *)

LevelsInv ==
    /\ file \in Contents \cup {Missing}
    /\ stamp \in 0..MaxEdits
    /\ pc # "down" => Inv

(* A start that is not refused is an initial state of the registry. *)
LEMMA RestartInv ==
    ASSUME LevelsInv, NEW s, Restart(s)
    PROVE  LevelsInv'
<1>1. /\ file' = file /\ stamp' = stamp /\ calls' = 0 /\ stat' = None /\ seen' = {file}
      /\ registry' = [used |-> Empty, stat |-> None, sha256 |-> None, reloads |-> 0]
  BY DEF Restart
<1>2. pc' \in {"down", "load_stat"}
  BY DEF Restart, StartsWith
<1>3. SUFFICES ASSUME pc' = "load_stat" PROVE Inv'
  BY <1>1, <1>2 DEF LevelsInv
<1> USE RegistryAssumption DEF LevelsInv
<1>4. TypeOK'
  BY <1>1, <1>3 DEF TypeOK, Stamps
<1>5. CopyInv'
  BY <1>1, <1>3 DEF CopyInv, Meaning, Contents
<1>6. CallInv'
  BY <1>1, <1>3 DEF CallInv, Refreshing
<1>7. QED
  BY <1>4, <1>5, <1>6 DEF Inv

(* Every other step of a gateway is a step of its registry. *)
LEMMA OtherSteps ==
    ASSUME LevelsNext, ~\E s \in Setups : Restart(s)
    PROVE  Next
<1>1. CASE NewCall
  BY <1>1 DEF NewCall, Next, Gateway
<1>2. CASE Refreshes
  BY <1>2 DEF Refreshes, Next, Gateway
<1>3. ASSUME NEW c \in Contents \cup {Missing}, EditRegistry(c)
      PROVE  Next
  BY <1>3 DEF EditRegistry, Next
<1>4. ASSUME NEW col, NEW row, Collect(col, row)
      PROVE  Next
  BY <1>4 DEF Collect, Next, Gateway
<1>5. ASSUME NEW col, CollectRefused(col) \/ Describe(col)
      PROVE  Next
  BY <1>5 DEF CollectRefused, Describe, Next, Gateway
<1>6. ASSUME NEW cols, Analyze(cols)
      PROVE  Next
  BY <1>6 DEF Analyze, Next, Gateway
<1>7. QED
  BY <1>1, <1>2, <1>3, <1>4, <1>5, <1>6 DEF LevelsNext

(* While the gateway is down only the file changes. *)
LEMMA DownInv ==
    ASSUME LevelsInv, Next, pc = "down"
    PROVE  LevelsInv'
<1>1. PICK c \in Contents \cup {Missing} : Edit(c)
  BY DEF Next, Gateway, Call, RefreshStat, RefreshDigest, LoadStat, LoadRead, Tool
<1>2. QED
  BY <1>1, RegistryAssumption DEF LevelsInv, Edit

(* The invariant of the registry holds whenever there is a gateway. *)
THEOREM LevelsInvariant == LevelsSpec => []LevelsInv
<1>1. LevelsInit => LevelsInv
  BY InitInv DEF LevelsInit, LevelsInv, Inv, TypeOK
<1>2. LevelsInv /\ [LevelsNext]_all => LevelsInv'
  <2> SUFFICES ASSUME LevelsInv, [LevelsNext]_all PROVE LevelsInv'
    OBVIOUS
  <2>1. CASE \E s \in Setups : Restart(s)
    BY <2>1, RestartInv
  <2>2. CASE LevelsNext /\ ~\E s \in Setups : Restart(s)
    <3>1. Next
      BY <2>2, OtherSteps
    <3>2. CASE pc = "down"
      BY <3>1, <3>2, DownInv
    <3>3. CASE pc # "down"
      <4>1. Inv /\ Inv'
        BY <3>1, <3>3, TypeStep, CopyStep, CallStep DEF LevelsInv, Inv
      <4>2. QED
        BY <4>1 DEF LevelsInv, Inv, TypeOK
    <3>4. QED
      BY <3>2, <3>3
  <2>3. CASE UNCHANGED all
    <3>1. UNCHANGED vars
      BY <2>3 DEF all
    <3>2. QED
      BY <3>1, TypeStep, CopyStep, CallStep DEF LevelsInv, Inv, vars
  <2>4. QED
    BY <2>1, <2>2, <2>3
<1>3. QED
  BY <1>1, <1>2, PTL DEF LevelsSpec

(***************************************************************************)
(* With any catalogs, starts, edits and collections, the level that a tool *)
(* states comes from what the registry file held during that call.         *)
(***************************************************************************)
THEOREM LevelsDiskDecides == LevelsSpec => []DiskDecides
<1>1. LevelsInv => DiskDecides
  BY DEF LevelsInv, Inv, CallInv, DiskDecides
<1>2. QED
  BY <1>1, LevelsInvariant, PTL

-----------------------------------------------------------------------------
(* The level of a collector. *)

(* A set of numbers has a least one. *)
LEMMA LeastNat ==
    ASSUME NEW T \in SUBSET Nat, T # {}
    PROVE  \E n \in T : \A m \in T : n <= m
<1> DEFINE R == {ss \in Nat \X Nat : ss[1] < ss[2]}
<1>1. IsWellFoundedOn(R, Nat)
  BY NatLessThanWellFounded DEF OpToRel
<1>2. \A m, n \in Nat : m < n => <<m, n>> \in R
  OBVIOUS
<1> HIDE DEF R
<1>3. PICK n \in T : \A m \in T : ~(<<m, n>> \in R)
  BY <1>1, WFMin
<1>4. ASSUME NEW m \in T PROVE n <= m
  <2>1. ~(m < n)
    BY <1>2, <1>3
  <2>2. QED
    BY <2>1
<1>5. QED
  BY <1>4

Dimensions == {"version", "release_update", "container", "role", "rac", "asm", "dataguard", "os"}

LEMMA DimensionsFinite == IsFiniteSet(Dimensions)
<1>1. IsFiniteSet({"version"})
  BY FS_Singleton
<1>2. IsFiniteSet({"version"} \cup {"release_update"})
  BY <1>1, FS_AddElement
<1>3. IsFiniteSet(({"version"} \cup {"release_update"}) \cup {"container"})
  BY <1>2, FS_AddElement
<1>4. IsFiniteSet((({"version"} \cup {"release_update"}) \cup {"container"}) \cup {"role"})
  BY <1>3, FS_AddElement
<1> DEFINE A == (({"version"} \cup {"release_update"}) \cup {"container"}) \cup {"role"}
<1>5. Dimensions = (((A \cup {"rac"}) \cup {"asm"}) \cup {"dataguard"}) \cup {"os"}
  BY DEF Dimensions
<1> HIDE DEF A
<1>6. IsFiniteSet(A \cup {"rac"})
  BY <1>4, FS_AddElement DEF A
<1>7. IsFiniteSet((A \cup {"rac"}) \cup {"asm"})
  BY <1>6, FS_AddElement
<1>8. IsFiniteSet(((A \cup {"rac"}) \cup {"asm"}) \cup {"dataguard"})
  BY <1>7, FS_AddElement
<1>9. QED
  BY <1>5, <1>8, FS_AddElement

(* The rank of a comparison is a pair of numbers, the first 0 for a match. *)
LEMMA RankNumbers ==
    ASSUME NEW ctx, NEW target
    PROVE  LET c == _compare(ctx, target)
           IN  /\ Cardinality(c.diff) \in Nat
               /\ Cardinality(c.unknown) \in Nat
               /\ Cardinality(c.diff) = 0 <=> c.diff = {}
<1> DEFINE c == _compare(ctx, target)
<1>1. c.diff \subseteq Dimensions /\ c.unknown \subseteq Dimensions
  BY DEF _compare, Dimensions, BooleanDims
<1> HIDE DEF c
<1>2. IsFiniteSet(c.diff) /\ IsFiniteSet(c.unknown)
  BY <1>1, DimensionsFinite, FS_Subset
<1>3. QED
  BY <1>2, FS_CardinalityType, FS_EmptySet DEF c

(* assess compares with a closest context: none of the others ranks before it. *)
LEMMA BestIsClosest ==
    ASSUME NEW reg, NEW current \in SUBSET Nat, current # {}, NEW target
    PROVE  LET rank(i) == Rank(Comparison(reg, target, i))
               best == Best(reg, current, target)
           IN  best \in current /\ \A j \in current : ~Less(rank(j), rank(best))
<1> DEFINE rank(i) == Rank(Comparison(reg, target, i))
           D == {rank(i)[1] : i \in current}
           L == {i \in current : ~\E j \in current : Less(rank(j), rank(i))}
<1>1. \A i \in current : rank(i)[1] \in Nat /\ rank(i)[2] \in Nat
  BY RankNumbers DEF Rank, Comparison
<1>2. Best(reg, current, target) = Min(L)
  BY DEF Best
<1> HIDE DEF rank
<1>3. PICK d \in D : \A e \in D : d <= e
  <2>1. D \in SUBSET Nat /\ D # {}
    BY <1>1
  <2> HIDE DEF D
  <2>2. QED
    BY <2>1, LeastNat
<1> DEFINE U == {rank(i)[2] : i \in {j \in current : rank(j)[1] = d}}
<1>4. PICK u \in U : \A e \in U : u <= e
  <2>1. U \in SUBSET Nat /\ U # {}
    BY <1>1, <1>3
  <2> HIDE DEF U
  <2>2. QED
    BY <2>1, LeastNat
<1>5. PICK i \in current : rank(i)[1] = d /\ rank(i)[2] = u
  BY <1>4
<1>6. \A j \in current : ~Less(rank(j), rank(i))
  <2> SUFFICES ASSUME NEW j \in current, Less(rank(j), rank(i)) PROVE FALSE
    OBVIOUS
  <2>1. d <= rank(j)[1]
    BY <1>3
  <2>2. rank(j)[1] = d => u <= rank(j)[2]
    BY <1>4
  <2> HIDE DEF D, U
  <2>3. QED
    BY <1>1, <1>5, <2>1, <2>2 DEF Less
<1>7. L \in SUBSET Nat /\ L # {}
  BY <1>6
<1> HIDE DEF L
<1>8. Min(L) \in L
  BY <1>7, LeastNat DEF Min
<1>9. QED
  BY <1>2, <1>8 DEF L, rank

\* There is a validation of the collector's SQL as it is.
Recorded(reg, col) ==
    col.kind = "sql_query" /\ col.sha256 # None /\ Current(reg, col) # {}

\* One of them is of a context that does not differ from the target.
Matches(reg, col, target) == \E i \in Current(reg, col) : Comparison(reg, target, i).diff = {}

\* The validations of a registry are numbered.
Numbered(reg) == DOMAIN reg.validations \subseteq Nat

(* The level assess gives, without the choice of a context. *)
LEMMA AssessIs ==
    ASSUME NEW reg, Numbered(reg), NEW col, NEW target
    PROVE  assess(reg, col, target).level =
             IF ~Recorded(reg, col) THEN "DOCUMENTATION_ONLY"
             ELSE IF Matches(reg, col, target) THEN "FIELD_VALIDATED"
             ELSE "FIELD_VALIDATED_OTHER_CONTEXT"
<1> DEFINE current == Current(reg, col)
           best == Best(reg, current, target)
           c(i) == Comparison(reg, target, i)
<1>1. current \in SUBSET Nat
  BY DEF Current, Validations, Numbered
<1>2. CASE ~Recorded(reg, col)
  BY <1>2 DEF assess, NotValidated, Recorded
<1>3. CASE Recorded(reg, col)
  <2>1. best \in current /\ \A j \in current : ~Less(Rank(c(j)), Rank(c(best)))
    BY <1>1, <1>3, BestIsClosest DEF Recorded
  <2>2. \A i \in current : /\ Rank(c(i))[1] \in Nat
                           /\ Rank(c(i))[1] = 0 <=> c(i).diff = {}
    BY RankNumbers DEF Rank, Comparison
  <2>3. assess(reg, col, target).level = IF c(best).diff = {} THEN "FIELD_VALIDATED"
                                         ELSE "FIELD_VALIDATED_OTHER_CONTEXT"
    BY <1>3 DEF assess, Recorded, Current
  <2>4. Matches(reg, col, target) <=> \E i \in current : c(i).diff = {}
    BY DEF Matches
  <2> HIDE DEF current, best, c
  <2>5. c(best).diff = {} <=> \E i \in current : c(i).diff = {}
    <3> SUFFICES ASSUME NEW i \in current, c(i).diff = {} PROVE c(best).diff = {}
      BY <2>1
    <3>1. Rank(c(i))[1] = 0 /\ Rank(c(best))[1] \in Nat
      BY <2>1, <2>2
    <3>2. ~(Rank(c(i))[1] < Rank(c(best))[1])
      BY <2>1 DEF Less
    <3>3. Rank(c(best))[1] = 0
      BY <3>1, <3>2
    <3>4. QED
      BY <2>1, <2>2, <3>3
  <2>6. QED
    BY <1>3, <2>3, <2>4, <2>5
<1>4. QED
  BY <1>2, <1>3

(* What is not observed counts as declared, and declared to be unknown as not known. *)
ObservedDims == {"rac", "asm", "dataguard", "role", "os_family", "release_update"}

ObservedOk(o) ==
    /\ o = [d \in ObservedDims |-> o[d]]
    /\ o.role \in {None, "PRIMARY", "STANDBY"}

TargetDims == {"adapter", "enabled", "version", "role", "container", "release_update",
               "architecture", "os", "license_status", "allowed", "missing_privileges"}

TargetOk(t) == \E s \in Setups : t = Target(s.target)

(* The parts of a loaded target. *)
LEMMA TargetParts ==
    ASSUME NEW s \in Setups
    PROVE  LET t == Target(s.target)
           IN  /\ \E D : TargetDims \subseteq D /\ t = [f \in D |-> t[f]]
               /\ \A f \in TargetDims \ {"version"} : t[f] = s.target[f]
               /\ t.version = IF s.target.version # None THEN family_of(s.target.version) ELSE None
<1> DEFINE D == DOMAIN s.target \ {"connection_material"}
<1>1. TargetDims \subseteq D
  BY LevelsAssumption DEF TargetDims
<1>2. Target(s.target) =
        [f \in D |-> IF f = "version" /\ s.target.version # None
                     THEN family_of(s.target.version) ELSE s.target[f]]
  BY DEF Target
<1> HIDE DEF D
<1>3. Target(s.target) = [f \in D |-> Target(s.target)[f]]
  BY <1>2
<1>4. \A f \in TargetDims : f \in D
  BY <1>1
<1>5. "version" \in D /\ "version" \in TargetDims
  BY <1>1 DEF TargetDims
<1>6. QED
  BY <1>1, <1>2, <1>3, <1>4, <1>5

(* What field validation compares with, in terms of what was observed on t. *)
LEMMA ObservedTargetParts ==
    ASSUME NEW t, TargetOk(t), NEW o, ObservedOk(o)
    PROVE  LET u == ObservedTarget(t, o)
           IN  /\ u.version = t.version /\ u.container = t.container
               /\ u.role = IF o.role # None THEN o.role ELSE t.role
               /\ u.release_update = IF o.release_update # None THEN o.release_update
                                     ELSE t.release_update
               /\ u.os = IF o.os_family # None /\ o.os_family # t.os.family
                         THEN [family |-> o.os_family, distribution |-> None] ELSE t.os
               /\ \A d \in BooleanDims :
                    /\ d \in DOMAIN u.architecture <=> o[d] # None \/ d \in DOMAIN t.architecture
                    /\ d \in DOMAIN u.architecture =>
                         u.architecture[d] = IF o[d] # None THEN o[d] ELSE t.architecture[d]
<1> DEFINE u == ObservedTarget(t, o)
           A == DOMAIN t.architecture \cup {b \in BooleanDims : o[b] # None}
           a == [d \in A |-> IF d \in BooleanDims /\ o[d] # None THEN o[d] ELSE t.architecture[d]]
           r == IF o.role # None THEN o.role ELSE t.role
           os == IF o.os_family # None /\ o.os_family # t.os.family
                 THEN [family |-> o.os_family, distribution |-> None] ELSE t.os
           ru == IF o.release_update # None THEN o.release_update ELSE t.release_update
<1>1. PICK D : TargetDims \subseteq D /\ t = [f \in D |-> t[f]]
  BY TargetParts DEF TargetOk
<1>2. {"version", "container", "role", "release_update", "os", "architecture"} \subseteq D
  BY <1>1 DEF TargetDims
<1>3. u = [t EXCEPT !.architecture = a, !.role = r, !.os = os, !.release_update = ru]
  BY DEF ObservedTarget
<1>4. \A d \in BooleanDims :
        /\ d \in DOMAIN a <=> o[d] # None \/ d \in DOMAIN t.architecture
        /\ d \in DOMAIN a => a[d] = IF o[d] # None THEN o[d] ELSE t.architecture[d]
  OBVIOUS
<1> HIDE DEF u, a, r, os, ru
<1>5. /\ u.version = t.version /\ u.container = t.container
      /\ u.role = r /\ u.release_update = ru /\ u.os = os /\ u.architecture = a
  BY <1>1, <1>2, <1>3
<1>6. QED
  BY <1>4, <1>5 DEF u, r, os, ru

(* A context that does not differ from the target is compatible with all that is known. *)
Agrees(ctx, t, o) ==
    /\ \A d \in BooleanDims : Known(t, o, d) \in {None, ctx.architecture[d]}
    /\ \A d \in {"role", "container"} : Known(t, o, d) \in {None, ctx[d]}
    /\ Known(t, o, "os") \in {None, ctx.os.family}
    /\ Known(t, o, "version") \in {None, family_of(ctx.version)}
    /\ Known(t, o, "version") # None /\ Known(t, o, "release_update") # None
          => ~Less(Known(t, o, "release_update"), ctx.release_update)

(* The dimensions of a comparison, one by one. *)
LEMMA DiffDims ==
    ASSUME NEW ctx, NEW u
    PROVE  LET diff == _compare(ctx, u).diff
               same == u.version # None /\ family_of(ctx.version) = u.version
           IN  /\ diff \subseteq Dimensions
               /\ "version" \in diff <=> u.version # None /\ ~same
               /\ "release_update" \in diff <=>
                    same /\ u.release_update # None /\ Less(u.release_update, ctx.release_update)
               /\ "container" \in diff <=>
                    u.container \notin {None, "UNKNOWN"} /\ u.container # ctx.container
               /\ "role" \in diff <=> u.role \notin {None, "UNKNOWN"} /\ u.role # ctx.role
               /\ \A d \in BooleanDims :
                    d \in diff <=> d \in DOMAIN u.architecture
                                   /\ u.architecture[d] # ctx.architecture[d]
               /\ "os" \in diff <=> u.os.family # None /\ u.os # ctx.os
  BY DEF _compare, Dimensions, BooleanDims

LEMMA KnownDims ==
    ASSUME NEW t, NEW o
    PROVE  /\ \A d \in BooleanDims :
                Known(t, o, d) = IF o[d] # None THEN o[d]
                                 ELSE IF d \in DOMAIN t.architecture THEN t.architecture[d] ELSE None
           /\ Known(t, o, "os") = IF o.os_family # None THEN o.os_family ELSE t.os.family
           /\ Known(t, o, "role") = IF o.role # None THEN o.role
                                    ELSE IF t.role = "UNKNOWN" THEN None ELSE t.role
           /\ Known(t, o, "release_update") =
                IF o.release_update # None THEN o.release_update ELSE t.release_update
           /\ Known(t, o, "version") = IF t.version = "UNKNOWN" THEN None ELSE t.version
           /\ Known(t, o, "container") = IF t.container = "UNKNOWN" THEN None ELSE t.container
  BY DEF Known, BooleanDims

(* What is declared of an architecture is not unknown. *)
LEMMA TargetArchitecture ==
    ASSUME NEW t, TargetOk(t), NEW d \in DOMAIN t.architecture
    PROVE  t.architecture[d] # None
<1>1. PICK s \in Setups : t = Target(s.target)
  BY DEF TargetOk
<1>2. t.architecture = s.target.architecture
  BY <1>1, TargetParts DEF TargetDims
<1>3. QED
  BY <1>2, LevelsAssumption

(* A dimension of the architecture differs when it is known to. *)
LEMMA ObservedArchitecture ==
    ASSUME NEW t, TargetOk(t), NEW o, ObservedOk(o), NEW d \in BooleanDims, NEW ctx,
           NEW u, u = ObservedTarget(t, o)
    PROVE  d \in _compare(ctx, u).diff <=>
             Known(t, o, d) # None /\ Known(t, o, d) # ctx.architecture[d]
<1>1. /\ d \in DOMAIN u.architecture <=> o[d] # None \/ d \in DOMAIN t.architecture
      /\ d \in DOMAIN u.architecture =>
            u.architecture[d] = IF o[d] # None THEN o[d] ELSE t.architecture[d]
  <2>1. \A e \in BooleanDims :
          /\ e \in DOMAIN u.architecture <=> o[e] # None \/ e \in DOMAIN t.architecture
          /\ e \in DOMAIN u.architecture =>
                u.architecture[e] = IF o[e] # None THEN o[e] ELSE t.architecture[e]
    BY ObservedTargetParts
  <2>2. QED
    BY <2>1
<1>2. d \in _compare(ctx, u).diff <=>
        d \in DOMAIN u.architecture /\ u.architecture[d] # ctx.architecture[d]
  BY DiffDims
<1>3. Known(t, o, d) = IF o[d] # None THEN o[d]
                       ELSE IF d \in DOMAIN t.architecture THEN t.architecture[d] ELSE None
  BY KnownDims
<1>4. d \in DOMAIN t.architecture => t.architecture[d] # None
  BY TargetArchitecture
<1>5. QED
  BY <1>1, <1>2, <1>3, <1>4

LEMMA MatchAgrees ==
    ASSUME NEW t, TargetOk(t), NEW o, ObservedOk(o), NEW ctx,
           _compare(ctx, ObservedTarget(t, o)).diff = {}
    PROVE  Agrees(ctx, t, o)
<1> DEFINE u == ObservedTarget(t, o)
           diff == _compare(ctx, u).diff
<1>1. diff = {}
  OBVIOUS
<1>2. \A d \in BooleanDims : Known(t, o, d) \in {None, ctx.architecture[d]}
  BY <1>1, ObservedArchitecture
<1>3. /\ u.version = t.version /\ u.container = t.container
      /\ u.role = IF o.role # None THEN o.role ELSE t.role
      /\ u.release_update = IF o.release_update # None THEN o.release_update ELSE t.release_update
      /\ u.os = IF o.os_family # None /\ o.os_family # t.os.family
                THEN [family |-> o.os_family, distribution |-> None] ELSE t.os
  BY ObservedTargetParts
<1>4. /\ ~(u.version # None /\ family_of(ctx.version) # u.version)
      /\ ~(/\ u.version # None /\ family_of(ctx.version) = u.version
           /\ u.release_update # None /\ Less(u.release_update, ctx.release_update))
      /\ ~(u.container \notin {None, "UNKNOWN"} /\ u.container # ctx.container)
      /\ ~(u.role \notin {None, "UNKNOWN"} /\ u.role # ctx.role)
      /\ ~(u.os.family # None /\ u.os # ctx.os)
  BY <1>1, DiffDims
<1> HIDE DEF u, diff
<1>5. Known(t, o, "role") \in {None, ctx.role} /\ Known(t, o, "container") \in {None, ctx.container}
  BY <1>3, <1>4, KnownDims DEF ObservedOk
<1>6. Known(t, o, "os") \in {None, ctx.os.family}
  <2>1. Known(t, o, "os") = u.os.family
    BY <1>3, KnownDims
  <2>2. QED
    BY <1>4, <2>1
<1>7. /\ Known(t, o, "version") \in {None, family_of(ctx.version)}
      /\ Known(t, o, "version") # None /\ Known(t, o, "release_update") # None
           => ~Less(Known(t, o, "release_update"), ctx.release_update)
  BY <1>3, <1>4, KnownDims
<1>8. QED
  BY <1>2, <1>5, <1>6, <1>7 DEF Agrees

(* More is known under p than under o, and nothing else. *)
LearntSince(t, o, p) ==
    \A d \in BooleanDims \cup {"role", "os", "release_update"} : Known(t, o, d) \in {None, Known(t, p, d)}

(* A context that differs goes on to differ. *)
LEMMA DiffsStay ==
    ASSUME NEW t, TargetOk(t), NEW o, ObservedOk(o), NEW p, ObservedOk(p), LearntSince(t, o, p),
           NEW ctx, _compare(ctx, ObservedTarget(t, p)).diff = {}
    PROVE  _compare(ctx, ObservedTarget(t, o)).diff = {}
<1> DEFINE u == ObservedTarget(t, o)
           w == ObservedTarget(t, p)
           diff == _compare(ctx, u).diff
<1>1. _compare(ctx, w).diff = {}
  OBVIOUS
<1>2. \A d \in BooleanDims : d \notin diff
  <2> TAKE d \in BooleanDims
  <2>1. d \in diff <=> Known(t, o, d) # None /\ Known(t, o, d) # ctx.architecture[d]
    BY ObservedArchitecture
  <2>2. d \notin _compare(ctx, w).diff
    BY <1>1
  <2>3. Known(t, p, d) = None \/ Known(t, p, d) = ctx.architecture[d]
    BY <2>2, ObservedArchitecture
  <2>4. Known(t, o, d) \in {None, Known(t, p, d)}
    BY DEF LearntSince
  <2> HIDE DEF diff
  <2>5. QED
    BY <2>1, <2>3, <2>4
<1>3. /\ u.version = t.version /\ u.container = t.container
      /\ u.role = IF o.role # None THEN o.role ELSE t.role
      /\ u.release_update = IF o.release_update # None THEN o.release_update ELSE t.release_update
      /\ u.os = IF o.os_family # None /\ o.os_family # t.os.family
                THEN [family |-> o.os_family, distribution |-> None] ELSE t.os
      /\ w.version = t.version /\ w.container = t.container
      /\ w.role = IF p.role # None THEN p.role ELSE t.role
      /\ w.release_update = IF p.release_update # None THEN p.release_update ELSE t.release_update
      /\ w.os = IF p.os_family # None /\ p.os_family # t.os.family
                THEN [family |-> p.os_family, distribution |-> None] ELSE t.os
  BY ObservedTargetParts
<1>4. /\ ~(w.version # None /\ family_of(ctx.version) # w.version)
      /\ ~(/\ w.version # None /\ family_of(ctx.version) = w.version
           /\ w.release_update # None /\ Less(w.release_update, ctx.release_update))
      /\ ~(w.container \notin {None, "UNKNOWN"} /\ w.container # ctx.container)
      /\ ~(w.role \notin {None, "UNKNOWN"} /\ w.role # ctx.role)
      /\ ~(w.os.family # None /\ w.os # ctx.os)
  BY <1>1, DiffDims
<1>5. /\ diff \subseteq Dimensions
      /\ "version" \in diff <=> u.version # None /\ family_of(ctx.version) # u.version
      /\ "release_update" \in diff <=>
           /\ u.version # None /\ family_of(ctx.version) = u.version
           /\ u.release_update # None /\ Less(u.release_update, ctx.release_update)
      /\ "container" \in diff <=> u.container \notin {None, "UNKNOWN"} /\ u.container # ctx.container
      /\ "role" \in diff <=> u.role \notin {None, "UNKNOWN"} /\ u.role # ctx.role
      /\ "os" \in diff <=> u.os.family # None /\ u.os # ctx.os
  BY DiffDims
<1>6. \A d \in {"role", "os", "release_update"} : Known(t, o, d) \in {None, Known(t, p, d)}
  BY DEF LearntSince
<1> HIDE DEF u, w, diff
<1>7. "version" \notin diff /\ "container" \notin diff
  BY <1>3, <1>4, <1>5
<1>8. "release_update" \notin diff
  <2>1. Known(t, o, "release_update") = u.release_update /\ Known(t, p, "release_update") = w.release_update
    BY <1>3, KnownDims
  <2>2. u.release_update \in {None, w.release_update}
    BY <1>6, <2>1
  <2>3. QED
    BY <1>3, <1>4, <1>5, <2>2
<1>9. "role" \notin diff
  <2>1. /\ Known(t, o, "role") = IF u.role = "UNKNOWN" THEN None ELSE u.role
        /\ Known(t, p, "role") = IF w.role = "UNKNOWN" THEN None ELSE w.role
    BY <1>3, KnownDims DEF ObservedOk
  <2>2. QED
    BY <1>4, <1>5, <1>6, <2>1
<1>10. "os" \notin diff
  <2>1. /\ Known(t, o, "os") = u.os.family
        /\ Known(t, p, "os") = w.os.family
    BY <1>3, KnownDims
  <2>2. u.os.family \in {None, w.os.family}
    BY <1>6, <2>1
  <2>3. u.os.family # None => u.os = w.os
    BY <1>3, <2>2
  <2>4. QED
    BY <1>4, <1>5, <2>2, <2>3
<1>11. "rac" \notin diff /\ "asm" \notin diff /\ "dataguard" \notin diff
  BY <1>2 DEF BooleanDims
<1>12. diff = {}
  BY <1>5, <1>7, <1>8, <1>9, <1>10, <1>11 DEF Dimensions
<1>13. QED
  BY <1>12 DEF diff, u

-----------------------------------------------------------------------------
(* The capability of a collector. *)

Reasons == {"DISABLED", "UNSUPPORTED", "ENVIRONMENT_UNKNOWN", "NOT_APPLICABLE",
            "INSUFFICIENT_PRIVILEGES", "LICENSE_RESTRICTED"}

LEMMA WhenReason ==
    ASSUME NEW c \in BOOLEAN, NEW r \in Reasons
    PROVE  When(c, r) \in Seq(Reasons) /\ (When(c, r) = <<>> <=> ~c)
  BY DEF When

LEMMA JoinReasons ==
    ASSUME NEW p \in Seq(Reasons), NEW c \in BOOLEAN, NEW r \in Reasons
    PROVE  /\ p \o When(c, r) \in Seq(Reasons)
           /\ p \o When(c, r) = <<>> <=> p = <<>> /\ ~c
<1>1. When(c, r) \in Seq(Reasons) /\ (When(c, r) = <<>> <=> ~c)
  BY WhenReason
<1> DEFINE q == When(c, r)
<1> HIDE DEF q
<1>2. p \o q \in Seq(Reasons) /\ Len(p \o q) = Len(p) + Len(q)
  BY <1>1 DEF q
<1>3. /\ p = <<>> <=> Len(p) = 0
      /\ q = <<>> <=> Len(q) = 0
      /\ p \o q = <<>> <=> Len(p \o q) = 0
  BY <1>1, <1>2, EmptySeq DEF q
<1>4. Len(p) \in Nat /\ Len(q) \in Nat
  BY <1>1 DEF q
<1>5. QED
  BY <1>1, <1>2, <1>3, <1>4 DEF q

LEMMA HeadSupported ==
    ASSUME NEW p \in Seq(Reasons)
    PROVE  Head(p \o <<"SUPPORTED">>) = "SUPPORTED" <=> p = <<>>
<1>1. CASE p = <<>>
  BY <1>1
<1>2. CASE p # <<>>
  <2>1. Len(p) >= 1 /\ p[1] \in Reasons
    BY <1>2, EmptySeq
  <2>2. (p \o <<"SUPPORTED">>)[1] = p[1]
    BY <2>1
  <2>3. Head(p \o <<"SUPPORTED">>) = p[1]
    BY <2>2
  <2>4. QED
    BY <1>2, <2>1, <2>3 DEF Reasons
<1>3. QED
  BY <1>1, <1>2

\* There is no reason not to run the collector.
NoReason(t, col, status) ==
    LET root == col.container = "CDB_ROOT_ONLY"
        role == col.role # "ANY"
    IN  /\ t.enabled /\ status \in Running
        /\ col.id \in t.allowed
        /\ t.version # None /\ t.version \in col.versions
        /\ root => t.container = "CDB_ROOT"
        /\ role => t.role # "UNKNOWN" /\ t.role = col.role
        /\ col.id \notin t.missing_privileges
        /\ ~LicenceMissing(t, col)

(* A collector is supported when no reason against it applies. *)
LEMMA SupportedIs ==
    ASSUME NEW t, NEW col, NEW status
    PROVE  evaluate_capability(t, col, status) = "SUPPORTED" <=> NoReason(t, col, status)
<1> DEFINE root == col.container = "CDB_ROOT_ONLY"
           role == col.role # "ANY"
           c1 == ~t.enabled \/ status \notin Running
           c2 == col.id \notin t.allowed
           c3 == t.version = None
           c4 == t.version \notin col.versions
           c5 == root /\ t.container = "UNKNOWN"
           c6 == root /\ t.container # "CDB_ROOT"
           c7 == role /\ t.role = "UNKNOWN"
           c8 == role /\ t.role # col.role
           c9 == col.id \in t.missing_privileges
           c10 == LicenceMissing(t, col)
           p1 == When(c1, "DISABLED")
           p2 == p1 \o When(c2, "UNSUPPORTED")
           p3 == p2 \o When(c3, "ENVIRONMENT_UNKNOWN")
           p4 == p3 \o When(c4, "UNSUPPORTED")
           p5 == p4 \o When(c5, "ENVIRONMENT_UNKNOWN")
           p6 == p5 \o When(c6, "NOT_APPLICABLE")
           p7 == p6 \o When(c7, "ENVIRONMENT_UNKNOWN")
           p8 == p7 \o When(c8, "NOT_APPLICABLE")
           p9 == p8 \o When(c9, "INSUFFICIENT_PRIVILEGES")
           p10 == p9 \o When(c10, "LICENSE_RESTRICTED")
<1>1. evaluate_capability(t, col, status) = Head(p10 \o <<"SUPPORTED">>)
  BY DEF evaluate_capability
<1>2. /\ c1 \in BOOLEAN /\ c2 \in BOOLEAN /\ c3 \in BOOLEAN /\ c4 \in BOOLEAN /\ c5 \in BOOLEAN
      /\ c6 \in BOOLEAN /\ c7 \in BOOLEAN /\ c8 \in BOOLEAN /\ c9 \in BOOLEAN /\ c10 \in BOOLEAN
  BY DEF LicenceMissing
<1>3. NoReason(t, col, status) <=>
        ~c1 /\ ~c2 /\ ~c3 /\ ~c4 /\ ~c5 /\ ~c6 /\ ~c7 /\ ~c8 /\ ~c9 /\ ~c10
  BY DEF NoReason
<1> HIDE DEF c1, c2, c3, c4, c5, c6, c7, c8, c9, c10
<1>4. Reasons = {"DISABLED", "UNSUPPORTED", "ENVIRONMENT_UNKNOWN", "NOT_APPLICABLE",
                 "INSUFFICIENT_PRIVILEGES", "LICENSE_RESTRICTED"}
  BY DEF Reasons
<1>5. p1 \in Seq(Reasons) /\ (p1 = <<>> <=> ~c1)
  BY <1>2, <1>4, WhenReason
<1> HIDE DEF p1
<1>6. p2 \in Seq(Reasons) /\ (p2 = <<>> <=> p1 = <<>> /\ ~c2)
  BY <1>2, <1>4, <1>5, JoinReasons
<1> HIDE DEF p2
<1>7. p3 \in Seq(Reasons) /\ (p3 = <<>> <=> p2 = <<>> /\ ~c3)
  BY <1>2, <1>4, <1>6, JoinReasons
<1> HIDE DEF p3
<1>8. p4 \in Seq(Reasons) /\ (p4 = <<>> <=> p3 = <<>> /\ ~c4)
  BY <1>2, <1>4, <1>7, JoinReasons
<1> HIDE DEF p4
<1>9. p5 \in Seq(Reasons) /\ (p5 = <<>> <=> p4 = <<>> /\ ~c5)
  BY <1>2, <1>4, <1>8, JoinReasons
<1> HIDE DEF p5
<1>10. p6 \in Seq(Reasons) /\ (p6 = <<>> <=> p5 = <<>> /\ ~c6)
  BY <1>2, <1>4, <1>9, JoinReasons
<1> HIDE DEF p6
<1>11. p7 \in Seq(Reasons) /\ (p7 = <<>> <=> p6 = <<>> /\ ~c7)
  BY <1>2, <1>4, <1>10, JoinReasons
<1> HIDE DEF p7
<1>12. p8 \in Seq(Reasons) /\ (p8 = <<>> <=> p7 = <<>> /\ ~c8)
  BY <1>2, <1>4, <1>11, JoinReasons
<1> HIDE DEF p8
<1>13. p9 \in Seq(Reasons) /\ (p9 = <<>> <=> p8 = <<>> /\ ~c9)
  BY <1>2, <1>4, <1>12, JoinReasons
<1> HIDE DEF p9
<1>14. p10 \in Seq(Reasons) /\ (p10 = <<>> <=> p9 = <<>> /\ ~c10)
  BY <1>2, <1>4, <1>13, JoinReasons
<1> HIDE DEF p10
<1>15. Head(p10 \o <<"SUPPORTED">>) = "SUPPORTED" <=> p10 = <<>>
  BY <1>14, HeadSupported
<1>16. QED
  BY <1>1, <1>3, <1>5, <1>6, <1>7, <1>8, <1>9, <1>10, <1>11, <1>12, <1>13, <1>14, <1>15

(* Less said of the target, or less allowed, supports no collector more. *)
LEMMA LessSupportsLess ==
    ASSUME NEW s \in Setups, NEW t \in Setups, SaysLess(s, t), NEW col,
           evaluate_capability(Target(s.target), col, status_of(s)) = "SUPPORTED"
    PROVE  evaluate_capability(Target(t.target), col, status_of(t)) = "SUPPORTED"
<1> DEFINE u == Target(s.target)
           w == Target(t.target)
<1>1. NoReason(u, col, status_of(s))
  BY SupportedIs
<1>2. /\ u.enabled = s.target.enabled /\ u.allowed = s.target.allowed
      /\ u.container = s.target.container /\ u.role = s.target.role
      /\ u.missing_privileges = s.target.missing_privileges
      /\ u.license_status = s.target.license_status
      /\ u.version = IF s.target.version # None THEN family_of(s.target.version) ELSE None
  BY TargetParts DEF TargetDims
<1>3. /\ w.enabled = t.target.enabled /\ w.allowed = t.target.allowed
      /\ w.container = t.target.container /\ w.role = t.target.role
      /\ w.missing_privileges = t.target.missing_privileges
      /\ w.license_status = t.target.license_status
      /\ w.version = IF t.target.version # None THEN family_of(t.target.version) ELSE None
  BY TargetParts DEF TargetDims
<1> HIDE DEF u, w
<1>4. status_of(s) = status_of(t)
  BY DEF SaysLess, status_of
<1>5. ~LicenceMissing(w, col)
  BY <1>1, <1>2, <1>3 DEF NoReason, LicenceMissing, SaysLess
<1>6. w.version = u.version
  BY <1>1, <1>2, <1>3 DEF NoReason, SaysLess
<1>7. NoReason(w, col, status_of(t))
  BY <1>1, <1>2, <1>3, <1>4, <1>5, <1>6 DEF NoReason, SaysLess
<1>8. QED
  BY <1>7, SupportedIs DEF w

-----------------------------------------------------------------------------
(* The session of a gateway. *)

\* The gateway is what its catalogs make of it, whatever was observed since.
SessionInv ==
    /\ setup \in Setups
    /\ gateway = Loaded[setup]
    /\ ObservedOk(observed)
    /\ registry.used \in Valid \cup {Empty}

LEMMA NothingOk == ObservedOk(Nothing)
<1>1. Nothing = [d \in ObservedDims |-> None]
  BY DEF Nothing, ObservedDims, BooleanDims
<1>2. "role" \in ObservedDims
  BY DEF ObservedDims
<1>3. QED
  BY <1>1, <1>2 DEF ObservedOk

(* A collection leaves a well-formed observation. *)
LEMMA ObserveOk ==
    ASSUME ObservedOk(observed), NEW col, NEW row
    PROVE  ObservedOk(Observe(col, row))
<1>1. ASSUME NEW o, ObservedOk(o), NEW v
      PROVE  ObservedOk([o EXCEPT !.release_update = v])
  BY <1>1 DEF ObservedOk, ObservedDims
<1>2. ObservedOk(derive(row))
  <2> DEFINE e == derive(row)
  <2>1. e = [d \in ObservedDims |-> e[d]]
    BY DEF derive, ObservedDims
  <2>2. e.role \in {None, "PRIMARY", "STANDBY"}
    BY DEF derive
  <2>3. QED
    BY <2>1, <2>2 DEF ObservedOk
<1>3. QED
  BY <1>1, <1>2 DEF Observe

LEMMA SessionStep ==
    ASSUME LevelsInv, LevelsInv', SessionInv, [LevelsNext]_all
    PROVE  SessionInv'
<1>1. ASSUME NEW s \in Setups, Restart(s)
      PROVE  SessionInv'
  BY <1>1, NothingOk DEF Restart, StartsWith, SessionInv
<1>2. ASSUME UNCHANGED <<setup, gateway>>, ObservedOk(observed'), registry'.used \in Valid \cup {Empty}
      PROVE  SessionInv'
  BY <1>2 DEF SessionInv, Loaded
<1>3. ASSUME Next PROVE registry'.used \in Valid \cup {Empty}
  <2>1. CASE pc = "down"
    <3>1. PICK c \in Contents \cup {Missing} : Edit(c)
      BY <1>3, <2>1 DEF Next, Gateway, Call, RefreshStat, RefreshDigest, LoadStat, LoadRead, Tool
    <3>2. QED
      BY <3>1 DEF Edit, SessionInv
  <2>2. CASE pc # "down"
    BY <1>3, <2>2, TypeStep DEF LevelsInv, Inv, TypeOK
  <2>3. QED
    BY <2>1, <2>2
<1>4. CASE UNCHANGED all
  BY <1>2, <1>4 DEF all, vars, session, SessionInv
<1>5. CASE NewCall \/ Refreshes \/ \E c \in Contents \cup {Missing} : EditRegistry(c)
  <2>1. Next
    BY <1>5 DEF NewCall, Refreshes, EditRegistry, Next, Gateway
  <2>2. UNCHANGED <<setup, gateway, observed>>
    BY <1>5 DEF NewCall, Refreshes, EditRegistry, session
  <2>3. QED
    BY <1>2, <1>3, <2>1, <2>2 DEF SessionInv
<1>6. ASSUME NEW col, NEW row, Collect(col, row)
      PROVE  SessionInv'
  BY <1>2, <1>6, ObserveOk DEF Collect, Tool, SessionInv
<1>7. ASSUME NEW col, CollectRefused(col) \/ Describe(col)
      PROVE  SessionInv'
  BY <1>2, <1>7 DEF CollectRefused, Describe, Tool, SessionInv
<1>8. ASSUME NEW cols, Analyze(cols)
      PROVE  SessionInv'
  BY <1>2, <1>8 DEF Analyze, Tool, SessionInv
<1>9. QED
  BY <1>1, <1>4, <1>5, <1>6, <1>7, <1>8 DEF LevelsNext

(* Both invariants hold in every reachable state. *)
THEOREM SessionInvariant == LevelsSpec => [](LevelsInv /\ SessionInv)
<1>1. LevelsInit => SessionInv
  BY NothingOk DEF LevelsInit, Init, SessionInv
<1>2. LevelsInv /\ LevelsInv' /\ SessionInv /\ [LevelsNext]_all => SessionInv'
  BY SessionStep
<1>3. QED
  BY <1>1, <1>2, LevelsInvariant, PTL DEF LevelsSpec

(* A gateway that has a collector, or a target, was not refused. *)
LEMMA GatewayLoaded ==
    ASSUME SessionInv, gateway.target # None \/ gateway.collectors # {}
    PROVE  /\ gateway.target = Target(setup.target)
           /\ gateway.collectors = load_collectors(setup.specs, setup.queries)
           /\ TargetOk(gateway.target)
<1>1. gateway = IF Refused(setup) THEN [collectors |-> {}, target |-> None]
                ELSE [collectors |-> load_collectors(setup.specs, setup.queries),
                      target |-> Target(setup.target)]
  BY DEF SessionInv, Loaded
<1>2. ~Refused(setup)
  BY <1>1
<1>3. QED
  BY <1>1, <1>2 DEF SessionInv, TargetOk

(***************************************************************************)
(* For any catalogs: a start with a file that says less of the target, or  *)
(* allows less, gives no collector a capability it did not have            *)
(* (catalog.evaluate_capability).                                          *)
(***************************************************************************)
THEOREM LevelsUnknownNeverGrants == LevelsSpec => UnknownNeverGrants
<1> DEFINE A == (starts' # starts /\ gateway.target # None /\ SaysLess(setup', setup)) =>
                  \A col \in gateway'.collectors :
                      Capability(col)' = "SUPPORTED" => Capability(col) = "SUPPORTED"
<1>1. SessionInv /\ SessionInv' /\ [LevelsNext]_all => [A]_all
  <2> SUFFICES ASSUME SessionInv, SessionInv', gateway.target # None, SaysLess(setup', setup),
                      NEW col \in gateway'.collectors, Capability(col)' = "SUPPORTED"
               PROVE  Capability(col) = "SUPPORTED"
    OBVIOUS
  <2>1. gateway.target = Target(setup.target)
    BY GatewayLoaded
  <2>2. gateway' = IF Refused(setup') THEN [collectors |-> {}, target |-> None]
                   ELSE [collectors |-> load_collectors(setup'.specs, setup'.queries),
                         target |-> Target(setup'.target)]
    BY DEF SessionInv, Loaded
  <2>3. gateway'.target = Target(setup'.target)
    BY <2>2
  <2>4. evaluate_capability(Target(setup'.target), col, status_of(setup')) = "SUPPORTED"
    BY <2>3 DEF Capability
  <2>5. setup \in Setups /\ setup' \in Setups
    BY DEF SessionInv
  <2>6. evaluate_capability(Target(setup.target), col, status_of(setup)) = "SUPPORTED"
    BY <2>4, <2>5, LessSupportsLess
  <2>7. QED
    BY <2>1, <2>6 DEF Capability
<1>2. UnknownNeverGrants <=> [][A]_all
  BY DEF UnknownNeverGrants
<1> HIDE DEF A
<1>3. QED
  BY <1>1, <1>2, SessionInvariant, PTL DEF LevelsSpec

LEMMA RegistryNumbered ==
    ASSUME NEW reg \in Valid \cup {Empty}
    PROVE  Numbered(reg)
<1>1. CASE reg \in Valid
  BY <1>1, LevelsAssumption DEF Numbered
<1>2. CASE reg = Empty
  BY <1>2, LevelsAssumption DEF Numbered
<1>3. QED
  BY <1>1, <1>2

(* A collector that matches was validated with the SQL the gateway loaded. *)
LEMMA MatchedSql ==
    ASSUME SessionInv, NEW col \in gateway.collectors, NEW reg, Recorded(reg, col)
    PROVE  col.sha256 = setup.queries[col.id].sql
<1>1. PICK s \in ToSet(setup.specs) : col = Collector(s, QueryOf(s, setup.queries))
  BY GatewayLoaded DEF load_collectors
<1>2. col.kind = "sql_query" /\ col.sha256 # None
  BY DEF Recorded
<1> DEFINE q == QueryOf(s, setup.queries)
<1>3. /\ col.id = s.id /\ col.kind = s.kind
      /\ col.sha256 = IF q = None THEN None ELSE q.sql
  BY <1>1 DEF Collector
<1>4. q = setup.queries[s.id]
  BY <1>2, <1>3 DEF QueryOf, QueryBacked
<1> HIDE DEF q
<1>5. QED
  BY <1>2, <1>3, <1>4

\* The validations that an analysis without a ceiling may rest on.
ValidatedIn(docs, id) ==
    \E doc \in docs : \E v \in ToSet(doc.validations) :
        /\ v.query = id /\ v.sha256 = setup.queries[id].sql
        /\ Compatible(doc.contexts[v.context])

(* A collector whose level is FIELD_VALIDATED during a call. *)
LEMMA LevelMeansValidated ==
    ASSUME LevelsInv, SessionInv, pc = "tool", NEW col \in gateway.collectors,
           assess(registry.used, col, _fv_target(observed)).level = "FIELD_VALIDATED"
    PROVE  ValidatedIn(seen \cap Valid, col.id)
<1> DEFINE reg == registry.used
           u == _fv_target(observed)
<1>1. Numbered(reg)
  BY RegistryNumbered DEF SessionInv
<1>2. Recorded(reg, col) /\ Matches(reg, col, u)
  <2>1. assess(reg, col, u).level =
             IF ~Recorded(reg, col) THEN "DOCUMENTATION_ONLY"
             ELSE IF Matches(reg, col, u) THEN "FIELD_VALIDATED"
             ELSE "FIELD_VALIDATED_OTHER_CONTEXT"
    BY <1>1, AssessIs
  <2>2. QED
    BY <2>1
<1>3. PICK i \in Current(reg, col) : Comparison(reg, u, i).diff = {}
  BY <1>2 DEF Matches
<1>4. /\ i \in DOMAIN reg.validations
      /\ reg.validations[i].query = col.id /\ reg.validations[i].sha256 = col.sha256
  BY <1>3 DEF Current, Validations
<1>5. reg \in seen \cap Valid
  <2>1. PICK c \in seen : reg = Meaning(c)
    BY DEF LevelsInv, Inv, CallInv
  <2>2. reg # Empty
    BY <1>4, LevelsAssumption
  <2>3. QED
    BY <2>1, <2>2 DEF Meaning
<1> DEFINE v == reg.validations[i]
           ctx == reg.contexts[v.context]
<1>6. v \in ToSet(reg.validations)
  BY <1>4 DEF ToSet
<1>7. v.sha256 = setup.queries[col.id].sql
  BY <1>2, <1>4, MatchedSql
<1>8. Compatible(ctx)
  <2>1. _compare(ctx, ObservedTarget(gateway.target, observed)).diff = {}
    BY <1>3 DEF Comparison, _fv_target
  <2>2. Agrees(ctx, gateway.target, observed)
    BY <2>1, GatewayLoaded, MatchAgrees DEF SessionInv
  <2>3. QED
    BY <2>2 DEF Agrees, Compatible, Knows
<1> HIDE DEF reg
<1>9. QED
  BY <1>4, <1>5, <1>6, <1>7, <1>8 DEF ValidatedIn

(***************************************************************************)
(* For any catalogs, registries, edits and collections: an analysis that   *)
(* is not capped rests on validations that the file held during the call,  *)
(* of the SQL the gateway loaded, in contexts that neither the latest      *)
(* observation of a dimension nor, where that has no value, its            *)
(* declaration contradicts (Gateway._tool_analyze_incident).               *)
(***************************************************************************)
THEOREM LevelsNoCeilingMeansValidated == LevelsSpec => NoCeilingMeansValidated
<1> DEFINE A == (/\ pc = "tool" /\ pc' = "idle"
                 /\ answer'.tool = "analyze" /\ answer'.ceiling = None) =>
                  \A id \in answer'.collectors :
                      \E doc \in seen \cap Valid : \E v \in ToSet(doc.validations) :
                          /\ v.query = id /\ v.sha256 = setup.queries[id].sql
                          /\ Compatible(doc.contexts[v.context])
<1>1. LevelsInv /\ SessionInv /\ [LevelsNext]_all => [A]_all
  <2> SUFFICES ASSUME LevelsInv, SessionInv, LevelsNext, pc = "tool", pc' = "idle",
                      answer'.tool = "analyze", answer'.ceiling = None,
                      NEW id \in answer'.collectors
               PROVE  ValidatedIn(seen \cap Valid, id)
    BY DEF ValidatedIn
  <2>1. PICK cols \in SUBSET Gathered : Analyze(cols)
    <3>1. ~\E s \in Setups : Restart(s)
      BY DEF Restart
    <3>2. ~NewCall /\ ~Refreshes /\ ~\E c \in Contents \cup {Missing} : EditRegistry(c)
      BY DEF NewCall, Call, Refreshes, RefreshStat, RefreshDigest, LoadStat, LoadRead,
             EditRegistry, Edit
    <3>3. ASSUME NEW col, NEW row, Collect(col, row) PROVE FALSE
      BY <3>3 DEF Collect
    <3>4. ASSUME NEW col, CollectRefused(col) \/ Describe(col) PROVE FALSE
      BY <3>4 DEF CollectRefused, Describe
    <3>5. QED
      BY <3>1, <3>2, <3>3, <3>4 DEF LevelsNext
  <2>2. PICK col \in cols : id = col.id
    BY <2>1 DEF Analyze
  <2>3. Levels(cols) = {"FIELD_VALIDATED"}
    <3>1. answer'.ceiling = IF Levels(cols) = {"FIELD_VALIDATED"} THEN None ELSE "PROBABLE_CAUSE"
      BY <2>1 DEF Analyze
    <3>2. None # "PROBABLE_CAUSE"
      BY LevelsAssumption
    <3>3. QED
      BY <3>1, <3>2
  <2>4. assess(registry.used, col, _fv_target(observed)).level = "FIELD_VALIDATED"
    BY <2>2, <2>3 DEF Levels
  <2>5. col \in gateway.collectors
    BY <2>1, <2>2 DEF Gathered
  <2>6. QED
    BY <2>2, <2>4, <2>5, LevelMeansValidated
<1>2. NoCeilingMeansValidated <=> [][A]_all
  BY DEF NoCeilingMeansValidated
<1> HIDE DEF A
<1>3. QED
  BY <1>1, <1>2, SessionInvariant, PTL DEF LevelsSpec

(* The level of a collector does not rise with what is known. *)
LEMMA LearningStep ==
    ASSUME SessionInv, SessionInv', Learns, NEW col \in gateway.collectors
    PROVE  Level(col, observed') <= Level(col, observed)
<1> DEFINE reg == registry.used
           t == gateway.target
           u == _fv_target(observed)
           w == _fv_target(observed')
           level(x) == IF ~Recorded(reg, col) THEN "DOCUMENTATION_ONLY"
                       ELSE IF Matches(reg, col, x) THEN "FIELD_VALIDATED"
                       ELSE "FIELD_VALIDATED_OTHER_CONTEXT"
<1>1. assess(reg, col, u).level = level(u) /\ assess(reg, col, w).level = level(w)
  BY AssessIs, RegistryNumbered DEF SessionInv
<1>2. Level(col, observed) = Order[level(u)] /\ Level(col, observed') = Order[level(w)]
  <2>1. /\ Level(col, observed) \in {Order[assess(reg, col, x).level] : x \in {u}}
        /\ Level(col, observed') \in {Order[assess(reg, col, x).level] : x \in {w}}
    BY DEF Level
  <2> HIDE DEF u, w, level, reg
  <2>2. QED
    BY <1>1, <2>1
<1>3. LearntSince(t, observed, observed')
  BY DEF Learns, Knows, LearntSince
<1>4. Matches(reg, col, w) => Matches(reg, col, u)
  <2> SUFFICES ASSUME NEW i \in Current(reg, col), Comparison(reg, w, i).diff = {}
               PROVE  Comparison(reg, u, i).diff = {}
    BY DEF Matches
  <2>1. TargetOk(t) /\ ObservedOk(observed) /\ ObservedOk(observed')
    BY GatewayLoaded DEF SessionInv
  <2>2. QED
    BY <1>3, <2>1, DiffsStay DEF Comparison, _fv_target
<1> HIDE DEF reg, t, u, w
<1>5. Order[level(w)] <= Order[level(u)]
  BY <1>4 DEF Order
<1>6. QED
  BY <1>2, <1>5

(***************************************************************************)
(* For any catalogs and registries: what is learnt of a target where       *)
(* nothing was known never raises the level of a collector                 *)
(* (field_validation.assess, architecture.ObservedTarget).                 *)
(***************************************************************************)
THEOREM LevelsLearningNeverUpgrades == LevelsSpec => LearningNeverUpgrades
<1> DEFINE A == Learns => \A o \in {observed'}, col \in gateway.collectors :
                              Level(col, o) <= Level(col, observed)
<1>1. SessionInv /\ SessionInv' /\ [LevelsNext]_all => [A]_all
  BY LearningStep
<1>2. LearningNeverUpgrades <=> [][A]_all
  BY DEF LearningNeverUpgrades
<1> HIDE DEF A
<1>3. QED
  BY <1>1, <1>2, SessionInvariant, PTL DEF LevelsSpec
=============================================================================
