-------------------------- MODULE McpGatewayProofs --------------------------
(***************************************************************************)
(* The budgets, the evidence store and the observed release update of a    *)
(* session, for any number of targets, calls and entries.  The store never *)
(* evicts, because each of its entries was paid for with a call of the     *)
(* session and the session has no more calls than the store has room for.  *)
(* That the rows stay within their budget is about the sum of the rows of  *)
(* the entries, and begins with the lemmas on that sum.                    *)
(***************************************************************************)
EXTENDS McpGateway, FiniteSetTheorems, TLAPS

-----------------------------------------------------------------------------
(* The sum of the rows of a set of entries.  Induction is by a smallest     *)
(* counterexample: the provers cannot use a theorem with a predicate as its *)
(* parameter.                                                               *)

(* A set of numbers has a least one. *)
LEMMA LeastNat ==
    ASSUME NEW T \in SUBSET Nat, T # {}
    PROVE  \E n \in T : \A m \in T : n <= m
<1> DEFINE R == {ss \in Nat \X Nat : ss[1] < ss[2]}
<1>1. IsWellFoundedOn(R, Nat)
  BY NatLessThanWellFounded DEF OpToRel
<1>2. \A m, n \in Nat : m < n => <<m, n>> \in R
  OBVIOUS
<1> HIDE DEF R
<1>3. PICK n \in T : \A m \in T : ~(<<m, n>> \in R)
  BY <1>1, WFMin
<1>4. ASSUME NEW m \in T PROVE n <= m
  <2>1. ~(m < n)
    BY <1>2, <1>3
  <2>2. QED
    BY <2>1
<1>5. QED
  BY <1>4

(* A set of finite sets has one none of whose proper subsets is in it. *)
LEMMA SmallestSet ==
    ASSUME NEW F, F # {}, \A s \in F : IsFiniteSet(s)
    PROVE  \E s \in F : \A x \in s : \A r \in SUBSET s : x \notin r => r \notin F
<1> DEFINE C == {Cardinality(s) : s \in F}
<1>1. C \in SUBSET Nat /\ C # {}
  BY FS_CardinalityType
<1>2. PICK c \in C : \A d \in C : c <= d
  <2> HIDE DEF C
  <2>1. QED
    BY <1>1, LeastNat
<1>3. PICK s \in F : Cardinality(s) = c
  OBVIOUS
<1>4. ASSUME NEW x \in s, NEW r \in SUBSET s, x \notin r, r \in F
      PROVE  FALSE
  <2>1. Cardinality(r) <= Cardinality(s) /\ (Cardinality(r) = Cardinality(s) => r = s)
    BY <1>3, FS_Subset
  <2>2. Cardinality(r) \in Nat /\ Cardinality(s) \in Nat
    BY <1>4, FS_CardinalityType
  <2>3. Cardinality(s) <= Cardinality(r)
    BY <1>2, <1>3, <1>4
  <2>4. QED
    BY <1>4, <2>1, <2>2, <2>3
<1>5. QED
  BY <1>3, <1>4

Any(s) == CHOOSE x \in s : TRUE

Less1(s) == s \ {Any(s)}

\* g sums the rows of the subsets of a set.
Sums(g, T) == g = [s \in SUBSET T |-> IF s = {} THEN 0 ELSE Any(s).rows + g[Less1(s)]]

Summation(T) == CHOOSE g : Sums(g, T)

RowsOf(s) == MapThenSumSet(LAMBDA e : e.rows, s)

LEMMA RowsOfIs ==
    ASSUME NEW s PROVE RowsOf(s) = Summation(s)[s]
  BY DEF RowsOf, MapThenSumSet, MapThenFoldSet, Summation, Sums, Less1, Any

LEMMA AnyIn ==
    ASSUME NEW s, s # {}
    PROVE  Any(s) \in s /\ Less1(s) \in SUBSET s /\ Any(s) \notin Less1(s)
  BY DEF Any, Less1

LEMMA SumsValue ==
    ASSUME NEW T, NEW g, Sums(g, T), NEW s \in SUBSET T
    PROVE  g[s] = IF s = {} THEN 0 ELSE Any(s).rows + g[Less1(s)]
  BY DEF Sums

(* Two summations agree. *)
LEMMA SumsAgree ==
    ASSUME NEW T, IsFiniteSet(T), NEW g, Sums(g, T), NEW U, NEW h, Sums(h, U),
           NEW s \in SUBSET T, s \in SUBSET U
    PROVE  g[s] = h[s]
<1> DEFINE F == {r \in SUBSET T : r \in SUBSET U /\ g[r] # h[r]}
<1> SUFFICES ASSUME s \in F PROVE FALSE
  OBVIOUS
<1>1. \A r \in F : IsFiniteSet(r)
  BY FS_Subset
<1>2. PICK m \in F : \A x \in m : \A r \in SUBSET m : x \notin r => r \notin F
  <2> HIDE DEF F
  <2>1. QED
    BY <1>1, SmallestSet
<1>3. /\ g[m] = IF m = {} THEN 0 ELSE Any(m).rows + g[Less1(m)]
      /\ h[m] = IF m = {} THEN 0 ELSE Any(m).rows + h[Less1(m)]
  BY SumsValue
<1>4. CASE m = {}
  BY <1>3, <1>4
<1>5. CASE m # {}
  <2>1. Any(m) \in m /\ Less1(m) \in SUBSET m /\ Any(m) \notin Less1(m)
    BY <1>5, AnyIn
  <2>2. Less1(m) \notin F
    BY <1>2, <2>1
  <2>3. g[Less1(m)] = h[Less1(m)]
    BY <2>1, <2>2
  <2>4. QED
    BY <1>3, <1>5, <2>3
<1>6. QED
  BY <1>4, <1>5

(* A finite set has a summation. *)
LEMMA SumsExist ==
    ASSUME NEW T, IsFiniteSet(T)
    PROVE  Sums(Summation(T), T)
<1> DEFINE F == {s \in SUBSET T : ~\E g : Sums(g, s)}
<1>1. SUFFICES ASSUME T \in F PROVE FALSE
  BY DEF Summation
<1>2. \A r \in F : IsFiniteSet(r)
  BY FS_Subset
<1>3. PICK m \in F : \A x \in m : \A r \in SUBSET m : x \notin r => r \notin F
  <2> HIDE DEF F
  <2>1. QED
    BY <1>1, <1>2, SmallestSet
<1>4. ASSUME NEW x \in m, NEW r \in SUBSET m, x \notin r
      PROVE  Sums(Summation(r), r) /\ IsFiniteSet(r)
  <2>1. \E g : Sums(g, r)
    BY <1>3, <1>4
  <2>2. QED
    BY <2>1, FS_Subset DEF Summation
<1> DEFINE v(s) == IF s = {} THEN 0 ELSE Any(s).rows + Summation(Less1(s))[Less1(s)]
           g == [s \in SUBSET m |-> v(s)]
<1>5. ASSUME NEW s \in SUBSET m, s # {}
      PROVE  v(Less1(s)) = Summation(Less1(s))[Less1(s)]
  <2> DEFINE r == Less1(s)
  <2>1. Any(s) \in m /\ r \in SUBSET m /\ Any(s) \notin r
    BY <1>5, AnyIn
  <2>2. Sums(Summation(r), r) /\ IsFiniteSet(r)
    BY <1>4, <2>1
  <2> HIDE DEF r
  <2>3. Summation(r)[r] = IF r = {} THEN 0 ELSE Any(r).rows + Summation(r)[Less1(r)]
    BY <2>2, SumsValue
  <2>4. CASE r = {}
    BY <2>3, <2>4 DEF r
  <2>5. CASE r # {}
    <3>1. Less1(r) \in SUBSET r
      BY <2>5, AnyIn
    <3>2. Less1(r) \in SUBSET m /\ Any(s) \notin Less1(r)
      BY <2>1, <3>1
    <3>3. Sums(Summation(Less1(r)), Less1(r))
      BY <1>4, <2>1, <3>2
    <3>4. Summation(r)[Less1(r)] = Summation(Less1(r))[Less1(r)]
      BY <2>2, <3>1, <3>3, SumsAgree
    <3>5. QED
      BY <2>3, <2>5, <3>4 DEF r
  <2>6. QED
    BY <2>4, <2>5 DEF r
<1>6. ASSUME NEW s \in SUBSET m
      PROVE  v(s) = IF s = {} THEN 0 ELSE Any(s).rows + g[Less1(s)]
  <2>1. CASE s = {}
    BY <2>1
  <2>2. CASE s # {}
    <3>1. Less1(s) \in SUBSET m
      BY <2>2, AnyIn
    <3>2. g[Less1(s)] = v(Less1(s))
      BY <3>1
    <3>3. QED
      BY <1>5, <2>2, <3>2
  <2>3. QED
    BY <2>1, <2>2
<1>7. Sums(g, m)
  BY <1>6 DEF Sums
<1>8. QED
  BY <1>3, <1>7

(* One element less. *)
LEMMA RowsUnfold ==
    ASSUME NEW s, IsFiniteSet(s)
    PROVE  RowsOf(s) = IF s = {} THEN 0 ELSE Any(s).rows + RowsOf(Less1(s))
<1>1. Sums(Summation(s), s)
  BY SumsExist
<1>2. Summation(s)[s] = IF s = {} THEN 0 ELSE Any(s).rows + Summation(s)[Less1(s)]
  BY <1>1, SumsValue
<1>3. CASE s = {}
  BY <1>2, <1>3, RowsOfIs
<1>4. CASE s # {}
  <2>1. Less1(s) \in SUBSET s
    BY <1>4, AnyIn
  <2>2. Sums(Summation(Less1(s)), Less1(s))
    BY <2>1, FS_Subset, SumsExist
  <2>3. Summation(s)[Less1(s)] = Summation(Less1(s))[Less1(s)]
    BY <1>1, <2>1, <2>2, SumsAgree
  <2>4. QED
    BY <1>2, <1>4, <2>3, RowsOfIs
<1>5. QED
  BY <1>3, <1>4

(* The sum is a number. *)
LEMMA RowsNat ==
    ASSUME NEW W, IsFiniteSet(W), \A e \in W : e.rows \in Nat
    PROVE  RowsOf(W) \in Nat
<1> DEFINE F == {s \in SUBSET W : RowsOf(s) \notin Nat}
<1> SUFFICES ASSUME W \in F PROVE FALSE
  OBVIOUS
<1>1. \A r \in F : IsFiniteSet(r)
  BY FS_Subset
<1>2. PICK m \in F : \A x \in m : \A r \in SUBSET m : x \notin r => r \notin F
  <2> HIDE DEF F
  <2>1. QED
    BY <1>1, SmallestSet
<1>3. RowsOf(m) = IF m = {} THEN 0 ELSE Any(m).rows + RowsOf(Less1(m))
  BY <1>1, RowsUnfold
<1>4. CASE m = {}
  BY <1>3, <1>4
<1>5. CASE m # {}
  <2>1. Any(m) \in m /\ Less1(m) \in SUBSET m /\ Any(m) \notin Less1(m)
    BY <1>5, AnyIn
  <2>2. RowsOf(Less1(m)) \in Nat
    BY <1>2, <2>1
  <2>3. Any(m).rows \in Nat
    BY <2>1
  <2>4. RowsOf(m) \in Nat
    BY <1>3, <1>5, <2>2, <2>3
  <2>5. QED
    BY <2>4
<1>6. QED
  BY <1>4, <1>5

(* One element more, whichever the sum takes first. *)
LEMMA RowsAdd ==
    ASSUME NEW W, IsFiniteSet(W), \A e \in W : e.rows \in Nat, NEW e \in W
    PROVE  RowsOf(W) = e.rows + RowsOf(W \ {e})
<1> DEFINE F == {s \in SUBSET W : \E x \in s : RowsOf(s) # x.rows + RowsOf(s \ {x})}
<1> SUFFICES ASSUME W \in F PROVE FALSE
  OBVIOUS
<1>1. \A r \in SUBSET W : IsFiniteSet(r) /\ RowsOf(r) \in Nat
  <2> TAKE r \in SUBSET W
  <2>1. IsFiniteSet(r)
    BY FS_Subset
  <2>2. QED
    BY <2>1, RowsNat
<1>2. PICK m \in F : \A x \in m : \A r \in SUBSET m : x \notin r => r \notin F
  <2>1. F # {} /\ \A r \in F : IsFiniteSet(r)
    BY <1>1
  <2> HIDE DEF F
  <2>2. QED
    BY <2>1, SmallestSet
<1>3. PICK x \in m : RowsOf(m) # x.rows + RowsOf(m \ {x})
  OBVIOUS
<1> DEFINE a == Any(m)
           r == m \ {a}
           q == m \ {x}
           p == (m \ {a}) \ {x}
<1>4. a \in m /\ Less1(m) = r
  BY AnyIn DEF Less1
<1>5. RowsOf(m) = a.rows + RowsOf(r)
  BY <1>1, <1>4, RowsUnfold
<1>6. a # x
  BY <1>3, <1>5
<1>7. r \notin F /\ x \in r
  BY <1>2, <1>3, <1>4, <1>6
<1>8. RowsOf(r) = x.rows + RowsOf(p)
  <2>1. r \in SUBSET W
    OBVIOUS
  <2>2. QED
    BY <1>7, <2>1
<1>9. q \notin F /\ a \in q /\ q \ {a} = p
  BY <1>2, <1>3, <1>4, <1>6
<1>10. RowsOf(q) = a.rows + RowsOf(p)
  <2>1. q \in SUBSET W
    OBVIOUS
  <2>2. RowsOf(q) = a.rows + RowsOf(q \ {a})
    BY <1>9, <2>1
  <2>3. QED
    BY <1>9, <2>2
<1>11. a.rows \in Nat /\ x.rows \in Nat /\ RowsOf(p) \in Nat
  BY <1>1, <1>3, <1>4
<1>12. RowsOf(m) = x.rows + RowsOf(q)
  <2> HIDE DEF a, r, q, p
  <2>1. QED
    BY <1>5, <1>8, <1>10, <1>11
<1>13. QED
  BY <1>3, <1>12

-----------------------------------------------------------------------------
\* What each target was asked is what it was charged.
BudgetInv ==
    /\ \A t \in Targets :
        /\ fetches[t] = target_calls[t]
        /\ target_calls[t] <= max_calls[t]
        /\ target_calls[t] <= calls
    /\ calls <= max_session_calls

\* References name one entry each, all of them of past calls.
RefsInv ==
    /\ \A e \in items \cup handed : e.ref <= calls /\ e.t <= now
    /\ \A e, f \in items \cup handed : e.ref = f.ref => e = f

\* There is room for every entry, and no fresh one is gone.
RoomInv ==
    /\ IsFiniteSet(items)
    /\ Cardinality(items) <= calls
    /\ state # "CLOSED" => \A e \in handed : Live(e) => e \in items

\* The outcome of the last request for evidence.
GotInv ==
    got # None =>
        /\ got.refs \subseteq 1..calls
        /\ EvidenceWhileFresh

ObservedInv ==
    \A t \in Targets : observed[t]["release_update"] = lastSeen[t]["release_update"]

Inv == TypeOK /\ BudgetInv /\ RefsInv /\ RoomInv /\ GotInv /\ ObservedInv

\* A successful collection, its parameters out of the way.
Stored(t, n, dim, value) ==
    \E asked \in 1..row_limit, refused \in BOOLEAN : CollectOk(t, asked, n, dim, value, refused)

\* The steps of a session as the proofs tell them apart.
LEMMA StepCases ==
    ASSUME [Next]_vars
    PROVE  \/ Initialize \/ Initialized \/ Eof \/ OtherTool \/ Tick \/ UNCHANGED vars
           \/ \E t \in Targets : CollectFails(t)
           \/ \E t \in Targets, n \in 0..row_limit :
                \/ Stored(t, n, None, None)
                \/ \E dim \in Dims, value \in Values \cup {None} : Stored(t, n, dim, value)
           \/ \E t \in Targets, refs \in SUBSET {e.ref : e \in handed} : ReadEvidence(t, refs)
  BY DEF Next, Collect, Stored

(* Purging leaves a finite set that is no larger. *)
LEMMA PurgeFits ==
    ASSUME TypeOK, RoomInv
    PROVE  IsFiniteSet(Purge(items)) /\ Cardinality(Purge(items)) <= calls
<1>1. IsFiniteSet(Purge(items)) /\ Cardinality(Purge(items)) <= Cardinality(items)
  BY FS_Subset DEF RoomInv, Purge
<1>2. Cardinality(items) \in Nat /\ Cardinality(Purge(items)) \in Nat
  BY <1>1, FS_CardinalityType DEF RoomInv
<1>3. QED
  BY <1>1, <1>2 DEF RoomInv, TypeOK

(* Putting an entry evicts nothing while there is room. *)
LEMMA PutFits ==
    ASSUME TypeOK, RoomInv, NEW e, Put(e), calls < max_session_calls
    PROVE  /\ items' = Purge(items) \cup {e}
           /\ IsFiniteSet(items')
           /\ Cardinality(items') <= calls + 1
<1>1. IsFiniteSet(Purge(items)) /\ Cardinality(Purge(items)) <= Cardinality(items)
  BY FS_Subset DEF RoomInv, Purge
<1>2. Cardinality(items) \in Nat /\ Cardinality(Purge(items)) \in Nat
  BY <1>1, FS_CardinalityType DEF RoomInv
<1>3. Evict(Purge(items)) = Purge(items)
  BY <1>1, <1>2, GatewayAssumption DEF Evict, RoomInv, TypeOK
<1>4. items' = Purge(items) \cup {e}
  BY <1>3 DEF Put
<1>5. /\ IsFiniteSet(Purge(items) \cup {e})
      /\ Cardinality(Purge(items) \cup {e}) =
            IF e \in Purge(items) THEN Cardinality(Purge(items)) ELSE Cardinality(Purge(items)) + 1
  BY ONLY <1>1, FS_AddElement
<1>6. Cardinality(Purge(items)) <= calls /\ calls \in Nat
  BY PurgeFits DEF TypeOK
<1>7. Cardinality(Purge(items) \cup {e}) <= calls + 1
  BY ONLY <1>2, <1>5, <1>6
<1>8. QED
  BY <1>4, <1>5, <1>7

(* Steps keep the types. *)
LEMMA TypeStep ==
    ASSUME Inv, [Next]_vars
    PROVE  TypeOK'
<1> USE GatewayAssumption DEF Inv, TypeOK, session, Observation
<1>1. CASE Initialize \/ Initialized \/ Eof \/ OtherTool \/ Tick \/ UNCHANGED vars
  BY <1>1 DEF Initialize, Initialized, Eof, OtherTool, ToolCall, Tick, vars, Entry
<1>2. ASSUME NEW t \in Targets, CollectFails(t)
      PROVE  TypeOK'
  BY <1>2 DEF CollectFails, Authorize, ToolCall, Charge, BudgetInv
<1>3. ASSUME NEW t \in Targets, NEW n \in 0..row_limit, NEW dim, NEW value \in Values \cup {None},
             Stored(t, n, dim, value)
      PROVE  TypeOK'
  <2> PICK asked \in 1..row_limit, refused \in BOOLEAN : CollectOk(t, asked, n, dim, value, refused)
    BY <1>3 DEF Stored
  <2> DEFINE e == [ref |-> calls + 1, target |-> t, t |-> now, rows |-> n]
  <2>1. e \in Entry
    BY DEF CollectOk, Authorize, Entry, Refs
  <2>2. items' \subseteq Entry
    BY <2>1, PutFits DEF CollectOk, Authorize, Purge
  <2>3. handed' \subseteq Entry
    BY <2>1 DEF CollectOk
  <2>4. observed' \in Observation /\ lastSeen' \in Observation
    BY DEF CollectOk, Observe
  <2>5. /\ state' \in {"NEW", "INITIALIZING", "READY", "CLOSED"}
        /\ calls' \in 0..max_session_calls
        /\ now' \in 0..MaxNow
        /\ tool_calls' \in 0..MaxToolCalls
    BY DEF CollectOk, Authorize, ToolCall, Charge
  <2>6. /\ target_calls' \in [Targets -> 0..max_session_calls]
        /\ fetches' \in [Targets -> 0..max_session_calls]
        /\ target_rows' \in [Targets -> Nat]
    BY DEF CollectOk, Authorize, Charge, BudgetInv
  <2>7. QED
    BY <2>2, <2>3, <2>4, <2>5, <2>6
<1>4. ASSUME NEW t \in Targets, NEW refs \in SUBSET {e.ref : e \in handed}, ReadEvidence(t, refs)
      PROVE  TypeOK'
  BY <1>4 DEF ReadEvidence, ToolCall, Purge
<1>5. QED
  BY <1>1, <1>2, <1>3, <1>4, StepCases

(* Steps keep the budgets. *)
LEMMA BudgetStep ==
    ASSUME Inv, [Next]_vars
    PROVE  BudgetInv'
<1> USE GatewayAssumption DEF Inv, TypeOK, BudgetInv, session
<1>1. CASE Initialize \/ Initialized \/ Eof \/ OtherTool \/ Tick \/ UNCHANGED vars
  BY <1>1 DEF Initialize, Initialized, Eof, OtherTool, Tick, vars
<1>2. ASSUME NEW t \in Targets, Authorize(t), Charge(t)
      PROVE  BudgetInv'
  BY <1>2 DEF Authorize, Charge
<1>3. ASSUME NEW t \in Targets, NEW refs, ReadEvidence(t, refs)
      PROVE  BudgetInv'
  BY <1>3 DEF ReadEvidence
<1>4. ASSUME NEW t \in Targets, CollectFails(t)
      PROVE  BudgetInv'
  BY <1>2, <1>4 DEF CollectFails
<1>5. ASSUME NEW t \in Targets, NEW n, NEW dim, NEW value, Stored(t, n, dim, value)
      PROVE  BudgetInv'
  BY <1>2, <1>5 DEF Stored, CollectOk
<1>6. QED
  BY <1>1, <1>3, <1>4, <1>5, StepCases

(* Steps keep the references apart. *)
LEMMA RefsStep ==
    ASSUME Inv, [Next]_vars
    PROVE  RefsInv'
<1> USE GatewayAssumption DEF Inv, TypeOK, RefsInv, session
<1>1. CASE Initialize \/ Initialized \/ OtherTool \/ UNCHANGED vars
  BY <1>1 DEF Initialize, Initialized, OtherTool, ToolCall, vars
<1>2. CASE Eof
  BY <1>2 DEF Eof
<1>3. CASE Tick
  BY <1>3 DEF Tick, Entry
<1>4. ASSUME NEW t \in Targets, CollectFails(t)
      PROVE  RefsInv'
  BY <1>4 DEF CollectFails, ToolCall, Charge, Entry, Refs
<1>5. ASSUME NEW t \in Targets, NEW n \in 0..row_limit, NEW dim, NEW value,
             Stored(t, n, dim, value)
      PROVE  RefsInv'
  <2> PICK asked \in 1..row_limit, refused \in BOOLEAN : CollectOk(t, asked, n, dim, value, refused)
    BY <1>5 DEF Stored
  <2> DEFINE e == [ref |-> calls + 1, target |-> t, t |-> now, rows |-> n]
  <2>1. items' \cup handed' \subseteq items \cup handed \cup {e}
    BY PutFits DEF CollectOk, Authorize, Purge
  <2>2. calls' = calls + 1 /\ now' = now
    BY DEF CollectOk, Charge, ToolCall
  <2>3. e.ref = calls + 1 /\ e.t = now
    OBVIOUS
  <2>4. \A f \in items \cup handed : f.ref \in Nat /\ f.ref <= calls /\ f.t <= now
    BY DEF Entry, Refs
  <2> HIDE DEF e
  <2>5. QED
    BY <2>1, <2>2, <2>3, <2>4
<1>6. ASSUME NEW t \in Targets, NEW refs, ReadEvidence(t, refs)
      PROVE  RefsInv'
  BY <1>6 DEF ReadEvidence, ToolCall, Purge
<1>7. QED
  BY <1>1, <1>2, <1>3, <1>4, <1>5, <1>6, StepCases

(* Steps keep room in the store and lose no fresh evidence. *)
LEMMA RoomStep ==
    ASSUME Inv, [Next]_vars
    PROVE  RoomInv'
<1> USE GatewayAssumption DEF Inv, TypeOK, RoomInv, session
<1>1. CASE Initialize \/ Initialized \/ OtherTool \/ UNCHANGED vars
  BY <1>1 DEF Initialize, Initialized, OtherTool, ToolCall, vars, Live
<1>2. CASE Eof
  BY <1>2, FS_EmptySet DEF Eof
<1>3. CASE Tick
  BY <1>3 DEF Tick, Live, Entry
<1>4. ASSUME NEW t \in Targets, CollectFails(t)
      PROVE  RoomInv'
  <2>1. Cardinality(items) \in Nat
    BY FS_CardinalityType
  <2>2. QED
    BY <1>4, <2>1 DEF CollectFails, ToolCall, Charge, Live
<1>5. ASSUME NEW t \in Targets, NEW n \in 0..row_limit, NEW dim, NEW value,
             Stored(t, n, dim, value)
      PROVE  RoomInv'
  <2> PICK asked \in 1..row_limit, refused \in BOOLEAN : CollectOk(t, asked, n, dim, value, refused)
    BY <1>5 DEF Stored
  <2> DEFINE e == [ref |-> calls + 1, target |-> t, t |-> now, rows |-> n]
  <2>1. items' = Purge(items) \cup {e} /\ IsFiniteSet(items') /\ Cardinality(items') <= calls + 1
    BY PutFits DEF CollectOk, Authorize
  <2>2. calls' = calls + 1 /\ now' = now /\ state' = state /\ handed' \subseteq handed \cup {e}
    BY DEF CollectOk, Charge, ToolCall
  <2> HIDE DEF e
  <2>3. QED
    BY <2>1, <2>2 DEF Live, Purge
<1>6. ASSUME NEW t \in Targets, NEW refs, ReadEvidence(t, refs)
      PROVE  RoomInv'
  BY <1>6, PurgeFits DEF ReadEvidence, ToolCall, Purge, Live
<1>7. QED
  BY <1>1, <1>2, <1>3, <1>4, <1>5, <1>6, StepCases

(* Steps keep what is known of the last request for evidence. *)
LEMMA GotStep ==
    ASSUME Inv, [Next]_vars
    PROVE  GotInv'
<1> USE GatewayAssumption DEF Inv, TypeOK, GotInv, session
<1>1. CASE Initialize \/ Initialized \/ Eof \/ OtherTool \/ Tick \/ UNCHANGED vars
  BY <1>1 DEF Initialize, Initialized, Eof, OtherTool, Tick, vars, EvidenceWhileFresh
<1>2. ASSUME NEW t \in Targets, CollectFails(t)
      PROVE  GotInv'
  BY <1>2 DEF CollectFails, Charge, EvidenceWhileFresh
<1>3. ASSUME NEW t \in Targets, NEW n \in 0..row_limit, NEW dim, NEW value,
             Stored(t, n, dim, value)
      PROVE  GotInv'
  <2> PICK asked \in 1..row_limit, refused \in BOOLEAN : CollectOk(t, asked, n, dim, value, refused)
    BY <1>3 DEF Stored
  <2> DEFINE e == [ref |-> calls + 1, target |-> t, t |-> now, rows |-> n]
  <2>1. handed' \in {handed, handed \cup {e}} /\ calls' = calls + 1 /\ got' = got
    BY DEF CollectOk, Charge
  <2>2. e.ref = calls + 1
    OBVIOUS
  <2> HIDE DEF e
  <2>3. \A r \in 1..calls : r # e.ref
    BY <2>2
  <2>4. QED
    BY <2>1, <2>3 DEF EvidenceWhileFresh
<1>4. ASSUME NEW t \in Targets, NEW refs \in SUBSET {e.ref : e \in handed}, ReadEvidence(t, refs)
      PROVE  GotInv'
  <2>1. refs \subseteq 1..calls
    BY DEF RefsInv, Entry, Refs
  <2>2. state # "CLOSED" /\ handed' = handed /\ calls' = calls
    BY <1>4 DEF ReadEvidence, ToolCall
  <2>3. ASSUME NEW r \in refs
        PROVE  Found(Purge(items), r, t) <=>
                 \E e \in handed : e.ref = r /\ e.target = t /\ now - e.t <= Ttl
    <3>1. PICK h \in handed : h.ref = r
      OBVIOUS
    <3>2. \A e \in items : e.ref = r => e = h
      BY <3>1 DEF RefsInv
    <3>3. Live(h) => h \in items
      BY <2>2 DEF RoomInv
    <3>4. \A e \in handed : e.ref = r => e = h
      BY <3>1 DEF RefsInv
    <3>5. QED
      BY <3>1, <3>2, <3>3, <3>4 DEF Found, Purge, Live
  <2>4. /\ got'.refs = refs /\ got'.target = t /\ got'.at = now
        /\ got'.ok = \A r \in refs : Found(Purge(items), r, t)
    BY <1>4 DEF ReadEvidence
  <2>5. QED
    BY <2>1, <2>2, <2>3, <2>4 DEF EvidenceWhileFresh
<1>5. QED
  BY <1>1, <1>2, <1>3, <1>4, StepCases

(* Steps keep the observed release update. *)
LEMMA ObservedStep ==
    ASSUME Inv, [Next]_vars
    PROVE  ObservedInv'
<1> USE DEF Inv, TypeOK, Observation, ObservedInv, session, Dims
<1>1. CASE Initialize \/ Initialized \/ Eof \/ OtherTool \/ Tick \/ UNCHANGED vars
  BY <1>1 DEF Initialize, Initialized, Eof, OtherTool, Tick, vars
<1>2. ASSUME NEW t \in Targets, CollectFails(t)
      PROVE  ObservedInv'
  BY <1>2 DEF CollectFails
<1>3. ASSUME NEW t \in Targets, NEW n, NEW dim, NEW value, Stored(t, n, dim, value)
      PROVE  ObservedInv'
  <2> PICK asked \in 1..row_limit, refused \in BOOLEAN : CollectOk(t, asked, n, dim, value, refused)
    BY <1>3 DEF Stored
  <2>1. CASE dim = "release_update"
    BY <2>1 DEF CollectOk, Observe
  <2>2. CASE dim # "release_update"
    BY <2>2 DEF CollectOk, Observe
  <2>3. QED
    BY <2>1, <2>2
<1>4. ASSUME NEW t \in Targets, NEW refs, ReadEvidence(t, refs)
      PROVE  ObservedInv'
  BY <1>4 DEF ReadEvidence
<1>5. QED
  BY <1>1, <1>2, <1>3, <1>4, StepCases

(* The inductive invariant holds in every reachable state. *)
THEOREM GatewayInv == Spec => []Inv
<1>1. Init => Inv
  <2> SUFFICES ASSUME Init PROVE Inv
    OBVIOUS
  <2> USE GatewayAssumption DEF Init
  <2>1. TypeOK
    BY DEF TypeOK, Observation
  <2>2. BudgetInv
    BY DEF BudgetInv
  <2>3. RefsInv /\ GotInv
    BY DEF RefsInv, GotInv
  <2>4. RoomInv
    BY FS_EmptySet DEF RoomInv
  <2>5. ObservedInv
    BY DEF ObservedInv
  <2>6. QED
    BY <2>1, <2>2, <2>3, <2>4, <2>5 DEF Inv
<1>2. Inv /\ [Next]_vars => Inv'
  BY TypeStep, BudgetStep, RefsStep, RoomStep, GotStep, ObservedStep DEF Inv
<1>3. QED
  BY <1>1, <1>2, PTL DEF Spec

(***************************************************************************)
(* The session and the store of the gateway keep their types.              *)
(***************************************************************************)
THEOREM GatewayTypeOK == Spec => []TypeOK
<1>1. Inv => TypeOK
  BY DEF Inv
<1>2. QED
  BY <1>1, GatewayInv, PTL

(***************************************************************************)
(* EvidenceStore serves a reference exactly while it is fresh: its bound   *)
(* cannot evict before the time to live does, as long as a session has no  *)
(* more calls than the store has entries.                                  *)
(***************************************************************************)
THEOREM GatewayEvidenceWhileFresh == Spec => []EvidenceWhileFresh
<1>1. Inv => EvidenceWhileFresh
  BY DEF Inv, GotInv, EvidenceWhileFresh
<1>2. QED
  BY <1>1, GatewayInv, PTL

(***************************************************************************)
(* _authorize and the counters of _tool_collect keep every target within   *)
(* its budget of calls, failed ones included.                              *)
(***************************************************************************)
THEOREM GatewayFetchesWithinBudget == Spec => []FetchesWithinBudget
<1>1. Inv => FetchesWithinBudget
  BY GatewayAssumption DEF Inv, BudgetInv, FetchesWithinBudget, TypeOK
<1>2. QED
  BY <1>1, GatewayInv, PTL

(***************************************************************************)
(* An observed release update stays in use for the rest of the session.    *)
(***************************************************************************)
THEOREM GatewayReleaseUpdate == Spec => []ReleaseUpdateObservedWins
<1>1. Inv => ReleaseUpdateObservedWins
  BY DEF Inv, ObservedInv, ReleaseUpdateObservedWins, WinsFor, InUse
<1>2. QED
  BY <1>1, GatewayInv, PTL

-----------------------------------------------------------------------------
\* What a target gave away was charged, and is within its budget.  More may have
\* been charged: for evidence whose response was refused.
GivenBy(t) == {e \in handed : e.target = t}

RowsInv ==
    /\ IsFiniteSet(handed)
    /\ \A t \in Targets : RowsOf(GivenBy(t)) <= target_rows[t] /\ target_rows[t] <= max_rows[t]

LEMMA CapWithinBudget ==
    ASSUME TypeOK, NEW t \in Targets, Authorize(t), NEW asked \in 1..row_limit, NEW n \in Nat,
           n <= CapRows(t, asked)
    PROVE  target_rows[t] + n <= max_rows[t]
<1> DEFINE left == max_rows[t] - target_rows[t]
           S == {asked, row_limit, left}
<1>1. target_rows[t] \in Nat /\ max_rows[t] \in Nat /\ left \in Nat
  BY GatewayAssumption DEF TypeOK, Authorize
<1>2. S \in SUBSET Nat /\ S # {} /\ left \in S
  BY <1>1, GatewayAssumption
<1>3. CapRows(t, asked) = Min(S)
  BY DEF CapRows
<1> HIDE DEF S
<1>4. Min(S) \in S /\ Min(S) <= left
  BY <1>2, LeastNat DEF Min
<1>5. Min(S) \in Nat
  BY <1>2, <1>4
<1>6. n <= left
  <2> HIDE DEF left
  <2>1. QED
    BY <1>1, <1>3, <1>4, <1>5
<1>7. QED
  BY <1>1, <1>6

(* Steps keep the account of the rows. *)
LEMMA RowsStep ==
    ASSUME Inv, RowsInv, [Next]_vars
    PROVE  RowsInv'
<1> USE DEF session
<1>1. ASSUME UNCHANGED <<handed, target_rows>> PROVE RowsInv'
  BY <1>1 DEF RowsInv, GivenBy
<1>2. CASE Initialize \/ Initialized \/ Eof \/ OtherTool \/ Tick \/ UNCHANGED vars
  BY <1>1, <1>2 DEF Initialize, Initialized, Eof, OtherTool, Tick, vars
<1>3. ASSUME NEW t \in Targets, CollectFails(t)
      PROVE  RowsInv'
  BY <1>1, <1>3 DEF CollectFails
<1>4. ASSUME NEW t \in Targets, NEW refs, ReadEvidence(t, refs)
      PROVE  RowsInv'
  BY <1>1, <1>4 DEF ReadEvidence
<1>5. ASSUME NEW t \in Targets, NEW n \in 0..row_limit, NEW dim, NEW value,
             Stored(t, n, dim, value)
      PROVE  RowsInv'
  <2>1. PICK asked \in 1..row_limit, refused \in BOOLEAN : CollectOk(t, asked, n, dim, value, refused)
    BY <1>5 DEF Stored
  <2> DEFINE e == [ref |-> calls + 1, target |-> t, t |-> now, rows |-> n]
  <2>2. /\ handed' = handed \/ handed' = handed \cup {e}
        /\ target_rows' = [target_rows EXCEPT ![t] = @ + n]
    BY <2>1 DEF CollectOk
  <2>3. n \in Nat /\ target_rows[t] + n <= max_rows[t]
    BY <2>1, CapWithinBudget, GatewayAssumption DEF CollectOk, Inv
  <2>4. e \notin handed /\ e.target = t /\ e.rows = n
    <3>1. \A f \in handed : f.ref # calls + 1
      BY DEF Inv, RefsInv, TypeOK, Entry, Refs
    <3>2. QED
      BY <3>1
  <2> HIDE DEF e
  <2>5. IsFiniteSet(handed')
    BY <2>2, FS_AddElement DEF RowsInv
  <2>6. ASSUME NEW u \in Targets
        PROVE  RowsOf(GivenBy(u)') <= target_rows'[u] /\ target_rows'[u] <= max_rows[u]
    <3>1. /\ IsFiniteSet(GivenBy(u)) /\ IsFiniteSet(GivenBy(u)')
      BY <2>5, FS_Subset DEF GivenBy, RowsInv
    <3>2. /\ \A f \in GivenBy(u) : f.rows \in Nat
          /\ \A f \in GivenBy(u)' : f.rows \in Nat
      BY <2>2, <2>3, <2>4, GatewayAssumption DEF GivenBy, Inv, TypeOK, Entry
    <3>3. RowsOf(GivenBy(u)) \in Nat
      BY <3>1, <3>2, RowsNat
    <3>4. /\ RowsOf(GivenBy(u)) <= target_rows[u] /\ target_rows[u] <= max_rows[u]
          /\ target_rows[u] \in Nat
      BY DEF RowsInv, Inv, TypeOK
    <3>5. target_rows'[u] = IF u = t THEN target_rows[u] + n ELSE target_rows[u]
      BY <2>2 DEF Inv, TypeOK
    <3>6. CASE GivenBy(u)' = GivenBy(u)
      BY <2>3, <3>3, <3>4, <3>5, <3>6
    <3>7. CASE GivenBy(u)' # GivenBy(u)
      <4>1. u = t /\ e \in GivenBy(u)' /\ GivenBy(u)' \ {e} = GivenBy(u)
        BY <2>2, <2>4, <3>7 DEF GivenBy
      <4>2. RowsOf(GivenBy(u)') = e.rows + RowsOf(GivenBy(u)' \ {e})
        BY <3>1, <3>2, <4>1, RowsAdd
      <4>3. RowsOf(GivenBy(u)') = e.rows + RowsOf(GivenBy(u))
        BY ONLY <4>1, <4>2, Zenon
      <4>4. QED
        BY <2>3, <2>4, <3>3, <3>4, <3>5, <4>1, <4>3
    <3>8. QED
      BY <3>6, <3>7
  <2>7. QED
    BY <2>5, <2>6 DEF RowsInv, GivenBy
<1>6. QED
  BY <1>2, <1>3, <1>4, <1>5, StepCases

(***************************************************************************)
(* Row limits and row budget of _tool_collect together: the rows a target  *)
(* has given away, added up over all the evidence handed out, stay within  *)
(* its budget, for any number of targets, collections and rows.            *)
(***************************************************************************)
THEOREM GatewayRowsWithinBudget == Spec => []RowsWithinBudget
<1>1. Init => RowsInv
  <2> SUFFICES ASSUME Init PROVE RowsInv
    OBVIOUS
  <2>1. handed = {} /\ target_rows = [t \in Targets |-> 0]
    BY DEF Init
  <2>2. IsFiniteSet({}) /\ RowsOf({}) = 0
    BY FS_EmptySet, RowsUnfold
  <2>3. \A t \in Targets : GivenBy(t) = {}
    BY <2>1 DEF GivenBy
  <2>4. \A t \in Targets : RowsOf(GivenBy(t)) = 0
    BY ONLY <2>2, <2>3, Zenon
  <2>5. QED
    BY <2>1, <2>2, <2>4, GatewayAssumption DEF RowsInv
<1>2. Inv /\ RowsInv /\ [Next]_vars => RowsInv'
  BY RowsStep
<1>3. Inv /\ RowsInv => RowsWithinBudget
  <2> SUFFICES ASSUME Inv, RowsInv, NEW t \in Targets
               PROVE  RowsOf(GivenBy(t)) <= max_rows[t]
    BY DEF RowsWithinBudget, RowsOf, GivenBy
  <2>1. IsFiniteSet(GivenBy(t)) /\ \A e \in GivenBy(t) : e.rows \in Nat
    BY FS_Subset, GatewayAssumption DEF GivenBy, RowsInv, Inv, TypeOK, Entry
  <2>2. RowsOf(GivenBy(t)) \in Nat
    BY <2>1, RowsNat
  <2>3. QED
    BY <2>2, GatewayAssumption DEF RowsInv, Inv, TypeOK
<1>4. QED
  BY <1>1, <1>2, <1>3, GatewayInv, PTL DEF Spec
=============================================================================
