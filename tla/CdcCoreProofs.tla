---------------------------- MODULE CdcCoreProofs ----------------------------
(***************************************************************************)
(* Theorems about CdcCore, for any keys, partitions, writers, runs of the  *)
(* generator and bounds: first what lies in the tables, then what the      *)
(* reader of a current view sees -- merges are invisible, the newest       *)
(* landed version is shown, and the whole path implements the register of  *)
(* CurrentState.                                                           *)
(***************************************************************************)
EXTENDS CdcCore, FiniteSetTheorems, WellFoundedInduction, TLAPS

\* The tables are finite: INSERTs are, and there are finitely many of them.
Finite == IsFiniteSet(log) /\ IsFiniteSet(core)

\* Beats is a strict order on rows: nothing beats itself, and the winner of a
\* winner wins.
LEMMA BeatsIrreflexive ==
  ASSUME NEW r \in Row
  PROVE  ~ Beats(r, r)
BY DEF Beats, Row

LEMMA BeatsTransitive ==
  ASSUME NEW r \in Row, NEW s \in Row, NEW t \in Row,
         Beats(s, r), Beats(t, s)
  PROVE  Beats(t, r)
BY CdcAssumption DEF Beats, Row

\* In a finite set of rows every row is unbeaten or beaten by an unbeaten one.
\* Those are what a merge keeps and what FINAL returns.
LEMMA SomeRowSurvives ==
  ASSUME NEW rows, rows \subseteq Row, IsFiniteSet(rows),
         NEW r \in rows
  PROVE  \E s \in Unbeaten(rows) : s = r \/ Beats(s, r)
<1> DEFINE Above(x) == {y \in rows : Beats(y, x)}
           Cand == {x \in rows : x = r \/ Beats(x, r)}
           T == {Above(x) : x \in Cand}
<1>1. IsWellFoundedOn(StrictSubsetOrdering(rows), FiniteSubsetsOf(rows))
  BY FS_StrictSubsetOrderingWellFounded
<1>2. T \subseteq FiniteSubsetsOf(rows) /\ T # {}
  <2>1. \A x \in Cand : Above(x) \in SUBSET rows /\ IsFiniteSet(Above(x))
    BY FS_Subset
  <2>2. r \in Cand
    OBVIOUS
  <2>3. T \subseteq FiniteSubsetsOf(rows)
    BY <2>1 DEF FiniteSubsetsOf
  <2>4. Above(r) \in T
    BY <2>2
  <2> QED
    BY <2>3, <2>4
<1>3. PICK m \in T : \A y \in T : <<y, m>> \notin StrictSubsetOrdering(rows)
  <2> HIDE DEF T
  <2> QED BY <1>1, <1>2, WFMin
<1>4. PICK s \in Cand : m = Above(s)
  OBVIOUS
<1>5. s \in Unbeaten(rows)
  <2> SUFFICES ASSUME NEW t \in rows, Beats(t, s) PROVE FALSE
    BY DEF Unbeaten
  <2>1. t \in Cand
    BY BeatsTransitive
  <2>2. Above(t) \subseteq Above(s)
    BY BeatsTransitive
  <2>3. t \in Above(s) /\ t \notin Above(t)
    BY BeatsIrreflexive
  <2>4. <<Above(t), Above(s)>> \in StrictSubsetOrdering(rows)
    BY <2>2, <2>3 DEF StrictSubsetOrdering
  <2> QED
    BY <2>1, <2>4, <1>3, <1>4
<1> QED
  BY <1>5

\* A merge loses no version: whatever it removes, it keeps a newer version of.
LEMMA MergeKeepsVersions ==
  ASSUME TypeOK, Finite,
         NEW p \in Parts, NEW lo, NEW hi, Merge(p, lo, hi), NEW r \in core
  PROVE  \E s \in core' : s.key = r.key /\ s.ver >= r.ver
<1> DEFINE range == {x \in core : x.part = p /\ x.pos \in lo..hi}
<1>1. core' = (core \ range) \cup Unbeaten(range)
  BY DEF Merge
<1>2. r.ver \in Int
  BY CdcAssumption DEF TypeOK, Row
<1>3. CASE r \notin range
  BY <1>1, <1>2, <1>3
<1>4. CASE r \in range
  <2>1. range \subseteq Row /\ IsFiniteSet(range)
    BY FS_Subset DEF TypeOK, Finite
  <2>2. PICK s \in Unbeaten(range) : s = r \/ Beats(s, r)
    <3> HIDE DEF range
    <3> QED BY <1>4, <2>1, SomeRowSurvives
  <2>3. s.key = r.key /\ s.ver >= r.ver
    BY <2>1, <2>2, <1>2, CdcAssumption DEF Beats, Row, Unbeaten
  <2> QED
    BY <2>2, <2>3, <1>1
<1> QED
  BY <1>3, <1>4

-----------------------------------------------------------------------------
(* Type correctness. *)

LEMMA InitTypeOK == Init => TypeOK
BY CdcAssumption DEF Init, TypeOK, Idle, Event, Row

\* Every step of Next keeps the types; one step of the proof per action.
LEMMA NextTypeOK == TypeOK /\ [Next]_vars => TypeOK'
<1> SUFFICES ASSUME TypeOK, [Next]_vars PROVE TypeOK'
  OBVIOUS
<1> USE CdcAssumption
<1>1. ASSUME NEW k \in Keys, NEW op \in Ops, NEW p \in Parts, Emit(k, op, p)
      PROVE  TypeOK'
  <2> DEFINE new == [key |-> k, op |-> op]
             e == [seq |-> Len(script) + 1, key |-> k, op |-> op, part |-> p, gen |-> 1]
  <2>1. script' = Append(script, new) /\ log' = log \cup {e}
    BY <1>1 DEF Emit
  <2>2. Len(script) \in Nat /\ Len(script) < MaxSeq
    BY <1>1 DEF Emit, TypeOK
  <2>3. script' \in Seq([key : Keys, op : Ops]) /\ Len(script') <= MaxSeq
    BY <2>1, <2>2 DEF TypeOK
  <2>4. e \in Event
    BY <2>2 DEF Event
  <2>5. log' \subseteq Event /\ log \subseteq log'
    BY <2>1, <2>4 DEF TypeOK
  <2>6. job' \in [Writers -> [held : SUBSET log', todo : SUBSET log']]
    BY <1>1, <2>5 DEF Emit, TypeOK
  <2> QED
    BY <1>1, <2>3, <2>5, <2>6 DEF Emit, TypeOK
<1>2. ASSUME NEW s \in 1..Len(script), NEW g \in 2..MaxGen, NEW p \in Parts, EmitAgain(s, g, p)
      PROVE  TypeOK'
  <2> DEFINE e == [seq |-> s, key |-> script[s].key, op |-> script[s].op,
                   part |-> p, gen |-> g]
  <2>1. s \in 1..MaxSeq /\ g \in 1..MaxGen
    <3>1. Len(script) \in Nat /\ Len(script) <= MaxSeq
      BY DEF TypeOK
    <3> QED
      BY <3>1
  <2>2. script[s] \in [key : Keys, op : Ops]
    <3>1. script \in Seq([key : Keys, op : Ops])
      BY DEF TypeOK
    <3> DEFINE Step == [key : Keys, op : Ops]
    <3> HIDE DEF Step
    <3>2. script \in Seq(Step) => script[s] \in Step
      OBVIOUS
    <3> QED
      BY <3>1, <3>2 DEF Step
  <2>3. e \in Event
    BY <2>1, <2>2 DEF Event
  <2>4. log' \subseteq Event /\ log \subseteq log'
    BY <1>2, <2>3 DEF EmitAgain, TypeOK
  <2>5. job' \in [Writers -> [held : SUBSET log', todo : SUBSET log']]
    BY <1>2, <2>4 DEF EmitAgain, TypeOK
  <2> QED
    BY <1>2, <2>4, <2>5 DEF EmitAgain, TypeOK
<1>3. ASSUME NEW w \in Writers, NEW b \in Batches, Insert(w, b)
      PROVE  TypeOK'
  BY <1>3 DEF Insert, Batches, TypeOK
<1>4. ASSUME NEW w \in Writers, NEW p \in Parts, Push(w, p)
      PROVE  TypeOK'
  <2> DEFINE rows == {e \in job[w].todo : e.part = p}
             rest == job[w].todo \ rows
  <2>1. /\ blocks' = [blocks EXCEPT ![p] = @ + 1]
        /\ core' = core \cup {ToCore(e, blocks[p] + 1) : e \in rows}
        /\ job' = [job EXCEPT ![w] = IF rest = {} THEN Idle ELSE [@ EXCEPT !.todo = rest]]
    BY <1>4 DEF Push
  <2>2. blocks' \in [Parts -> Nat]
    BY <2>1 DEF TypeOK
  <2>3. \A e \in rows : ToCore(e, blocks[p] + 1) \in Row
    <3> SUFFICES ASSUME NEW e \in rows PROVE ToCore(e, blocks[p] + 1) \in Row
      OBVIOUS
    <3>1. e \in Event /\ blocks[p] + 1 \in Nat
      BY DEF TypeOK
    <3> QED
      BY <3>1 DEF ToCore, Event, Row, IsDeleted
  <2>4. core' \subseteq Row
    BY <2>1, <2>3 DEF TypeOK
  <2>5. /\ job' \in [Writers -> [held : SUBSET log, todo : SUBSET log]]
        /\ \A v \in Writers : job'[v].todo \subseteq job'[v].held
    BY <2>1 DEF TypeOK, Idle
  <2> HIDE DEF rows, rest
  <2> QED
    BY <1>4, <2>2, <2>4, <2>5 DEF Push, TypeOK
<1>5. ASSUME NEW w \in Writers, Break(w)
      PROVE  TypeOK'
  BY <1>5 DEF Break, TypeOK
<1>6. ASSUME NEW w \in Writers, Retry(w)
      PROVE  TypeOK'
  BY <1>6 DEF Retry, TypeOK
<1>7. ASSUME NEW p \in Parts, NEW lo, NEW hi, Merge(p, lo, hi)
      PROVE  TypeOK'
  <2>1. core' \subseteq core
    BY <1>7 DEF Merge, Unbeaten
  <2> QED
    BY <1>7, <2>1 DEF Merge, TypeOK
<1>8. ASSUME NEW e \in landing, Expire(e)
      PROVE  TypeOK'
  BY <1>8 DEF Expire, TypeOK
<1>9. CASE Truncate
  BY <1>9 DEF Truncate, TypeOK
<1>10. ASSUME NEW w \in Writers, Reinsert(w)
       PROVE  TypeOK'
  BY <1>10 DEF Reinsert, TypeOK
<1>11. CASE UNCHANGED vars
  BY <1>11 DEF vars, TypeOK
<1> QED
  BY <1>1, <1>2, <1>3, <1>4, <1>5, <1>6, <1>7, <1>8, <1>9, <1>10, <1>11 DEF Next

\* Every reachable state is well typed: landing holds emitted events, the core
\* table holds rows of the projection, no INSERT pushes a row it does not hold.
THEOREM TypeCorrect == Spec => []TypeOK
BY InitTypeOK, NextTypeOK, PTL DEF Spec

-----------------------------------------------------------------------------
(* Reconciliation: no landed version is lost on its way to the core table. *)

LEMMA NextFinite == TypeOK /\ Finite /\ [Next]_vars => Finite'
<1> SUFFICES ASSUME TypeOK, Finite, [Next]_vars PROVE Finite'
  OBVIOUS
<1>1. ASSUME NEW k \in Keys, NEW op \in Ops, NEW p \in Parts, Emit(k, op, p)
      PROVE  Finite'
  BY <1>1, FS_AddElement DEF Emit, Finite
<1>2. ASSUME NEW s \in 1..Len(script), NEW g \in 2..MaxGen, NEW p \in Parts, EmitAgain(s, g, p)
      PROVE  Finite'
  BY <1>2, FS_AddElement DEF EmitAgain, Finite
<1>3. ASSUME NEW w \in Writers, NEW p \in Parts, Push(w, p)
      PROVE  Finite'
  <2> DEFINE rows == {e \in job[w].todo : e.part = p}
  <2>1. rows \subseteq log
    BY DEF TypeOK
  <2>2. IsFiniteSet(rows)
    BY <2>1, FS_Subset DEF Finite
  <2>3. IsFiniteSet({ToCore(e, blocks[p] + 1) : e \in rows})
    <3> DEFINE image == {ToCore(e, blocks[p] + 1) : e \in rows}
               f == [e \in rows |-> ToCore(e, blocks[p] + 1)]
    <3> HIDE DEF rows
    <3>1. f \in Surjection(rows, image)
      BY DEF Surjection
    <3> QED BY <3>1, <2>2, FS_Surjection
  <2>4. core' = core \cup {ToCore(e, blocks[p] + 1) : e \in rows} /\ log' = log
    BY <1>3 DEF Push
  <2> HIDE DEF rows
  <2> QED
    BY <2>3, <2>4, FS_Union DEF Finite
<1>4. ASSUME NEW p \in Parts, NEW lo, NEW hi, Merge(p, lo, hi)
      PROVE  Finite'
  <2>1. core' \subseteq core /\ log' = log
    BY <1>4 DEF Merge, Unbeaten
  <2> QED
    BY <2>1, FS_Subset DEF Finite
<1>5. CASE Truncate
  BY <1>5, FS_EmptySet DEF Truncate, Finite
<1>6. CASE core' = core /\ log' = log
  BY <1>6 DEF Finite
<1> QED
  BY <1>1, <1>2, <1>3, <1>4, <1>5, <1>6
     DEF Next, vars, Insert, Break, Retry, Expire, Reinsert

\* No step but TRUNCATE loses a version of the core table.
LEMMA StepKeepsVersions ==
  ASSUME TypeOK, Finite, [Next]_vars, ~ Truncate, NEW r \in core
  PROVE  \E s \in core' : s.key = r.key /\ s.ver >= r.ver
<1>1. r.ver \in Int
  BY CdcAssumption DEF TypeOK, Row
<1>2. CASE core \subseteq core'
  BY <1>1, <1>2
<1>3. ASSUME NEW p \in Parts, NEW lo, NEW hi, Merge(p, lo, hi)
      PROVE  \E s \in core' : s.key = r.key /\ s.ver >= r.ver
  BY <1>3, MergeKeepsVersions
<1> QED
  BY <1>2, <1>3
     DEF Next, vars, Emit, EmitAgain, Insert, Push, Break, Retry, Expire, Reinsert

\* The core table only moves forward: every version in it is kept or replaced by
\* a newer one of its key, in every step that is not a rebuild's TRUNCATE.
THEOREM NeverRegress == Spec => VersionsNeverRegress
<1>1. Init => TypeOK /\ Finite
  BY InitTypeOK, FS_EmptySet DEF Init, Finite
<1>2. TypeOK /\ Finite /\ [Next]_vars => (TypeOK /\ Finite)'
  BY NextTypeOK, NextFinite
<1>3. TypeOK /\ Finite /\ [Next]_vars =>
        [rebuilds' = rebuilds =>
          \A r \in core : \E s \in core' : s.key = r.key /\ s.ver >= r.ver]_vars
  <2> SUFFICES ASSUME TypeOK, Finite, [Next]_vars, rebuilds' = rebuilds, NEW r \in core
               PROVE  \E s \in core' : s.key = r.key /\ s.ver >= r.ver
    OBVIOUS
  <2>1. ~ Truncate
    BY DEF Truncate, TypeOK
  <2> QED
    BY <2>1, StepKeepsVersions
<1> QED
  BY <1>1, <1>2, <1>3, PTL DEF Spec, VersionsNeverRegress

\* What stands for an event goes on standing for it.
LEMMA ReflectedStable ==
  ASSUME TypeOK, Finite, [Next]_vars, ~ Truncate, NEW e \in Event, Reflected(e)
  PROVE  Reflected(e)'
<1>1. PICK r \in core : r.key = e.key /\ r.ver >= e.seq
  BY DEF Reflected
<1>2. PICK s \in core' : s.key = r.key /\ s.ver >= r.ver
  BY StepKeepsVersions
<1>3. s.ver \in Int /\ r.ver \in Int /\ e.seq \in Int
  <2>1. s \in Row /\ r \in Row
    BY NextTypeOK DEF TypeOK
  <2> QED
    BY <2>1, CdcAssumption DEF Row, Event
<1> QED
  BY <1>1, <1>2, <1>3 DEF Reflected

\* LandingReflected is inductive: an event stops being pending only when the push
\* that removes it writes its row.
LEMMA NextReflected ==
  ASSUME TypeOK, Finite, LandingReflected, [Next]_vars
  PROVE  LandingReflected'
<1> SUFFICES ASSUME rebuild' = "idle", NEW e \in landing'
             PROVE  Pending(e)' \/ Reflected(e)'
  BY DEF LandingReflected, Reflected, Pending, Broken
<1>e. e \in Event
  BY NextTypeOK DEF TypeOK
\* Every action but the ones below leaves the INSERTs alone, adds nothing to
\* landing, and keeps the core table's versions.
<1>1. ASSUME rebuild = "idle", e \in landing, job' = job, ~ Truncate
      PROVE  Pending(e)' \/ Reflected(e)'
  <2>1. CASE Pending(e)
    BY <1>1, <2>1 DEF Pending, Broken
  <2>2. CASE Reflected(e)
    BY <1>1, <2>2, <1>e, ReflectedStable
  <2> QED
    BY <1>1, <2>1, <2>2 DEF LandingReflected
<1>2. ASSUME NEW w \in Writers, NEW b \in Batches, Insert(w, b)
      PROVE  Pending(e)' \/ Reflected(e)'
  <2>1. rebuild = "idle" /\ ~ Truncate
    BY <1>2 DEF Insert, Truncate
  <2>2. CASE e \in b
    BY <1>2, <2>2 DEF Insert, Pending, TypeOK
  <2>3. CASE e \notin b /\ Pending(e)
    <3>1. PICK v \in Writers : e \in job[v].held /\ (e \in job[v].todo \/ Broken(v))
      BY <2>3 DEF Pending
    <3>2. v # w
      BY <1>2, <3>1 DEF Insert, IsIdle
    <3>3. job'[v] = job[v]
      BY <1>2, <3>2 DEF Insert, TypeOK
    <3> QED
      BY <3>1, <3>3 DEF Pending, Broken
  <2>4. CASE Reflected(e)
    BY <2>1, <2>4, <1>e, ReflectedStable
  <2>5. e \in b \/ e \in landing
    BY <1>2 DEF Insert
  <2> QED
    BY <2>1, <2>2, <2>3, <2>4, <2>5 DEF LandingReflected
<1>3. ASSUME NEW w \in Writers, NEW p \in Parts, Push(w, p)
      PROVE  Pending(e)' \/ Reflected(e)'
  <2> DEFINE rows == {x \in job[w].todo : x.part = p}
             rest == job[w].todo \ rows
  <2>1. /\ core' = core \cup {ToCore(x, blocks[p] + 1) : x \in rows}
        /\ job' = [job EXCEPT ![w] = IF rest = {} THEN Idle ELSE [@ EXCEPT !.todo = rest]]
        /\ rows # {}
        /\ rebuild = "idle" /\ e \in landing /\ ~ Truncate
    BY <1>3 DEF Push, Truncate
  <2>2. CASE e \in rows
    <3>1. ToCore(e, blocks[p] + 1) \in core'
      BY <2>1, <2>2
    <3>2. e.seq \in Int
      BY <1>e, CdcAssumption DEF Event
    <3> QED
      BY <3>1, <3>2 DEF ToCore, Reflected
  <2>3. CASE e \notin rows /\ Pending(e)
    <3>1. PICK v \in Writers : e \in job[v].held /\ (e \in job[v].todo \/ Broken(v))
      BY <2>3 DEF Pending
    <3>2. CASE v # w
      <4>1. job'[v] = job[v]
        BY <2>1, <3>2 DEF TypeOK
      <4> QED
        BY <3>1, <4>1 DEF Pending, Broken
    <3>3. CASE v = w
      <4>1. e \in rest
        BY <2>1, <2>3, <3>1, <3>3 DEF Broken
      <4>2. job'[w].held = job[w].held /\ job'[w].todo = rest
        <5> HIDE DEF rest
        <5> QED BY <2>1, <4>1 DEF TypeOK
      <4> QED
        BY <3>1, <3>3, <4>1, <4>2 DEF Pending
    <3> QED
      BY <3>2, <3>3
  <2>4. CASE Reflected(e)
    BY <2>1, <2>4, <1>e, ReflectedStable
  <2> QED
    BY <2>1, <2>2, <2>3, <2>4 DEF LandingReflected
<1>4. ASSUME NEW w \in Writers, Break(w) \/ Retry(w)
      PROVE  Pending(e)' \/ Reflected(e)'
  <2>1. rebuild = "idle" /\ ~ Truncate
    BY <1>4 DEF Break, Retry, Truncate
  <2>2. /\ \A v \in Writers : job'[v].held = job[v].held
        /\ \A v \in Writers \ {w} : job'[v] = job[v]
        /\ job'[w].todo = {} \/ job'[w].todo = job[w].held
    BY <1>4 DEF Break, Retry, TypeOK
  <2>3. CASE e \in job[w].held
    BY <2>2, <2>3 DEF Pending, Broken
  <2>4. CASE e \notin job[w].held /\ Pending(e)
    BY <2>2, <2>4 DEF Pending, Broken
  <2>5. CASE Reflected(e)
    BY <2>1, <2>5, <1>e, ReflectedStable
  <2>6. e \in landing \/ e \in job[w].held
    BY <1>4 DEF Break, Retry
  <2> QED
    BY <2>1, <2>3, <2>4, <2>5, <2>6 DEF LandingReflected
<1>5. ASSUME NEW w \in Writers, Reinsert(w)
      PROVE  Pending(e)' \/ Reflected(e)'
  <2>1. job'[w] = [held |-> landing, todo |-> landing] /\ e \in landing
    BY <1>5 DEF Reinsert, TypeOK
  <2> QED
    BY <2>1 DEF Pending
<1>6. CASE Truncate
  BY <1>6 DEF Truncate
<1> QED
  BY <1>1, <1>2, <1>3, <1>4, <1>5, <1>6
     DEF Next, vars, Emit, EmitAgain, Merge, Expire

\* L0 <-> L1 reconciliation, in every reachable state: a landed version is still
\* going to be pushed, or the core table has it or a newer one of its key.
THEOREM Reconciliation == Spec => []LandingReflected
<1> DEFINE IInv == TypeOK /\ Finite /\ LandingReflected
<1>1. Init => IInv
  BY InitTypeOK, FS_EmptySet DEF Init, Finite, LandingReflected
<1>2. IInv /\ [Next]_vars => IInv'
  BY NextTypeOK, NextFinite, NextReflected
<1> QED
  BY <1>1, <1>2, PTL DEF Spec

-----------------------------------------------------------------------------
(* FINAL and merges *)

\* A merge keeps exactly the rows of the range that FINAL could still return: FINAL
\* over the merged table is FINAL over the table before it.
LEMMA MergeKeepsUnbeaten ==
  ASSUME TypeOK, Finite,
         NEW p \in Parts, NEW lo, NEW hi, Merge(p, lo, hi)
  PROVE  Unbeaten(core') = Unbeaten(core)
<1> DEFINE range == {x \in core : x.part = p /\ x.pos \in lo..hi}
<1>1. core' = (core \ range) \cup Unbeaten(range) /\ range \subseteq core
  BY DEF Merge
<1>2. core \subseteq Row /\ range \subseteq Row /\ IsFiniteSet(range)
  BY FS_Subset DEF TypeOK, Finite
<1> HIDE DEF range
<1>3. core' \subseteq core
  BY <1>1 DEF Unbeaten
<1>4. ASSUME NEW r \in Unbeaten(core) PROVE r \in Unbeaten(core')
  BY <1>1, <1>3 DEF Unbeaten
<1>5. ASSUME NEW r \in Unbeaten(core') PROVE r \in Unbeaten(core)
  <2> SUFFICES ASSUME NEW s \in core, Beats(s, r) PROVE FALSE
    BY <1>3 DEF Unbeaten
  <2>1. r \in core /\ ~ \E t \in core' : Beats(t, r)
    BY <1>3 DEF Unbeaten
  <2>2. s \in range
    BY <1>1, <2>1
  <2>3. PICK t \in Unbeaten(range) : t = s \/ Beats(t, s)
    BY <1>2, <2>2, SomeRowSurvives
  <2>4. t \in core' /\ t \in Row /\ s \in Row /\ r \in Row
    BY <1>1, <1>2, <2>1, <2>3 DEF Unbeaten
  <2>5. Beats(t, r)
    BY <2>3, <2>4, BeatsTransitive
  <2> QED
    BY <2>1, <2>4, <2>5
<1> QED
  BY <1>4, <1>5

\* Background merges are invisible: whatever parts the server merges, whenever it does,
\* with rows of equal versions of several runs too, no reader of FINAL sees it.
THEOREM MergesInvisible == Spec => MergeInvisible
<1>1. Init => TypeOK /\ Finite
  BY InitTypeOK, FS_EmptySet DEF Init, Finite
<1>2. TypeOK /\ Finite /\ [Next]_vars => (TypeOK /\ Finite)'
  BY NextTypeOK, NextFinite
<1>3. TypeOK /\ Finite =>
        [(\E p \in Parts : \E lo, hi \in 1..blocks[p] : Merge(p, lo, hi))
            => \A k \in Keys : Final(k)' = Final(k)]_vars
  <2> SUFFICES ASSUME TypeOK, Finite,
                      NEW p \in Parts, NEW lo, NEW hi, Merge(p, lo, hi), NEW k \in Keys
               PROVE  Final(k)' = Final(k)
    OBVIOUS
  <2>1. Unbeaten(core') = Unbeaten(core)
    BY MergeKeepsUnbeaten
  <2>2. Unbeaten(core)' = Unbeaten(core')
    BY DEF Unbeaten, Beats
  <2> QED
    BY <2>1, <2>2 DEF Final
<1> QED
  BY <1>1, <1>2, <1>3, PTL DEF Spec, MergeInvisible

-----------------------------------------------------------------------------
(* Where rows come from *)

\* Every event and every row of the core table carries what the generator decided for
\* its _cdc_seq: the same key and operation in every run of the generator.
FromScript ==
    /\ \A e \in log : /\ e.seq \in 1..Len(script)
                      /\ script[e.seq].key = e.key /\ script[e.seq].op = e.op
    /\ \A r \in core : /\ r.ver \in 1..Len(script)
                       /\ script[r.ver].key = r.key /\ r.del = IsDeleted(script[r.ver].op)

LEMMA NextFromScript ==
  ASSUME TypeOK, FromScript, [Next]_vars
  PROVE  FromScript'
<1> DEFINE Step == [key : Keys, op : Ops]
<1>0. script \in Seq(Step) /\ Len(script) \in Nat
  BY DEF TypeOK
<1>1. ASSUME NEW k \in Keys, NEW op \in Ops, NEW p \in Parts, Emit(k, op, p)
      PROVE  FromScript'
  <2> DEFINE new == [key |-> k, op |-> op]
             e == [seq |-> Len(script) + 1, key |-> k, op |-> op, part |-> p, gen |-> 1]
  <2>1. script' = Append(script, new) /\ log' = log \cup {e} /\ core' = core
    BY <1>1 DEF Emit
  <2>2. /\ Len(script') = Len(script) + 1
        /\ \A n \in 1..Len(script) : script'[n] = script[n]
        /\ script'[Len(script) + 1] = new
    <3> new \in Step
      OBVIOUS
    <3> HIDE DEF Step, new
    <3> QED BY <1>0, <2>1
  <2>3. \A n \in 1..Len(script) : n \in 1..Len(script')
    BY <1>0, <2>2
  <2>4. Len(script) + 1 \in 1..Len(script')
    BY <1>0, <2>2
  <2> QED
    BY <2>1, <2>2, <2>3, <2>4 DEF FromScript, IsDeleted
<1>2. ASSUME NEW s \in 1..Len(script), NEW g \in 2..MaxGen, NEW p \in Parts, EmitAgain(s, g, p)
      PROVE  FromScript'
  BY <1>2 DEF EmitAgain, FromScript, IsDeleted
<1>3. ASSUME NEW w \in Writers, NEW p \in Parts, Push(w, p)
      PROVE  FromScript'
  <2> DEFINE rows == {e \in job[w].todo : e.part = p}
  <2>1. /\ core' = core \cup {ToCore(e, blocks[p] + 1) : e \in rows}
        /\ script' = script /\ log' = log
    BY <1>3 DEF Push
  <2>2. rows \subseteq log
    BY DEF TypeOK
  <2>3. ASSUME NEW e \in rows
        PROVE  LET r == ToCore(e, blocks[p] + 1)
               IN  /\ r.ver \in 1..Len(script)
                   /\ script[r.ver].key = r.key /\ r.del = IsDeleted(script[r.ver].op)
    BY <2>2, <2>3 DEF ToCore, FromScript
  <2> HIDE DEF rows
  <2> QED
    BY <2>1, <2>3 DEF FromScript, IsDeleted
<1>4. CASE core' \subseteq core /\ script' = script /\ log' = log
  BY <1>4 DEF FromScript, IsDeleted
<1> QED
  BY <1>1, <1>2, <1>3, <1>4
     DEF Next, vars, Insert, Break, Retry, Merge, Unbeaten, Expire, Truncate, Reinsert

\* The inductive invariant of this module.
ViewInv == TypeOK /\ Finite /\ LandingReflected /\ FromScript

LEMMA InitViewInv == Init => ViewInv
BY InitTypeOK, FS_EmptySet DEF Init, ViewInv, Finite, LandingReflected, FromScript

LEMMA NextViewInv == ViewInv /\ [Next]_vars => ViewInv'
BY NextTypeOK, NextFinite, NextReflected, NextFromScript DEF ViewInv

-----------------------------------------------------------------------------
(* The newest version of a key *)

\* r is a row of the newest version of its key that the core table has.
Newest(r, k) == r \in core /\ r.key = k /\ \A s \in core : s.key = k => s.ver <= r.ver

\* A key with a row has a newest one, and FINAL returns it.
LEMMA NewestExists ==
  ASSUME TypeOK, Finite, NEW k, NEW x \in core, x.key = k
  PROVE  \E r \in Final(k) : Newest(r, k)
<1>1. core \subseteq Row /\ IsFiniteSet(core)
  BY DEF TypeOK, Finite
<1>2. PICK r \in Unbeaten(core) : r = x \/ Beats(r, x)
  BY <1>1, SomeRowSurvives
<1>3. r \in core /\ r.key = k
  BY <1>2 DEF Unbeaten, Beats
<1>4. \A s \in core : s.key = k => s.ver <= r.ver
  <2> SUFFICES ASSUME NEW s \in core, s.key = k, ~ (s.ver <= r.ver) PROVE FALSE
    OBVIOUS
  <2>1. s.ver \in Int /\ r.ver \in Int
    BY <1>1, <1>3, CdcAssumption DEF Row
  <2>2. Beats(s, r)
    BY <1>3, <2>1 DEF Beats
  <2> QED
    BY <1>2, <2>2 DEF Unbeaten
<1> QED
  BY <1>2, <1>3, <1>4 DEF Final, Newest

\* All rows FINAL returns of a key are of its newest version, with the operation that
\* the source gave this version: rows of two runs or partitions do not disagree.
LEMMA FinalIsNewest ==
  ASSUME TypeOK, FromScript, NEW k, NEW r, Newest(r, k), NEW t \in Final(k)
  PROVE  t.ver = r.ver /\ t.del = IsDeleted(script[r.ver].op)
<1>1. t \in core /\ t.key = k /\ ~ Beats(r, t)
  BY DEF Final, Unbeaten, Newest
<1>2. t.ver \in Int /\ r.ver \in Int
  BY <1>1, CdcAssumption DEF TypeOK, Newest, Row
<1>3. t.ver <= r.ver /\ ~ (r.ver > t.ver)
  BY <1>1 DEF Newest, Beats
<1> QED
  BY <1>1, <1>2, <1>3 DEF FromScript

LEMMA ViewShowsLatest == ASSUME ViewInv PROVE CurrentIsLatest
<1> USE DEF ViewInv
<1> SUFFICES ASSUME rebuild = "idle", NEW k \in Keys,
                    {x \in landing : x.key = k} # {},
                    \A e \in landing : e.key = k => ~ Pending(e)
             PROVE  \E v \in 1..Len(script) :
                      /\ script[v].key = k
                      /\ \A n \in {e.seq : e \in {x \in landing : x.key = k}} : n <= v
                      /\ {r.ver : r \in Current(k)} = IF script[v].op = "d" THEN {} ELSE {v}
  BY DEF CurrentIsLatest
<1>1. \A e \in landing : e.key = k => Reflected(e)
  BY DEF LandingReflected
<1>2. PICK y \in core : y.key = k
  BY <1>1 DEF Reflected
<1>3. PICK r \in Final(k) : Newest(r, k)
  BY <1>2, NewestExists
<1>4. r.ver \in 1..Len(script) /\ script[r.ver].key = k
  BY <1>3 DEF Newest, FromScript
<1>5. ASSUME NEW e \in landing, e.key = k PROVE e.seq <= r.ver
  <2>1. PICK s \in core : s.key = e.key /\ s.ver >= e.seq
    BY <1>1, <1>5 DEF Reflected
  <2>2. s.ver <= r.ver
    BY <1>3, <1>5, <2>1 DEF Newest
  <2>3. s.ver \in Int /\ r.ver \in Int /\ e.seq \in Int
    BY <1>3, <2>1, CdcAssumption DEF Newest, TypeOK, Row, Event
  <2> QED
    BY <2>1, <2>2, <2>3
<1>6. \A t \in Final(k) : t.ver = r.ver /\ t.del = IsDeleted(script[r.ver].op)
  BY <1>3, FinalIsNewest
<1>7. {t.ver : t \in Current(k)} = IF script[r.ver].op = "d" THEN {} ELSE {r.ver}
  <2>1. CASE script[r.ver].op = "d"
    BY <1>6, <2>1 DEF Current, IsDeleted
  <2>2. CASE script[r.ver].op # "d"
    <3>1. Current(k) = Final(k)
      BY <1>6, <2>2 DEF Current, IsDeleted
    <3> QED
      BY <1>6, <2>2, <3>1, <1>3
  <2> QED
    BY <2>1, <2>2
<1>8. \A n \in {e.seq : e \in {z \in landing : z.key = k}} : n <= r.ver
  BY <1>5
<1> r.ver \in 1..Len(script)
  BY <1>4
<1> WITNESS r.ver \in 1..Len(script)
<1> QED
  BY <1>4, <1>7, <1>8

\* Outside a rebuild, a key none of whose landed versions is still to be pushed shows
\* the newest of them (or an even newer one), once, and nothing if that is a delete.
THEOREM LatestShown == Spec => []CurrentIsLatest
BY InitViewInv, NextViewInv, ViewShowsLatest, PTL DEF Spec

-----------------------------------------------------------------------------
(* The path implements CurrentState *)

\* What the refinement mapping shows of a key: the newest version in the core table.
LEMMA CurrentOfNewest ==
  ASSUME TypeOK, Finite, FromScript, NEW k, NEW r, Newest(r, k)
  PROVE  CurrentOf(k) = Abstract!Shown(r.ver)
<1>1. PICK t \in Final(k) : Newest(t, k)
  BY NewestExists DEF Newest
<1> DEFINE c == CHOOSE x \in Final(k) : TRUE
<1>2. c \in Final(k) /\ Final(k) # {}
  BY <1>1
<1>3. CurrentOf(k) = [ver |-> c.ver, live |-> c.del = 0]
  BY <1>2 DEF CurrentOf
<1> HIDE DEF c
<1>4. c.ver = r.ver /\ c.del = IsDeleted(script[r.ver].op)
  BY <1>2, FinalIsNewest
<1> QED
  BY <1>3, <1>4 DEF Abstract!Shown, IsDeleted

LEMMA CurrentOfAbsent ==
  ASSUME NEW k, \A r \in core : r.key # k
  PROVE  CurrentOf(k) = Abstract!Nothing
BY DEF CurrentOf, Final, Unbeaten, Abstract!Nothing

\* The mapping of every key, as a formula of the state, for use before and after a step.
MapsToNewest ==
    \A k \in Keys :
        \/ (\A r \in core : r.key # k) /\ CurrentOf(k) = Abstract!Nothing
        \/ \E r \in core : Newest(r, k) /\ CurrentOf(k) = Abstract!Shown(r.ver)

LEMMA MappedToNewest == ViewInv => MapsToNewest
<1> SUFFICES ASSUME ViewInv, NEW k \in Keys, ~ (\A r \in core : r.key # k)
             PROVE  \E r \in core : Newest(r, k) /\ CurrentOf(k) = Abstract!Shown(r.ver)
  BY CurrentOfAbsent DEF MapsToNewest
<1>1. PICK r \in Final(k) : Newest(r, k)
  BY NewestExists DEF ViewInv
<1> QED
  BY <1>1, CurrentOfNewest DEF ViewInv, Newest

\* An INSERT's part in one partition delivers its versions: every key moves to the
\* newest one of them, unless the core table has a newer one already.
LEMMA PushDelivers ==
  ASSUME ViewInv, MapsToNewest, MapsToNewest', TypeOK',
         NEW w \in Writers, NEW p \in Parts, Push(w, p)
  PROVE  \E versions \in SUBSET (1..Len(script)) : Abstract!Deliver(versions)
<1> DEFINE rows     == {e \in job[w].todo : e.part = p}
           versions == {e.seq : e \in rows}
           Newer(k) == {n \in versions : script[n].key = k /\ n > CurrentOf(k).ver}
           Moved(k) == IF Newer(k) = {} THEN CurrentOf(k)
                       ELSE Abstract!Shown(CHOOSE n \in Newer(k) : \A m \in Newer(k) : m <= n)
<1>1. core' = core \cup {ToCore(e, blocks[p] + 1) : e \in rows} /\ script' = script
  BY DEF Push
<1>2. \A e \in rows : e.seq \in 1..Len(script) /\ script[e.seq].key = e.key
  BY DEF ViewInv, TypeOK, FromScript
<1> HIDE DEF rows
<1>3. versions \in SUBSET (1..Len(script))
  BY <1>2
<1>9. \A n \in versions : n \in Int /\ n > 0
  BY <1>2 DEF ViewInv, TypeOK
<1>4. \A x \in core' : x.ver \in Int
  BY CdcAssumption DEF TypeOK, Row
<1>5. \A n \in versions : \E x \in core' : x.key = script[n].key /\ x.ver = n
  <2> SUFFICES ASSUME NEW e \in rows
               PROVE  \E x \in core' : x.key = script[e.seq].key /\ x.ver = e.seq
    OBVIOUS
  <2>1. ToCore(e, blocks[p] + 1) \in core'
    BY <1>1
  <2> QED
    BY <1>2, <2>1 DEF ToCore
<1>6. \A x \in core' \ core : x.ver \in versions /\ script[x.ver].key = x.key
  BY <1>1, <1>2 DEF ToCore
<1> HIDE DEF versions
<1>7. ASSUME NEW k \in Keys
      PROVE  CurrentOf(k)' = Moved(k)
  <2>1. CASE (\A r \in core' : r.key # k) /\ CurrentOf(k)' = Abstract!Nothing
    <3>1. CurrentOf(k) = Abstract!Nothing
      BY <1>1, <2>1, CurrentOfAbsent
    <3>2. Newer(k) = {}
      BY <1>5, <2>1
    <3> QED
      BY <2>1, <3>1, <3>2
  <2>2. ASSUME NEW r \in core', Newest(r, k)', CurrentOf(k)' = Abstract!Shown(r.ver)'
        PROVE  CurrentOf(k)' = Moved(k)
    <3>1. r.key = k /\ r.ver \in Int /\ \A x \in core' : x.key = k => x.ver <= r.ver
      BY <1>4, <2>2 DEF Newest
    <3>2. CurrentOf(k)' = Abstract!Shown(r.ver)
      BY <1>1, <2>2 DEF Abstract!Shown
    <3>3. \A n \in Newer(k) : n <= r.ver
      BY <1>5, <3>1
    <3>4. ASSUME r.ver \in Newer(k) PROVE CurrentOf(k)' = Moved(k)
      <4>1. \A n \in Newer(k) : n \in Int
        BY <1>9
      <4>2. (CHOOSE n \in Newer(k) : \A m \in Newer(k) : m <= n) = r.ver
        <5> DEFINE N == Newer(k)
        <5>1. r.ver \in N /\ (\A n \in N : n \in Int /\ n <= r.ver)
          BY <3>3, <3>4, <4>1
        <5> HIDE DEF N
        <5>2. \A n \in N : (\A m \in N : m <= n) => n = r.ver
          BY <5>1
        <5>3. (CHOOSE n \in N : \A m \in N : m <= n) = r.ver
          BY <5>1, <5>2
        <5> QED
          BY <5>3 DEF N
      <4> QED
        BY <3>2, <3>4, <4>2
    <3>5. CASE (\A q \in core : q.key # k) /\ CurrentOf(k) = Abstract!Nothing
      <4>1. r.ver \in versions /\ script[r.ver].key = k
        BY <1>6, <3>1, <3>5
      <4>2. r.ver > CurrentOf(k).ver
        <5>1. CurrentOf(k).ver = 0
          BY <3>5 DEF Abstract!Nothing
        <5>2. r.ver \in Int /\ r.ver > 0
          BY <1>9, <4>1
        <5> QED
          BY <5>1, <5>2
      <4> QED
        BY <3>4, <4>1, <4>2
    <3>6. ASSUME NEW q \in core, Newest(q, k), CurrentOf(k) = Abstract!Shown(q.ver)
          PROVE  CurrentOf(k)' = Moved(k)
      <4>1. q.key = k /\ q.ver \in Int /\ q.ver <= r.ver /\ CurrentOf(k).ver = q.ver
        BY <1>1, <1>4, <3>1, <3>6 DEF Newest, Abstract!Shown
      <4>2. CASE r.ver = q.ver
        <5>1. \A n \in Newer(k) : n \in Int /\ n > q.ver /\ n <= q.ver
          BY <1>9, <3>3, <4>1, <4>2
        <5>2. Newer(k) = {}
          BY <4>1, <5>1
        <5> QED
          BY <3>2, <3>6, <4>2, <5>2
      <4>3. CASE r.ver > q.ver
        <5>1. r \notin core
          BY <3>1, <3>6, <4>1, <4>3 DEF Newest
        <5> QED
          BY <1>6, <3>1, <3>4, <4>1, <4>3, <5>1
      <4> QED
        BY <3>1, <4>1, <4>2, <4>3
    <3> QED
      BY <3>5, <3>6 DEF MapsToNewest
  <2> QED
    BY <2>1, <2>2 DEF MapsToNewest
<1>8. [k \in Keys |-> CurrentOf(k)]' =
        [k \in Keys |-> LET cur == [j \in Keys |-> CurrentOf(j)]
                            N == {n \in versions : script[n].key = k /\ n > cur[k].ver}
                        IN  IF N = {} THEN cur[k]
                            ELSE Abstract!Shown(CHOOSE n \in N : \A m \in N : m <= n)]
  BY <1>7
<1> QED
  BY <1>1, <1>3, <1>8 DEF Abstract!Deliver

\* One step of the path is one step of the register, or changes nothing it knows of.
\* Only the rebuild's TRUNCATE is neither.
LEMMA StepSimulates ==
  ASSUME ViewInv, MapsToNewest, MapsToNewest', TypeOK', [Next]_vars, ~ Truncate
  PROVE  [Abstract!Next]_(Abstract!vars)
<1> DEFINE cur == [k \in Keys |-> CurrentOf(k)]
<1>1. ASSUME NEW k \in Keys, NEW op \in Ops, NEW p \in Parts, Emit(k, op, p)
      PROVE  Abstract!Next
  <2>1. /\ Len(script) < MaxSeq /\ script' = Append(script, [key |-> k, op |-> op])
        /\ core' = core
    BY <1>1 DEF Emit
  <2>2. cur' = cur
    BY <2>1 DEF CurrentOf, Final, Unbeaten
  <2> QED
    BY <2>1, <2>2 DEF Abstract!Next, Abstract!Change
<1>2. ASSUME NEW w \in Writers, NEW p \in Parts, Push(w, p)
      PROVE  Abstract!Next
  BY <1>2, PushDelivers DEF Abstract!Next
<1>3. ASSUME NEW p \in Parts, NEW lo, NEW hi, Merge(p, lo, hi)
      PROVE  UNCHANGED Abstract!vars
  <2> TypeOK /\ Finite
    BY DEF ViewInv
  <2>1. Unbeaten(core') = Unbeaten(core)
    BY <1>3, MergeKeepsUnbeaten
  <2>2. Unbeaten(core)' = Unbeaten(core')
    BY DEF Unbeaten
  <2>3. cur' = cur
    BY <2>1, <2>2 DEF CurrentOf, Final
  <2> QED
    BY <1>3, <2>3 DEF Abstract!vars, Merge
<1>4. CASE core' = core /\ script' = script
  <2>1. cur' = cur
    BY <1>4 DEF CurrentOf, Final, Unbeaten
  <2> QED
    BY <1>4, <2>1 DEF Abstract!vars
<1> QED
  BY <1>1, <1>2, <1>3, <1>4
     DEF Next, vars, EmitAgain, Insert, Break, Retry, Expire, Reinsert

\* Without a rebuild, the L0 -> L1 path with its batches, retries, redeliveries,
\* partitions, merges, expired rows and repeated runs of the generator implements the
\* register of CurrentState, which only moves to newer versions.
THEOREM Refinement ==
  ASSUME MaxRebuilds = 0
  PROVE  Spec => RefinesCurrentState
<1>1. Init => Abstract!Init
  <2> SUFFICES ASSUME Init PROVE Abstract!Init
    OBVIOUS
  <2>1. script = <<>> /\ \A k \in Keys : CurrentOf(k) = Abstract!Nothing
    BY CurrentOfAbsent DEF Init
  <2> QED
    BY <2>1 DEF Abstract!Init
<1>2. ViewInv /\ MapsToNewest /\ MapsToNewest' /\ ViewInv' /\ [Next]_vars
        => [Abstract!Next]_(Abstract!vars)
  <2> SUFFICES ASSUME ViewInv, MapsToNewest, MapsToNewest', ViewInv', [Next]_vars
               PROVE  [Abstract!Next]_(Abstract!vars)
    OBVIOUS
  <2>1. ~ Truncate
    BY DEF Truncate, ViewInv, TypeOK
  <2> QED
    BY <2>1, StepSimulates DEF ViewInv
<1> QED
  BY <1>1, <1>2, InitViewInv, NextViewInv, MappedToNewest, PTL
     DEF Spec, RefinesCurrentState, Abstract!Spec

=============================================================================
