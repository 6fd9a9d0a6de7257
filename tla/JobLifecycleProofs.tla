------------------------- MODULE JobLifecycleProofs -------------------------
(***************************************************************************)
(* What the life of a job implies, for every number of jobs.               *)
(***************************************************************************)
EXTENDS JobLifecycle, FiniteSetTheorems, TLAPS

LifeInv == TypeOK /\ OneStage

LEMMA LifeInit == Init => LifeInv
BY DEF Init, LifeInv, TypeOK, OneStage

LEMMA LifeStep == LifeInv /\ [Next]_jobVars => LifeInv'
<1> SUFFICES ASSUME LifeInv, [Next]_jobVars PROVE LifeInv'
    OBVIOUS
<1> USE DEF LifeInv, TypeOK, OneStage
<1>1. CASE Issue
    BY <1>1 DEF Issue, Fails
<1>2. ASSUME NEW id \in 1..issued, Return(id)
      PROVE  LifeInv'
    BY <1>2 DEF Return, Fails
<1>3. ASSUME NEW id \in 1..issued, GiveUp(id)
      PROVE  LifeInv'
    BY <1>3 DEF GiveUp
<1>4. ASSUME NEW id \in 1..issued, Take(id)
      PROVE  LifeInv'
    BY <1>4 DEF Take, Leaves
<1>5. ASSUME NEW id \in 1..issued, LoseWaiting(id)
      PROVE  LifeInv'
    BY <1>5 DEF LoseWaiting, Leaves, Fails
<1>6. ASSUME NEW id \in 1..issued, Leave(id)
      PROVE  LifeInv'
    BY <1>6 DEF Leave, Leaves, Fails
<1>7. CASE Survive
    BY <1>7 DEF Survive, Fails
<1>8. CASE UNCHANGED jobVars
    BY <1>8 DEF jobVars
<1> QED
    BY <1>1, <1>2, <1>3, <1>4, <1>5, <1>6, <1>7, <1>8 DEF Next

(* A job that was pushed once is at one stage at a time (worker.go:91).    *)
THEOREM AtOneStage == Spec => [](TypeOK /\ OneStage)
BY LifeInit, LifeStep, PTL DEF Spec, LifeInv

-----------------------------------------------------------------------------
LEMMA MissingFinite == TypeOK => IsFiniteSet(Missing) /\ Cardinality(Missing) \in Nat
<1> SUFFICES ASSUME TypeOK PROVE IsFiniteSet(Missing) /\ Cardinality(Missing) \in Nat
    OBVIOUS
<1>1. IsFiniteSet(1..issued)
    BY FS_Interval DEF TypeOK
<1> QED
    BY <1>1, FS_Subset, FS_CardinalityType DEF Missing

\* A step that loses nothing, and one that loses a job and is paid for.
LEMMA NothingLost ==
    ASSUME TypeOK, Accounted, Missing' \subseteq Missing, faults' \in {faults, faults + 1}
    PROVE  Accounted'
<1>1. Cardinality(Missing') \in Nat /\ Cardinality(Missing') <= Cardinality(Missing)
    BY MissingFinite, FS_Subset, FS_CardinalityType
<1> QED
    BY <1>1, MissingFinite DEF Accounted, TypeOK

LEMMA OneLost ==
    ASSUME TypeOK, Accounted, NEW id, Missing' \subseteq Missing \cup {id}, Fails
    PROVE  Accounted'
<1>1. /\ IsFiniteSet(Missing \cup {id})
      /\ Cardinality(Missing \cup {id}) <= Cardinality(Missing) + 1
    BY MissingFinite, FS_AddElement
<1>2. Cardinality(Missing \cup {id}) \in Nat
    BY <1>1, FS_CardinalityType
<1>3. Cardinality(Missing') \in Nat /\ Cardinality(Missing') <= Cardinality(Missing \cup {id})
    BY <1>1, FS_Subset, FS_CardinalityType
<1> QED
    BY <1>1, <1>2, <1>3, MissingFinite DEF Accounted, TypeOK, Fails

LEMMA AccountedInit == Init => Accounted
<1> SUFFICES ASSUME Init PROVE Accounted
    OBVIOUS
<1>1. Missing = {}
    BY DEF Init, Missing
<1> QED
    BY <1>1, FS_EmptySet DEF Init, Accounted

LEMMA AccountedStep == TypeOK /\ Accounted /\ [Next]_jobVars => Accounted'
<1> SUFFICES ASSUME TypeOK, Accounted, [Next]_jobVars PROVE Accounted'
    OBVIOUS
<1>1. CASE Issue
    <2>1. CASE waiting' = waiting \cup {issued'}
        <3>1. Missing' \subseteq Missing
            BY <1>1, <2>1 DEF Issue, Missing, TypeOK
        <3> QED
            BY <1>1, <3>1, NothingLost DEF Issue, Fails
    <2>2. CASE Fails /\ UNCHANGED waiting
        <3>1. Missing' \subseteq Missing \cup {issued'}
            BY <1>1, <2>2 DEF Issue, Missing, TypeOK
        <3> QED
            BY <2>2, <3>1, OneLost
    <2> QED
        BY <1>1, <2>1, <2>2 DEF Issue
<1>2. ASSUME NEW id \in 1..issued, Return(id) \/ GiveUp(id) \/ Take(id)
      PROVE  Accounted'
    <2>1. Missing' \subseteq Missing
        BY <1>2 DEF Return, GiveUp, Take, Leaves, Missing
    <2> QED
        BY <1>2, <2>1, NothingLost DEF Return, GiveUp, Take, Fails
<1>3. ASSUME NEW id \in 1..issued, LoseWaiting(id)
      PROVE  Accounted'
    <2>1. Missing' \subseteq Missing \cup {id}
        BY <1>3 DEF LoseWaiting, Leaves, Missing
    <2> QED
        BY <1>3, <2>1, OneLost DEF LoseWaiting
<1>4. ASSUME NEW id \in 1..issued, Leave(id)
      PROVE  Accounted'
    <2>1. CASE settled' = settled \cup {id} /\ UNCHANGED faults
        <3>1. Missing' \subseteq Missing
            BY <1>4, <2>1 DEF Leave, Leaves, Missing
        <3> QED
            BY <2>1, <3>1, NothingLost
    <2>2. CASE Fails /\ UNCHANGED settled
        <3>1. Missing' \subseteq Missing \cup {id}
            BY <1>4, <2>2 DEF Leave, Leaves, Missing
        <3> QED
            BY <2>2, <3>1, OneLost
    <2> QED
        BY <1>4, <2>1, <2>2 DEF Leave
<1>5. CASE Survive \/ UNCHANGED jobVars
    <2>1. Missing' \subseteq Missing
        BY <1>5 DEF Survive, jobVars, Missing
    <2> QED
        BY <1>5, <2>1, NothingLost DEF Survive, jobVars, Fails
<1> QED
    BY <1>1, <1>2, <1>3, <1>4, <1>5 DEF Next

(* Each job that is at no stage has been paid for by a fault               *)
(* (worker.go run, recordFailure; queue.go Push, Pop).                     *)
THEOREM NoneLostInSilence == Spec => []Accounted
BY AtOneStage, AccountedInit, AccountedStep, PTL DEF Spec
=============================================================================
