-------------------------- MODULE OmpBarrierProofs --------------------------
(***************************************************************************)
(* For any number of threads and any number of harness iterations: the     *)
(* sense-reversing barrier of gtmp1.c keeps its inductive invariant, the   *)
(* MCS tree barrier of gtmp2.c loses no report, and whichever of the two   *)
(* is linked, the harness sees only steps of the abstract barrier.         *)
(***************************************************************************)
EXTENDS MCOmpBarriers, FiniteSetTheorems, WellFoundedInduction, TLAPS

-----------------------------------------------------------------------------
(* The sense-reversing barrier of gtmp1.c *)

WaitingSet == {t \in Threads : Waiting(t)}

\* The team is finite and has num_threads members.
LEMMA TeamSize ==
    /\ num_threads \in Nat /\ num_threads > 0
    /\ IsFiniteSet(Threads) /\ Cardinality(Threads) = num_threads
  <1>1. NumParties \in Nat /\ NumParties > 0
    BY HarnessAssumption
  <1>2. IsFiniteSet(0 .. NumParties - 1) /\ Cardinality(0 .. NumParties - 1) = NumParties
    BY <1>1, FS_Interval
  <1> QED
    BY <1>1, <1>2 DEF num_threads, Threads, Parties

\* The threads that wait form a finite set, no larger than the team, and the
\* whole team exactly when the sizes are equal.
LEMMA WaitingFinite ==
    /\ IsFiniteSet(WaitingSet)
    /\ Cardinality(WaitingSet) \in Nat
    /\ Cardinality(WaitingSet) <= num_threads
  <1>1. WaitingSet \subseteq Threads
    BY DEF WaitingSet
  <1> QED
    BY <1>1, TeamSize, FS_Subset, FS_CardinalityType

\* A set of all but one member of the team is everyone else.
LEMMA AllButOne ==
    ASSUME NEW S \in SUBSET Threads, NEW t \in Threads, t \notin S,
           Cardinality(S) + 1 = num_threads
    PROVE  \A u \in Threads \ {t} : u \in S
  <1>1. IsFiniteSet(S) /\ Cardinality(S) \in Nat
    BY TeamSize, FS_Subset, FS_CardinalityType
  <1>2. Cardinality(S \cup {t}) = Cardinality(S) + 1
    BY <1>1, FS_AddElement
  <1>3. S \cup {t} \subseteq Threads
    OBVIOUS
  <1>4. S \cup {t} = Threads
    BY <1>2, <1>3, TeamSize, FS_Subset
  <1> QED
    BY <1>4

\* Initially no thread is in the barrier and count is the whole team.
LEMMA InitIInv == Init => IInv
  <1> SUFFICES ASSUME Init PROVE IInv
    OBVIOUS
  <1> USE TeamSize, HarnessAssumption DEF Init
  <1>1. TypeOK
    <2>1. sense \in BOOLEAN /\ my_sense \in [Threads -> BOOLEAN]
      BY Zenon
    <2>2. count \in 0 .. num_threads
      OBVIOUS
    <2>3. pc \in [Threads -> Labels] /\ it \in [Threads -> 0 .. NumIter]
      BY DEF Labels
    <2> QED
      BY <2>1, <2>2, <2>3, Zenon DEF TypeOK
  <1>2. Agreement /\ SenseFresh /\ CountClosed /\ InBounds
    BY DEF Agreement, Episodes, Released, SenseFresh, CountClosed, InBounds, Inside
  <1>3. CountOpen
    <2>1. {t \in Threads : Waiting(t)} = {}
      BY DEF Waiting
    <2> QED
      BY <2>1, FS_EmptySet DEF CountOpen
  <1> QED
    BY <1>1, <1>2, <1>3 DEF IInv

\* Reading sense on entry leaves every count and every waiter alone.
LEMMA EnterIInv == ASSUME IInv, NEW t \in Threads, Enter(t) PROVE IInv'
  <1> USE TeamSize, HarnessAssumption DEF Enter, IInv, TypeOK
  <1>1. TypeOK'
    BY DEF Labels
  <1>2. \A u \in Threads : Waiting(u)' = Waiting(u) /\ Released(u)' = Released(u)
    BY DEF Waiting, Released
  <1>3. Agreement' /\ SenseFresh' /\ InBounds'
    BY <1>2 DEF Agreement, Episodes, Released, SenseFresh, InBounds, Inside
  <1>4. CountClosed'
    BY <1>2 DEF CountClosed, Waiting
  <1>5. CountOpen'
    <2>1. {u \in Threads : Waiting(u)}' = {u \in Threads : Waiting(u)}
      BY <1>2
    <2>2. \A u \in Threads : pc'[u] \in {"reset", "flip"} <=> pc[u] \in {"reset", "flip"}
      OBVIOUS
    <2> QED
      BY <2>1, <2>2 DEF CountOpen
  <1> QED
    BY <1>1, <1>3, <1>4, <1>5

\* The fetch-and-sub either adds a waiter or makes t the last thread, when
\* everyone else is known to wait.
LEMMA ArriveIInv == ASSUME IInv, NEW t \in Threads, Arrive(t) PROVE IInv'
  <1> USE TeamSize, HarnessAssumption, WaitingFinite DEF Arrive, IInv, TypeOK
  <1>1. my_sense[t] # sense
    BY DEF SenseFresh
  <1>2. \A u \in Threads : pc[u] \notin {"reset", "flip"}
    BY DEF CountClosed, Waiting
  <1>3. count + Cardinality(WaitingSet) = num_threads /\ count > 0
    BY <1>2 DEF CountOpen, WaitingSet
  <1>4. TypeOK'
    BY <1>3 DEF Labels
  <1>5. \A u \in Threads : Released(u)' = Released(u)
    BY <1>1 DEF Released
  <1>6. Agreement' /\ SenseFresh' /\ InBounds'
    BY <1>5, <1>1 DEF Agreement, Episodes, SenseFresh, InBounds, Inside
  <1>7. CASE count = 1
    <2>1. \A u \in Threads \ {t} : Waiting(u)
      <3>1. t \notin WaitingSet
        BY DEF WaitingSet, Waiting
      <3>2. WaitingSet \in SUBSET Threads
        BY DEF WaitingSet
      <3> QED
        BY <3>1, <3>2, <1>3, <1>7, AllButOne DEF WaitingSet
    <2>2. \A u \in Threads \ {t} : Waiting(u)' /\ pc'[u] = "spin"
      BY <2>1 DEF Waiting
    <2>3. CountClosed'
      BY <2>2, <1>7 DEF CountClosed
    <2>4. CountOpen'
      BY <1>7 DEF CountOpen
    <2> QED
      BY <1>4, <1>6, <2>3, <2>4
  <1>8. CASE count # 1
    <2>1. WaitingSet' = WaitingSet \cup {t}
      BY <1>1, <1>8 DEF WaitingSet, Waiting
    <2>2. t \notin WaitingSet
      BY DEF WaitingSet, Waiting
    <2>3. Cardinality(WaitingSet') = Cardinality(WaitingSet) + 1
      BY <2>1, <2>2, FS_AddElement
    <2>4. CountOpen'
      BY <2>3, <1>3, <1>8 DEF CountOpen, WaitingSet
    <2>5. CountClosed'
      BY <1>2, <1>8 DEF CountClosed
    <2> QED
      BY <1>4, <1>6, <2>4, <2>5
  <1> QED
    BY <1>7, <1>8

\* The last thread restores count while everyone else still waits.
LEMMA ResetIInv == ASSUME IInv, NEW t \in Threads, Reset(t) PROVE IInv'
  <1> USE TeamSize, HarnessAssumption DEF Reset, IInv, TypeOK
  <1>1. TypeOK'
    BY DEF Labels
  <1>2. \A u \in Threads : Waiting(u)' = Waiting(u) /\ Released(u)' = Released(u)
    BY DEF Waiting, Released
  <1>3. Agreement' /\ SenseFresh' /\ InBounds'
    BY <1>2 DEF Agreement, Episodes, Released, SenseFresh, InBounds, Inside
  <1>4. \A u \in Threads \ {t} : Waiting(u) /\ pc'[u] = "spin"
    BY DEF CountClosed, Waiting
  <1>5. CountClosed'
    BY <1>2, <1>4 DEF CountClosed
  <1>6. CountOpen'
    BY DEF CountOpen
  <1> QED
    BY <1>1, <1>3, <1>5, <1>6

\* Flipping sense releases all the waiters at once and ends the episode.
LEMMA FlipIInv == ASSUME IInv, NEW t \in Threads, Flip(t) PROVE IInv'
  <1> USE TeamSize, HarnessAssumption DEF Flip, IInv, TypeOK
  <1>1. it[t] < NumIter
    BY DEF InBounds, Inside
  <1>2. TypeOK'
    BY <1>1 DEF Labels
  <1>3. \A u \in Threads \ {t} : Waiting(u) /\ pc[u] = "spin" /\ pc'[u] = "spin"
    BY DEF CountClosed, Waiting
  <1>4. my_sense[t] # sense
    BY DEF SenseFresh
  <1>5. \A u \in Threads \ {t} : Released(u)' /\ ~Waiting(u)' /\ ~Released(u)
    BY <1>3, <1>4 DEF Waiting, Released
  <1>6. ~Released(t) /\ ~Released(t)' /\ ~Waiting(t)'
    BY DEF Released, Waiting
  <1>7. Agreement'
    <2>1. \A u \in Threads : Episodes(u)' = Episodes(u) + 1
      BY <1>5, <1>6 DEF Episodes
    <2> QED
      BY <2>1 DEF Agreement
  <1>8. SenseFresh' /\ CountClosed'
    BY <1>3 DEF SenseFresh, CountClosed
  <1>9. InBounds'
    BY DEF InBounds, Inside
  <1>10. CountOpen'
    <2>1. {u \in Threads : Waiting(u)}' = {}
      BY <1>5, <1>6
    <2>2. Cardinality({u \in Threads : Waiting(u)}') = 0
      BY <2>1, FS_EmptySet
    <2>3. count' = num_threads
      BY DEF CountClosed
    <2>4. count' + Cardinality({u \in Threads : Waiting(u)}') = num_threads /\ count' > 0
      BY <2>2, <2>3
    <2> QED
      BY <2>4 DEF CountOpen, num_threads
  <1> QED
    BY <1>2, <1>7, <1>8, <1>9, <1>10

\* Leaving the spin loop turns a released thread into one that has one more
\* call behind it.
LEMMA LeaveIInv == ASSUME IInv, NEW t \in Threads, Leave(t) PROVE IInv'
  <1> USE TeamSize, HarnessAssumption DEF Leave, IInv, TypeOK
  <1>1. it[t] < NumIter
    BY DEF InBounds, Inside
  <1>2. TypeOK'
    BY <1>1 DEF Labels
  <1>3. \A u \in Threads : Waiting(u)' = Waiting(u)
    BY DEF Waiting
  <1>4. \A u \in Threads : Episodes(u)' = Episodes(u)
    BY DEF Episodes, Released
  <1>5. Agreement' /\ SenseFresh'
    BY <1>4 DEF Agreement, SenseFresh
  <1>6. InBounds'
    BY DEF InBounds, Inside
  <1>7. CountClosed'
    BY <1>3 DEF CountClosed, Waiting
  <1>8. CountOpen'
    <2>1. {u \in Threads : Waiting(u)}' = {u \in Threads : Waiting(u)}
      BY <1>3
    <2>2. \A u \in Threads : pc'[u] \in {"reset", "flip"} <=> pc[u] \in {"reset", "flip"}
      OBVIOUS
    <2> QED
      BY <2>1, <2>2 DEF CountOpen
  <1> QED
    BY <1>2, <1>5, <1>6, <1>7, <1>8

\* A step that changes nothing keeps the invariant.
LEMMA StutterIInv == ASSUME IInv, UNCHANGED vars PROVE IInv'
  BY DEF IInv, vars, TypeOK, Agreement, Episodes, Released, SenseFresh, CountOpen,
         CountClosed, Waiting, InBounds, Inside

\* Every step of the barrier keeps the inductive invariant.
LEMMA NextIInv == ASSUME IInv, [Next]_vars PROVE IInv'
  BY EnterIInv, ArriveIInv, ResetIInv, FlipIInv, LeaveIInv, StutterIInv
     DEF Next, Step, Done

\* gtmp_barrier keeps the bookkeeping of count and sense consistent for every
\* team size: IInv is an invariant.
THEOREM Invariance == Spec => []IInv
  BY InitIInv, NextIInv, PTL DEF Spec

\* No thread is ever past a call of gtmp_barrier that another thread has yet
\* to make.
THEOREM Safety == Spec => []BarrierSafety
  <1>1. IInv => BarrierSafety
    <2> SUFFICES ASSUME IInv, NEW t \in Threads, NEW u \in Threads
                 PROVE  it[t] <= it[u] + (IF Inside(u) THEN 1 ELSE 0)
      BY DEF BarrierSafety
    <2>1. it[t] \in Nat /\ it[u] \in Nat
      BY HarnessAssumption DEF IInv, TypeOK
    <2>2. it[t] <= Episodes(t) /\ Episodes(t) = Episodes(u) /\ Episodes(u) \in Nat
      BY <2>1 DEF IInv, Agreement, Episodes
    <2>3. Episodes(u) <= it[u] + (IF Inside(u) THEN 1 ELSE 0)
      BY <2>1 DEF Episodes, Released, Inside
    <2> QED
      BY <2>1, <2>2, <2>3
  <1> QED
    BY Invariance, <1>1, PTL

\* Initially nobody has made a call.
LEMMA InitAbstract == Init => Abstract!Init
  BY DEF Init, Inside, Abstract!Init

\* Each step of gtmp_barrier is a step of the abstract barrier or changes
\* nothing in it: a return happens only when everyone has made the call.
LEMMA StepAbstract == ASSUME IInv, [Next]_vars PROVE [Abstract!Next]_(Abstract!vars)
  <1> DEFINE ent == [t \in Threads |-> it[t] + (IF Inside(t) THEN 1 ELSE 0)]
  <1>1. it \in [Threads -> Nat] /\ \A t \in Threads : it[t] <= NumIter
    BY HarnessAssumption DEF IInv, TypeOK
  <1>2. CASE UNCHANGED vars
    BY <1>2 DEF Abstract!vars, vars, Inside
  <1>3. ASSUME NEW t \in Threads, Enter(t) PROVE Abstract!Enter(t)
    <2>1. pc \in [Threads -> Labels]
      BY DEF IInv, TypeOK
    <2>2. ent[t] = it[t] /\ ent' = [ent EXCEPT ![t] = @ + 1]
      <3>1. it' = it /\ ~Inside(t) /\ Inside(t)'
        BY <1>3, <2>1 DEF Enter, Inside
      <3>2. \A u \in Threads \ {t} : Inside(u)' = Inside(u)
        BY <1>3, <2>1 DEF Enter, Inside
      <3>3. ent[t] = it[t] /\ ent'[t] = ent[t] + 1
        BY <3>1, <1>1
      <3>4. \A u \in Threads \ {t} : ent'[u] = ent[u]
        BY <3>1, <3>2
      <3> QED
        BY <3>3, <3>4
    <2> QED
      BY <1>3, <2>2 DEF Enter, Abstract!Enter
  <1>4. ASSUME NEW t \in Threads, Arrive(t) \/ Reset(t) PROVE UNCHANGED Abstract!vars
    <2>1. pc \in [Threads -> Labels]
      BY DEF IInv, TypeOK
    <2>2. \A u \in Threads : Inside(u)' = Inside(u)
      BY <1>4, <2>1 DEF Arrive, Reset, Inside
    <2>3. it' = it
      BY <1>4 DEF Arrive, Reset
    <2> QED
      BY <2>2, <2>3 DEF Abstract!vars
  <1>5. ASSUME NEW t \in Threads, Flip(t) \/ Leave(t) PROVE Abstract!Leave(t)
    <2>1. pc \in [Threads -> Labels]
      BY DEF IInv, TypeOK
    <2>2. Inside(t) /\ it' = [it EXCEPT ![t] = @ + 1] /\ pc' = [pc EXCEPT ![t] = "loop"]
      BY <1>5 DEF Flip, Leave, Inside
    <2>3. ent[t] = it[t] + 1 /\ ent' = ent
      BY <2>1, <2>2, <1>1 DEF Inside
    <2>4. \A u \in Threads : ent[t] <= ent[u]
      <3>1. CASE Flip(t)
        <4>1. \A u \in Threads \ {t} : Waiting(u)
          BY <3>1 DEF Flip, IInv, CountClosed
        <4>2. \A u \in Threads : ~Released(u) /\ Inside(u)
          BY <3>1, <4>1 DEF Flip, Waiting, Released, Inside
        <4>3. \A u \in Threads : it[u] = it[t]
          BY <4>2, <1>1 DEF IInv, Agreement, Episodes
        <4> QED
          BY <4>2, <4>3, <1>1
      <3>2. CASE Leave(t)
        <4>1. Episodes(t) = it[t] + 1
          BY <3>2 DEF Leave, Episodes, Released
        <4>2. \A u \in Threads : Episodes(u) = it[t] + 1
          BY <4>1 DEF IInv, Agreement
        <4>3. \A u \in Threads : Episodes(u) <= ent[u]
          BY <1>1 DEF Episodes, Released, Inside
        <4> QED
          BY <4>2, <4>3, <2>3
      <3> QED
        BY <1>5, <3>1, <3>2
    <2> QED
      BY <2>2, <2>3, <2>4, <1>1 DEF Abstract!Leave
  <1> QED
    BY <1>2, <1>3, <1>4, <1>5 DEF Next, Step, Done, Abstract!Next

\* The sense-reversing barrier takes only steps of the abstract barrier.
THEOREM RefinesBarrierSteps == Spec => Abstract!Init /\ [][Abstract!Next]_(Abstract!vars)
  BY Invariance, InitAbstract, StepAbstract, PTL DEF Spec

-----------------------------------------------------------------------------
(* The MCS tree barrier of gtmp2.c *)

WakeupParent(t) == (t - 1) \div 2
WakeupSlot(t) == (t - 1) % 2

\* How many calls t has been woken for, and how often its wakeup parent has
\* written parent_sense[t].
Woken(t) == tree_it[t] + (IF tree_pc[t] = "wake" THEN 1 ELSE 0)
Signals(t) == tree_it[WakeupParent(t)]
                + (IF woken[WakeupParent(t)] > WakeupSlot(t) THEN 1 ELSE 0)

TreeLabels == {"loop", "gather", "rearm", "report", "spin", "wake"}

TreeTypeOK ==
    /\ cn \in [Threads -> [Tree!Slots -> BOOLEAN]]
    /\ node_sense \in [Threads -> {0, 1}]
    /\ parent_sense \in [Threads -> {0, 1}]
    /\ tree_pc \in [Threads -> TreeLabels]
    /\ woken \in [Threads -> 0 .. 2]
    /\ tree_it \in [Threads -> 0 .. NumIter]

\* The root has no parent to report to; only a thread that wakes others has
\* woken some; a thread inside is in a call the harness makes.
TreeControl ==
    /\ tree_pc[0] \notin {"report", "spin"}
    /\ \A t \in Threads : woken[t] > 0 => tree_pc[t] = "wake"
    /\ \A t \in Threads : tree_pc[t] # "loop" => tree_it[t] < NumIter

\* Only flags of existing children are ever set, and none is set between the
\* end of the wait for the children and the store that sets them up again.
Flags ==
    \A t \in Threads, k \in Tree!Slots :
        cn[t][k] => Tree!hc[t][k] /\ tree_pc[t] # "rearm"

\* The parity of the calls tells which sense is meant.
Senses ==
    /\ \A t \in Threads : node_sense[t] = (tree_it[t] + 1) % 2
    /\ \A t \in Threads \ {0} : parent_sense[t] = Signals(t) % 2

\* Nobody is woken before its wakeup parent has said so, nor before the root
\* has gathered all reports.
WokenInOrder ==
    /\ \A t \in Threads \ {0} : Woken(t) <= Signals(t)
    /\ \A t \in Threads : Woken(t) <= Tree!Rearmed(0)

\* NoReportLost, with a name for the flag a thread reports with.
Flag(t) == cn[Tree!ArrivalParent(t)][Tree!ArrivalSlot(t)]
Reports ==
    \A t \in Threads \ {0} :
        IF Flag(t) THEN Tree!Reported(t) = Tree!Rearmed(Tree!ArrivalParent(t))
                   ELSE Tree!Reported(t) = Tree!Rearmed(Tree!ArrivalParent(t)) + 1

\* The inductive invariant of the tree barrier.
TreeInv == TreeTypeOK /\ TreeControl /\ Flags /\ Senses /\ WokenInOrder /\ Reports

\* The barrier that is not linked stays in its initial state.
Unlinked ==
    /\ linked \in {"gtmp1.c", "gtmp2.c"}
    /\ linked = "gtmp1.c" =>
         \A t \in Threads : tree_it[t] = 0 /\ tree_pc[t] = "loop"
    /\ linked = "gtmp2.c" =>
         \A t \in Threads : it[t] = 0 /\ pc[t] = "loop"

-----------------------------------------------------------------------------
(* The shape of the two trees *)

\* Threads are the numbers below NumParties.
LEMMA Team ==
    /\ NumParties \in Nat /\ NumParties > 0 /\ NumIter \in Nat
    /\ \A t : t \in Threads <=> t \in Nat /\ t < NumParties
    /\ 0 \in Threads
  BY HarnessAssumption DEF Threads, Parties

\* A thread other than the root has an arrival parent with a smaller number
\* and a flag of its own there.
LEMMA Arrival ==
    ASSUME NEW t \in Threads, t # 0
    PROVE  /\ Tree!ArrivalParent(t) \in Threads /\ Tree!ArrivalParent(t) < t
           /\ Tree!ArrivalSlot(t) \in Tree!Slots
           /\ t = 4 * Tree!ArrivalParent(t) + 1 + Tree!ArrivalSlot(t)
           /\ Tree!hc[Tree!ArrivalParent(t)][Tree!ArrivalSlot(t)]
  <1> DEFINE p == (t - 1) \div 4
  <1> DEFINE k == (t - 1) % 4
  <1>1. t \in Nat /\ t < NumParties
    BY Team
  <1>2. p \in Nat /\ k \in 0 .. 3 /\ t - 1 = 4 * p + k
    BY <1>1
  <1> HIDE DEF p, k
  <1>3. p < t /\ p \in Threads /\ t = 4 * p + 1 + k
    BY <1>1, <1>2, Team
  <1>4. Tree!hc[p][k]
    BY <1>1, <1>2, <1>3 DEF Tree!hc, Tree!Threads, Tree!Parties, Tree!Slots, Threads, Parties
  <1> QED
    BY <1>2, <1>3, <1>4 DEF p, k, Tree!ArrivalParent, Tree!ArrivalSlot, Tree!Slots

\* Distinct threads have distinct flags.
LEMMA ArrivalInjective ==
    ASSUME NEW t \in Threads, NEW u \in Threads, t # 0, u # 0,
           Tree!ArrivalParent(t) = Tree!ArrivalParent(u),
           Tree!ArrivalSlot(t) = Tree!ArrivalSlot(u)
    PROVE  t = u
  BY Arrival, Team

\* A thread other than the root has a wakeup parent, and is its child in one
\* turn of the loop over wakeup_ptrs.
LEMMA Wakeup ==
    ASSUME NEW t \in Threads, t # 0
    PROVE  /\ WakeupParent(t) \in Threads /\ WakeupParent(t) < t
           /\ WakeupSlot(t) \in {0, 1}
           /\ \A p \in Threads, k \in {0, 1} :
                t = Tree!WakeupChild(p, k) <=> p = WakeupParent(t) /\ k = WakeupSlot(t)
  <1> DEFINE p == (t - 1) \div 2
  <1> DEFINE k == (t - 1) % 2
  <1>1. t \in Nat /\ t < NumParties
    BY Team
  <1>2. p \in Nat /\ k \in {0, 1} /\ t - 1 = 2 * p + k
    BY <1>1
  <1>3. \A q \in Nat, j \in {0, 1} : t = 2 * q + 1 + j => q = p /\ j = k
    BY <1>1
  <1> HIDE DEF p, k
  <1>4. p < t /\ p \in Threads
    BY <1>1, <1>2, Team
  <1>5. \A q \in Threads, j \in {0, 1} : t = 2 * q + 1 + j <=> q = p /\ j = k
    BY <1>1, <1>2, <1>3, Team
  <1> QED
    BY <1>2, <1>4, <1>5 DEF p, k, WakeupParent, WakeupSlot, Tree!WakeupChild

\* A nonempty set of threads has a least member.
LEMMA LeastThread ==
    ASSUME NEW S \in SUBSET Threads, S # {}
    PROVE  \E t \in S : \A u \in S : t <= u
  <1>1. S \in SUBSET Nat
    BY Team
  <1>2. PICK t \in S : \A u \in S : ~(<<u, t>> \in OpToRel(<, Nat))
    BY <1>1, NatLessThanWellFounded, WFMin, Zenon
  <1>3. \A u \in S : ~(u < t)
    BY <1>1, <1>2 DEF OpToRel
  <1> QED
    BY <1>1, <1>3

-----------------------------------------------------------------------------
(* The tree barrier *)

\* How the counts of one thread compare.
LEMMA Counts ==
    ASSUME TreeTypeOK, NEW t \in Threads
    PROVE  /\ tree_it[t] \in Nat /\ Woken(t) \in Nat
           /\ Tree!Reported(t) \in Nat /\ Tree!Rearmed(t) \in Nat
           /\ tree_it[t] <= Woken(t) /\ Woken(t) <= Tree!Reported(t)
           /\ Tree!Reported(t) <= Tree!Rearmed(t)
           /\ Tree!Rearmed(t) <= tree_it[t] + (IF Tree!Inside(t) THEN 1 ELSE 0)
  BY Team DEF TreeTypeOK, Woken, Tree!Reported, Tree!Rearmed, Tree!Inside

\* The root is the last to set its flags up: a thread u that had done so less
\* often, the least such, would have a parent that is not behind the root, and
\* a child is never behind its parent.
LEMMA RootLast ==
    ASSUME TreeTypeOK, Reports, NEW u \in Threads
    PROVE  Tree!Rearmed(0) <= Tree!Rearmed(u)
  <1> DEFINE Behind == {t \in Threads : Tree!Rearmed(t) < Tree!Rearmed(0)}
  <1> SUFFICES ASSUME Behind # {} PROVE FALSE
    BY Team, Counts
  <1>1. PICK t \in Behind : \A v \in Behind : t <= v
    <2>1. Behind \in SUBSET Threads
      OBVIOUS
    <2> HIDE DEF Behind
    <2> QED
      BY <2>1, LeastThread
  <1>2. t \in Threads /\ t # 0
    BY <1>1, Team, Counts
  <1> DEFINE p == Tree!ArrivalParent(t)
  <1>3. p \in Threads /\ p < t
    BY <1>2, Arrival
  <1>4. Tree!Rearmed(0) <= Tree!Rearmed(p)
    <2>1. p \notin Behind
      BY <1>1, <1>3, Team
    <2> QED
      BY <2>1, <1>3, Team, Counts
  <1>5. Tree!Rearmed(p) <= Tree!Reported(t)
    BY <1>2, <1>3, Counts DEF Reports
  <1> QED
    BY <1>1, <1>2, <1>3, <1>4, <1>5, Team, Counts

\* What a thread signals and how often it is woken can be told from its
\* wakeup parent.
LEMMA SignalsBound ==
    ASSUME TreeInv, NEW t \in Threads, t # 0
    PROVE  Signals(t) \in Nat /\ Signals(t) <= Woken(WakeupParent(t))
  BY Wakeup, Team DEF TreeInv, TreeTypeOK, TreeControl, Signals, Woken

\* The harness calls gtmp_barrier: no count changes.
LEMMA EnterTree == ASSUME TreeInv, NEW t \in Threads, Tree!Enter(t) PROVE TreeInv'
  <1> USE Team DEF TreeInv, Tree!Enter
  <1>1. TreeTypeOK' /\ TreeControl' /\ Flags'
    BY DEF TreeTypeOK, TreeControl, Flags, TreeLabels
  <1>2. \A u \in Threads : /\ Tree!Reported(u)' = Tree!Reported(u)
                           /\ Tree!Rearmed(u)' = Tree!Rearmed(u) /\ Woken(u)' = Woken(u)
    BY DEF TreeTypeOK, Tree!Reported, Tree!Rearmed, Woken
  <1>3. \A u \in Threads \ {0} : Signals(u)' = Signals(u)
    BY DEF Signals
  <1>4. Senses' /\ WokenInOrder'
    BY <1>2, <1>3 DEF Senses, WokenInOrder
  <1>5. Reports'
    BY <1>2, Arrival DEF Reports, Flag
  <1> QED
    BY <1>1, <1>4, <1>5

\* The wait for the children ends when none of the flags is set.
LEMMA GatherTree == ASSUME TreeInv, NEW t \in Threads, Tree!Gather(t) PROVE TreeInv'
  <1> USE Team DEF TreeInv, Tree!Gather
  <1>1. TreeTypeOK' /\ TreeControl' /\ Flags'
    BY DEF TreeTypeOK, TreeControl, Flags, TreeLabels
  <1>2. \A u \in Threads : /\ Tree!Reported(u)' = Tree!Reported(u)
                           /\ Tree!Rearmed(u)' = Tree!Rearmed(u) /\ Woken(u)' = Woken(u)
    BY DEF TreeTypeOK, Tree!Reported, Tree!Rearmed, Woken
  <1>3. \A u \in Threads \ {0} : Signals(u)' = Signals(u)
    BY DEF Signals
  <1>4. Senses' /\ WokenInOrder'
    BY <1>2, <1>3 DEF Senses, WokenInOrder
  <1>5. Reports'
    BY <1>2, Arrival DEF Reports, Flag
  <1> QED
    BY <1>1, <1>4, <1>5

\* All children have reported: setting their flags up wipes nothing out.
LEMMA RearmTree == ASSUME TreeInv, NEW t \in Threads, Tree!Rearm(t) PROVE TreeInv'
  <1> USE Team DEF TreeInv, Tree!Rearm
  <1>1. TreeTypeOK' /\ TreeControl' /\ Flags'
    <2>1. Tree!hc \in [Threads -> [Tree!Slots -> BOOLEAN]]
      BY DEF Tree!hc, Tree!Threads, Tree!Parties, Threads, Parties
    <2>2. cn' \in [Threads -> [Tree!Slots -> BOOLEAN]]
      BY <2>1 DEF TreeTypeOK
    <2>3. TreeTypeOK'
      BY <2>2 DEF TreeTypeOK, TreeLabels
    <2> QED
      BY <2>3 DEF TreeTypeOK, TreeControl, Flags
  <1>2. tree_pc[t] = "rearm" /\ tree_it' = tree_it /\ woken' = woken
    OBVIOUS
  <1>3. \A u \in Threads \ {t} : /\ Tree!Reported(u)' = Tree!Reported(u)
                                 /\ Tree!Rearmed(u)' = Tree!Rearmed(u) /\ Woken(u)' = Woken(u)
    BY DEF TreeTypeOK, Tree!Reported, Tree!Rearmed, Woken
  <1>4. Tree!Rearmed(t)' = Tree!Rearmed(t) + 1
    BY DEF TreeTypeOK, Tree!Rearmed
  <1>5. t # 0 => Tree!Reported(t)' = Tree!Reported(t) /\ Woken(t)' = Woken(t)
    BY DEF TreeTypeOK, Tree!Reported, Woken
  <1>6. t = 0 => Woken(t)' = Tree!Rearmed(t)'
    BY DEF TreeTypeOK, Tree!Rearmed, Woken
  <1>7. \A u \in Threads \ {0} : Signals(u)' = Signals(u)
    BY DEF Signals
  <1>8. Senses'
    BY <1>7 DEF Senses
  <1>9. WokenInOrder'
    <2>1. \A u \in Threads \ {0} : Woken(u)' = Woken(u)
      BY <1>3, <1>5
    <2>2. Tree!Rearmed(0)' >= Tree!Rearmed(0) /\ Tree!Rearmed(0)' \in Nat /\ Tree!Rearmed(0) \in Nat
      BY <1>3, <1>4, Counts
    <2>3. \A u \in Threads : Woken(u)' <= Tree!Rearmed(0)'
      <3>1. CASE t = 0
        BY <3>1, <2>1, <2>2, <1>6, Counts DEF WokenInOrder
      <3>2. CASE t # 0
        BY <3>2, <2>1, <2>2, <1>3, Counts DEF WokenInOrder
      <3> QED
        BY <3>1, <3>2
    <2> QED
      BY <2>1, <2>3, <1>7 DEF WokenInOrder
  <1>10. Reports'
    <2> SUFFICES ASSUME NEW u \in Threads, u # 0
        PROVE  IF Flag(u)' THEN Tree!Reported(u)' = Tree!Rearmed(Tree!ArrivalParent(u))'
                           ELSE Tree!Reported(u)' = Tree!Rearmed(Tree!ArrivalParent(u))' + 1
      BY DEF Reports
    <2> DEFINE q == Tree!ArrivalParent(u)
    <2>1. q \in Threads /\ q # u /\ Tree!ArrivalSlot(u) \in Tree!Slots
            /\ Tree!hc[q][Tree!ArrivalSlot(u)]
      BY Arrival
    <2>2. Tree!Reported(u)' = Tree!Reported(u)
      BY <1>3, <1>5
    <2>3. CASE q = t
      <3>1. ~Flag(u)
        BY <1>2, <2>1, <2>3 DEF Flags, Flag
      <3>2. Flag(u)'
        BY <2>1, <2>3 DEF Flag, TreeTypeOK
      <3> QED
        BY <3>1, <3>2, <2>2, <2>3, <1>4 DEF Reports
    <2>4. CASE q # t
      <3>1. Flag(u)' = Flag(u)
        BY <2>1, <2>4 DEF Flag, TreeTypeOK
      <3> QED
        BY <3>1, <2>1, <2>2, <2>4, <1>3 DEF Reports
    <2> QED
      BY <2>3, <2>4
  <1> QED
    BY <1>1, <1>8, <1>9, <1>10

\* The parent has set its flag up again since the last report of t.
LEMMA ReportTree == ASSUME TreeInv, NEW t \in Threads, Tree!Report(t) PROVE TreeInv'
  <1> USE Team DEF TreeInv, Tree!Report
  <1> DEFINE p == Tree!ArrivalParent(t)
  <1> DEFINE k == Tree!ArrivalSlot(t)
  <1>1. t # 0 /\ p \in Threads /\ p # t /\ k \in Tree!Slots
    BY Arrival DEF TreeControl
  <1>2. Flag(t)
    <2>1. Tree!Reported(t) = tree_it[t] /\ Woken(t) = tree_it[t]
      BY DEF TreeTypeOK, Tree!Reported, Woken
    <2>2. Woken(t) <= Tree!Rearmed(0) /\ Tree!Rearmed(0) <= Tree!Rearmed(p)
      BY <1>1, RootLast DEF WokenInOrder
    <2> QED
      BY <2>1, <2>2, <1>1, Counts DEF Reports
  <1>3. TreeTypeOK' /\ TreeControl' /\ Flags'
    <2>1. cn' \in [Threads -> [Tree!Slots -> BOOLEAN]]
      BY <1>1 DEF TreeTypeOK
    <2>2. TreeTypeOK'
      BY <2>1 DEF TreeTypeOK, TreeLabels
    <2>3. \A u \in Threads, j \in Tree!Slots : cn'[u][j] => cn[u][j]
      BY <1>1 DEF TreeTypeOK
    <2> QED
      BY <2>2, <2>3, <1>1 DEF TreeTypeOK, TreeControl, Flags
  <1>4. \A u \in Threads : Tree!Rearmed(u)' = Tree!Rearmed(u) /\ Woken(u)' = Woken(u)
    BY DEF TreeTypeOK, Tree!Rearmed, Woken
  <1>5. /\ \A u \in Threads \ {t} : Tree!Reported(u)' = Tree!Reported(u)
        /\ Tree!Reported(t)' = Tree!Reported(t) + 1
    BY DEF TreeTypeOK, Tree!Reported
  <1>6. \A u \in Threads \ {0} : Signals(u)' = Signals(u)
    BY DEF Signals
  <1>7. Senses' /\ WokenInOrder'
    BY <1>4, <1>6 DEF Senses, WokenInOrder
  <1>8. Reports'
    <2> SUFFICES ASSUME NEW u \in Threads, u # 0
        PROVE  IF Flag(u)' THEN Tree!Reported(u)' = Tree!Rearmed(Tree!ArrivalParent(u))'
                           ELSE Tree!Reported(u)' = Tree!Rearmed(Tree!ArrivalParent(u))' + 1
      BY DEF Reports
    <2>1. Tree!ArrivalParent(u) \in Threads /\ Tree!ArrivalSlot(u) \in Tree!Slots
      BY Arrival
    <2>2. CASE u = t
      <3>1. ~Flag(t)'
        BY <1>1 DEF Flag, TreeTypeOK
      <3> QED
        BY <3>1, <2>2, <1>1, <1>2, <1>4, <1>5 DEF Reports
    <2>3. CASE u # t
      <3>1. Flag(u)' = Flag(u)
        <4>1. Tree!ArrivalParent(u) # p \/ Tree!ArrivalSlot(u) # k
          BY <1>1, <2>3, ArrivalInjective
        <4> QED
          BY <4>1, <2>1, <1>1 DEF Flag, TreeTypeOK
      <3> QED
        BY <3>1, <2>1, <2>3, <1>4, <1>5 DEF Reports
    <2> QED
      BY <2>2, <2>3
  <1> QED
    BY <1>3, <1>7, <1>8

\* The parity of parent_sense is enough to know that the parent has signalled.
LEMMA AwakeTree == ASSUME TreeInv, NEW t \in Threads, Tree!Awake(t) PROVE TreeInv'
  <1> USE Team DEF TreeInv, Tree!Awake
  <1>1. t # 0 /\ tree_it[t] \in Nat /\ Woken(t) = tree_it[t] /\ Tree!Reported(t) = tree_it[t] + 1
    BY DEF TreeControl, TreeTypeOK, Woken, Tree!Reported
  <1> DEFINE p == WakeupParent(t)
  <1>2. p \in Threads /\ p # t
    BY <1>1, Wakeup
  <1>3. Signals(t) = tree_it[t] + 1 /\ Woken(p) >= tree_it[t] + 1
    <2>1. Signals(t) \in Nat /\ Signals(t) <= Woken(p) /\ Woken(p) \in Nat
      BY <1>1, <1>2, SignalsBound, Counts
    <2>2. Woken(p) <= Tree!Rearmed(0)
      BY <1>2 DEF WokenInOrder
    <2>3. Tree!Rearmed(0) <= Tree!Reported(t)
      <3>1. Tree!Rearmed(0) <= Tree!Rearmed(Tree!ArrivalParent(t))
        BY <1>1, RootLast, Arrival
      <3> QED
        BY <3>1, <1>1, Arrival, Counts DEF Reports
    <2>4. tree_it[t] <= Signals(t)
      BY <1>1 DEF WokenInOrder
    <2>5. Signals(t) % 2 = (tree_it[t] + 1) % 2
      BY <1>1 DEF Senses
    <2>6. Tree!Rearmed(0) \in Nat
      BY Counts
    <2>7. Signals(t) <= tree_it[t] + 1
      BY <2>1, <2>2, <2>3, <2>6, <1>1
    <2>8. \A a, b \in Nat : a <= b /\ b <= a + 1 /\ b % 2 = (a + 1) % 2 => b = a + 1
      OBVIOUS
    <2>9. Signals(t) = tree_it[t] + 1
      BY <2>1, <2>4, <2>5, <2>7, <2>8, <1>1
    <2> QED
      BY <2>1, <2>9, <1>1
  <1>4. TreeTypeOK' /\ TreeControl' /\ Flags'
    BY <1>1 DEF TreeTypeOK, TreeControl, Flags, TreeLabels
  <1>5. \A u \in Threads : /\ Tree!Reported(u)' = Tree!Reported(u)
                           /\ Tree!Rearmed(u)' = Tree!Rearmed(u)
    BY DEF TreeTypeOK, Tree!Reported, Tree!Rearmed
  <1>6. /\ \A u \in Threads \ {t} : Woken(u)' = Woken(u)
        /\ Woken(t)' = tree_it[t] + 1
    BY DEF TreeTypeOK, Woken
  <1>7. \A u \in Threads \ {0} : Signals(u)' = Signals(u)
    BY DEF Signals
  <1>8. Senses'
    BY <1>7 DEF Senses
  <1>9. WokenInOrder'
    <2>1. \A u \in Threads \ {0} : Woken(u)' <= Signals(u)'
      BY <1>3, <1>6, <1>7, <1>1 DEF WokenInOrder
    <2>2. tree_it[t] + 1 <= Tree!Rearmed(0)
      BY <1>1, <1>2, <1>3, Counts DEF WokenInOrder
    <2> QED
      BY <2>1, <2>2, <1>5, <1>6 DEF WokenInOrder
  <1>10. Reports'
    BY <1>5, Arrival DEF Reports, Flag
  <1> QED
    BY <1>4, <1>8, <1>9, <1>10

\* One child is signalled, with the sense of this call.
LEMMA WakeChildTree == ASSUME TreeInv, NEW t \in Threads, Tree!WakeChild(t) PROVE TreeInv'
  <1> USE Team DEF TreeInv, Tree!WakeChild
  <1>1. TreeTypeOK' /\ TreeControl' /\ Flags'
    <2>1. parent_sense' \in [Threads -> {0, 1}]
      BY DEF TreeTypeOK, Tree!Threads, Tree!Parties, Threads, Parties
    <2>2. woken' \in [Threads -> 0 .. 2]
      BY SMTT(60) DEF TreeTypeOK
    <2>3. TreeTypeOK'
      BY <2>1, <2>2 DEF TreeTypeOK
    <2> QED
      BY <2>3 DEF TreeTypeOK, TreeControl, Flags
  <1>2. \A u \in Threads : /\ Tree!Reported(u)' = Tree!Reported(u)
                           /\ Tree!Rearmed(u)' = Tree!Rearmed(u) /\ Woken(u)' = Woken(u)
    BY DEF TreeTypeOK, Tree!Reported, Tree!Rearmed, Woken
  <1>3. ASSUME NEW u \in Threads, u # 0
        PROVE  /\ u = Tree!WakeupChild(t, woken[t]) =>
                    Signals(u)' = tree_it[t] + 1 /\ Signals(u)' >= Signals(u)
               /\ u # Tree!WakeupChild(t, woken[t]) => Signals(u)' = Signals(u)
    <2> DEFINE p == WakeupParent(u)
    <2> DEFINE k == WakeupSlot(u)
    <2>1. p \in Threads /\ k \in {0, 1} /\ woken[t] \in {0, 1}
            /\ (u = Tree!WakeupChild(t, woken[t]) <=> t = p /\ woken[t] = k)
      BY <1>3, Wakeup DEF TreeTypeOK
    <2>2. woken'[p] = IF p = t THEN woken[t] + 1 ELSE woken[p]
      BY <2>1 DEF TreeTypeOK
    <2>3. tree_it' = tree_it /\ tree_it[p] \in Nat
      BY <2>1 DEF TreeTypeOK
    <2>4. Signals(u) = tree_it[p] + (IF woken[p] > k THEN 1 ELSE 0)
            /\ Signals(u)' = tree_it'[p] + (IF woken'[p] > k THEN 1 ELSE 0)
      BY DEF Signals
    <2> HIDE DEF p, k
    <2> QED
      BY <2>1, <2>2, <2>3, <2>4
  <1>4. Senses'
    <2>1. \A u \in Threads : node_sense'[u] = (tree_it'[u] + 1) % 2
      BY DEF Senses
    <2>2. ASSUME NEW u \in Threads, u # 0 PROVE parent_sense'[u] = Signals(u)' % 2
      <3>1. parent_sense'[u] = IF u = Tree!WakeupChild(t, woken[t])
                                 THEN node_sense[t] ELSE parent_sense[u]
        BY DEF Tree!Threads, Tree!Parties, Threads, Parties
      <3> QED
        BY <3>1, <2>2, <1>3 DEF Senses
    <2> QED
      BY <2>1, <2>2 DEF Senses
  <1>5. WokenInOrder'
    <2>1. ASSUME NEW u \in Threads, u # 0 PROVE Woken(u)' <= Signals(u)'
      <3>1. Signals(u) \in Nat /\ Woken(u) \in Nat /\ tree_it[t] \in Nat
        BY <2>1, SignalsBound, Counts
      <3> QED
        BY <3>1, <2>1, <1>2, <1>3 DEF WokenInOrder
    <2> QED
      BY <2>1, <1>2 DEF WokenInOrder
  <1>6. Reports'
    BY <1>2, Arrival DEF Reports, Flag
  <1> QED
    BY <1>1, <1>4, <1>5, <1>6

\* The call returns with both children signalled and the sense reversed.
LEMMA ReturnTree == ASSUME TreeInv, NEW t \in Threads, Tree!Return(t) PROVE TreeInv'
  <1> USE Team DEF TreeInv, Tree!Return
  <1>1. TreeTypeOK' /\ TreeControl' /\ Flags'
    BY SMTT(60) DEF TreeTypeOK, TreeControl, Flags, TreeLabels
  <1>2. \A u \in Threads : /\ Tree!Reported(u)' = Tree!Reported(u)
                           /\ Tree!Rearmed(u)' = Tree!Rearmed(u) /\ Woken(u)' = Woken(u)
    BY DEF TreeTypeOK, Tree!Reported, Tree!Rearmed, Woken
  <1>3. ASSUME NEW u \in Threads, u # 0 PROVE Signals(u)' = Signals(u)
    <2> DEFINE p == WakeupParent(u)
    <2> DEFINE k == WakeupSlot(u)
    <2>1. p \in Threads /\ k \in {0, 1}
      BY <1>3, Wakeup
    <2>2. woken'[p] = (IF p = t THEN 0 ELSE woken[p]) /\ woken[t] = 2
            /\ tree_it'[p] = (IF p = t THEN tree_it[p] + 1 ELSE tree_it[p])
      BY <2>1 DEF TreeTypeOK
    <2>3. tree_it[p] \in Nat
      BY <2>1 DEF TreeTypeOK
    <2>4. Signals(u) = tree_it[p] + (IF woken[p] > k THEN 1 ELSE 0)
            /\ Signals(u)' = tree_it'[p] + (IF woken'[p] > k THEN 1 ELSE 0)
      BY DEF Signals
    <2> HIDE DEF p, k
    <2> QED
      BY <2>1, <2>2, <2>3, <2>4
  <1>4. Senses'
    <2>1. \A n \in Nat : (n + 1 + 1) % 2 = 1 - ((n + 1) % 2)
      OBVIOUS
    <2>2. tree_it[t] \in Nat
      BY DEF TreeTypeOK
    <2>3. node_sense'[t] = 1 - node_sense[t] /\ tree_it'[t] = tree_it[t] + 1
      BY DEF TreeTypeOK
    <2>4. node_sense'[t] = (tree_it'[t] + 1) % 2
      BY <2>1, <2>2, <2>3 DEF Senses
    <2>5. \A u \in Threads \ {t} : node_sense'[u] = node_sense[u] /\ tree_it'[u] = tree_it[u]
      BY DEF TreeTypeOK
    <2> QED
      BY <2>4, <2>5, <1>3 DEF Senses
  <1>5. WokenInOrder'
    BY <1>2, <1>3 DEF WokenInOrder
  <1>6. Reports'
    BY <1>2, Arrival DEF Reports, Flag
  <1> QED
    BY <1>1, <1>4, <1>5, <1>6

\* Initially nobody has entered and the flags of all children are set.
LEMMA InitTree == Tree!Init => TreeInv
  <1> SUFFICES ASSUME Tree!Init PROVE TreeInv
    OBVIOUS
  <1> USE Team DEF Tree!Init, Tree!Threads, Tree!Parties, Threads, Parties
  <1>1. TreeTypeOK
    BY DEF TreeTypeOK, TreeLabels, Tree!hc
  <1>2. TreeControl /\ Flags
    BY <1>1 DEF TreeControl, Flags
  <1>3. \A t \in Threads : Tree!Reported(t) = 0 /\ Tree!Rearmed(t) = 0 /\ Woken(t) = 0
    BY DEF Tree!Reported, Tree!Rearmed, Woken
  <1>4. \A t \in Threads \ {0} : Signals(t) = 0
    BY Wakeup, SMTT(60) DEF Signals
  <1>5. Senses /\ WokenInOrder
    BY <1>3, <1>4 DEF Senses, WokenInOrder
  <1>6. Reports
    BY <1>3, Arrival DEF Reports, Flag
  <1> QED
    BY <1>1, <1>2, <1>5, <1>6 DEF TreeInv

\* Every step of the tree barrier, and every step it has no part in, keeps
\* the invariant.
LEMMA NextTree ==
    ASSUME TreeInv, (\E t \in Threads : Tree!Step(t)) \/ UNCHANGED tree_vars
    PROVE  TreeInv'
  <1>1. CASE UNCHANGED tree_vars
    <2>1. /\ \A t \in Threads : /\ Tree!Reported(t)' = Tree!Reported(t)
                                /\ Tree!Rearmed(t)' = Tree!Rearmed(t) /\ Woken(t)' = Woken(t)
          /\ \A t \in Threads : Signals(t)' = Signals(t) /\ Flag(t)' = Flag(t)
      BY <1>1 DEF tree_vars, Tree!Reported, Tree!Rearmed, Woken, Signals, Flag
    <2>2. TreeTypeOK' /\ TreeControl' /\ Flags'
      BY <1>1 DEF TreeInv, tree_vars, TreeTypeOK, TreeControl, Flags
    <2>3. Senses' /\ WokenInOrder' /\ Reports'
      BY <1>1, <2>1, Team, Arrival DEF TreeInv, tree_vars, Senses, WokenInOrder, Reports
    <2> QED
      BY <2>2, <2>3 DEF TreeInv
  <1>2. CASE \E t \in Threads : Tree!Step(t)
    BY <1>2, EnterTree, GatherTree, RearmTree, ReportTree, AwakeTree, WakeChildTree, ReturnTree
    DEF Tree!Step
  <1> QED
    BY <1>1, <1>2

\* When a thread returns from the tree barrier everyone has entered the call.
LEMMA ReturnsLast ==
    ASSUME TreeInv, NEW t \in Threads, tree_pc[t] = "wake", NEW u \in Threads
    PROVE  tree_it[t] + 1 <= tree_it[u] + (IF Tree!Inside(u) THEN 1 ELSE 0)
  <1>1. Woken(t) = tree_it[t] + 1 /\ Woken(t) <= Tree!Rearmed(0)
    BY DEF TreeInv, WokenInOrder, Woken
  <1>2. Tree!Rearmed(0) <= Tree!Rearmed(u)
    BY RootLast DEF TreeInv
  <1>3. /\ Tree!Rearmed(u) <= tree_it[u] + (IF Tree!Inside(u) THEN 1 ELSE 0)
        /\ Tree!Rearmed(0) \in Nat /\ Tree!Rearmed(u) \in Nat
        /\ tree_it[u] \in Nat /\ tree_it[t] \in Nat
    BY Counts, Team DEF TreeInv
  <1> QED
    BY <1>1, <1>2, <1>3

-----------------------------------------------------------------------------
(* The harness with either barrier *)

\* The inductive invariant of the program.
OmpInv == IInv /\ TreeInv /\ Unlinked

\* What a step does, by the barrier that is linked.
LEMMA OmpStep ==
    ASSUME [OmpNext]_omp_vars, Unlinked
    PROVE  /\ linked' = linked
           /\ \/ /\ linked = "gtmp1.c" /\ [Next]_vars /\ UNCHANGED tree_vars
              \/ /\ linked = "gtmp2.c" /\ UNCHANGED vars
                 /\ (\E t \in Threads : Tree!Step(t)) \/ UNCHANGED tree_vars
  BY DEF OmpNext, ThreadStep, OmpDone, omp_vars, Unlinked, Next

\* The harness, whichever barrier it is linked with, keeps the invariants of
\* both: the one that is not linked does not move.
THEOREM OmpInvariance == OmpSpec => []OmpInv
  <1>1. OmpInit => OmpInv
    <2> SUFFICES ASSUME OmpInit PROVE OmpInv
      OBVIOUS
    <2>1. Unlinked
      BY DEF OmpInit, Init, Tree!Init, Tree!Threads, Tree!Parties, Threads, Parties, Unlinked
    <2> QED
      BY <2>1, InitIInv, InitTree DEF OmpInit, OmpInv
  <1>2. ASSUME OmpInv, [OmpNext]_omp_vars PROVE OmpInv'
    <2>1. IInv'
      BY <1>2, OmpStep, NextIInv DEF OmpInv
    <2>2. TreeInv'
      BY <1>2, OmpStep, NextTree DEF OmpInv
    <2>3. Unlinked'
      BY <1>2, OmpStep DEF OmpInv, Unlinked, vars, tree_vars
    <2> QED
      BY <2>1, <2>2, <2>3 DEF OmpInv
  <1> QED
    BY <1>1, <1>2, PTL DEF OmpSpec

\* In gtmp2.c the store that sets the four flags up never wipes out a report,
\* and no report of an earlier call is counted again.
THEOREM TreeKeepsReports == OmpSpec => []TreeNoReportLost
  <1>1. OmpInv => TreeNoReportLost
    BY DEF OmpInv, TreeInv, Reports, Flag, TreeNoReportLost, Tree!NoReportLost, Tree!Threads,
           Tree!Parties, Threads, Parties
  <1> QED
    BY <1>1, OmpInvariance, PTL

\* The counts of the abstract barrier.
Entered == [t \in Threads |-> Calls(t) + (IF Inside(t) \/ Tree!Inside(t) THEN 1 ELSE 0)]
Left == [t \in Threads |-> Calls(t)]

\* The abstract steps, said with these counts.
LEMMA HarnessedSteps ==
    /\ \A t \in Threads :
         /\ Entered[t] = Left[t] /\ Entered[t] < NumIter
         /\ Entered' = [Entered EXCEPT ![t] = @ + 1] /\ Left' = Left
         => Harnessed!Next
    /\ \A t \in Threads :
         /\ Left[t] < Entered[t] /\ \A u \in Threads : Entered[t] <= Entered[u]
         /\ Left' = [Left EXCEPT ![t] = @ + 1] /\ Entered' = Entered
         => Harnessed!Next
    /\ Entered' = Entered /\ Left' = Left => UNCHANGED Harnessed!vars
  BY Zenon DEF Entered, Left, Harnessed!Next, Harnessed!Enter, Harnessed!Leave,
     Harnessed!vars, Threads

\* With gtmp1.c linked they are the counts of the sense-reversing barrier.
LEMMA SenseHarnessed ==
    ASSUME OmpInv, linked = "gtmp1.c", [Next]_vars, UNCHANGED tree_vars
    PROVE  [Harnessed!Next]_(Harnessed!vars)
  <1> DEFINE ent == [t \in Threads |-> it[t] + (IF Inside(t) THEN 1 ELSE 0)]
  <1>1. IInv /\ IInv' /\ \A t \in Threads : tree_it[t] = 0 /\ ~Tree!Inside(t)
    BY NextIInv DEF OmpInv, Unlinked, Tree!Inside
  <1>2. it \in [Threads -> Nat] /\ it' \in [Threads -> Nat]
    BY <1>1, Team DEF IInv, TypeOK
  <1>3. Left = it /\ Left' = it'
    BY <1>1, <1>2 DEF Left, Calls, tree_vars
  <1>4. \A t \in Threads : (Tree!Inside(t))' = Tree!Inside(t)
    BY DEF tree_vars, Tree!Inside
  <1>5. Entered = ent /\ Entered' = ent'
    BY <1>1, <1>2, <1>4 DEF Entered, Calls, tree_vars
  <1>6. [Abstract!Next]_(Abstract!vars)
    BY <1>1, StepAbstract
  <1>7. CASE UNCHANGED Abstract!vars
    <2>1. ent' = ent /\ it' = it
      BY <1>7, Zenon DEF Abstract!vars
    <2> QED
      BY <2>1, <1>3, <1>5, HarnessedSteps
  <1>8. ASSUME NEW t \in Threads, Abstract!Enter(t) PROVE Harnessed!Next
    <2>1. ent[t] = it[t] /\ ent[t] < NumIter /\ ent' = [ent EXCEPT ![t] = @ + 1] /\ it' = it
      BY <1>8, Zenon DEF Abstract!Enter
    <2> HIDE DEF ent
    <2> QED
      BY <2>1, <1>3, <1>5, HarnessedSteps
  <1>9. ASSUME NEW t \in Threads, Abstract!Leave(t) PROVE Harnessed!Next
    <2>1. it[t] < ent[t] /\ (\A u \in Threads : ent[t] <= ent[u])
            /\ it' = [it EXCEPT ![t] = @ + 1] /\ ent' = ent
      BY <1>9, Zenon DEF Abstract!Leave
    <2> HIDE DEF ent
    <2> QED
      BY <2>1, <1>3, <1>5, HarnessedSteps
  <1> QED
    BY <1>6, <1>7, <1>8, <1>9 DEF Abstract!Next

\* With gtmp2.c linked only the calls and the returns are seen.
LEMMA TreeHarnessed ==
    ASSUME OmpInv, linked = "gtmp2.c", UNCHANGED vars, NEW t \in Threads, Tree!Step(t)
    PROVE  [Harnessed!Next]_(Harnessed!vars)
  <1> USE Team
  <1> DEFINE in(u) == IF Tree!Inside(u) THEN 1 ELSE 0
  <1>1. /\ tree_it \in [Threads -> Nat] /\ tree_pc \in [Threads -> TreeLabels]
        /\ \A u \in Threads : it[u] = 0 /\ ~Inside(u) /\ it'[u] = 0 /\ ~Inside(u)'
    BY DEF OmpInv, TreeInv, TreeTypeOK, Unlinked, Inside, vars
  <1>2. tree_it' \in [Threads -> Nat]
    <2>1. TreeInv'
      BY NextTree DEF OmpInv
    <2> QED
      BY <2>1 DEF TreeInv, TreeTypeOK
  <1>3. Left = tree_it /\ Left' = tree_it'
    BY <1>1, <1>2 DEF Left, Calls
  <1>4. /\ Entered = [u \in Threads |-> tree_it[u] + in(u)]
        /\ Entered' = [u \in Threads |-> tree_it'[u] + in(u)']
    BY <1>1, <1>2 DEF Entered, Calls
  <1>5. CASE Tree!Enter(t)
    <2>1. tree_it' = tree_it /\ tree_it[t] < NumIter /\ ~Tree!Inside(t) /\ (Tree!Inside(t))'
            /\ \A u \in Threads \ {t} : (Tree!Inside(u))' = Tree!Inside(u)
      BY <1>5, <1>1 DEF Tree!Enter, Tree!Inside
    <2>2. Entered[t] = Left[t] /\ Entered[t] < NumIter /\ Left' = Left
      BY <2>1, <1>1, <1>3, <1>4
    <2>3. Entered' = [Entered EXCEPT ![t] = @ + 1]
      BY <2>1, <1>1, <1>4
    <2> QED
      BY <2>2, <2>3, HarnessedSteps
  <1>6. CASE Tree!Return(t)
    <2>1. tree_it' = [tree_it EXCEPT ![t] = @ + 1] /\ Tree!Inside(t) /\ ~(Tree!Inside(t))'
            /\ \A u \in Threads \ {t} : (Tree!Inside(u))' = Tree!Inside(u)
      BY <1>6, <1>1 DEF Tree!Return, Tree!Inside
    <2>2. Left[t] < Entered[t] /\ Left' = [Left EXCEPT ![t] = @ + 1]
      BY <2>1, <1>1, <1>3, <1>4
    <2>3. Entered' = Entered
      BY <2>1, <1>1, <1>4
    <2>4. \A u \in Threads : Entered[t] <= Entered[u]
      <3>1. Entered[t] = tree_it[t] + 1
        BY <2>1, <1>4
      <3>2. \A u \in Threads : tree_it[t] + 1 <= tree_it[u] + in(u)
        BY <1>6, ReturnsLast DEF Tree!Return, OmpInv
      <3> QED
        BY <3>1, <3>2, <1>4
    <2> QED
      BY <2>2, <2>3, <2>4, HarnessedSteps
  <1>7. CASE \/ Tree!Gather(t) \/ Tree!Rearm(t) \/ Tree!Report(t) \/ Tree!Awake(t)
             \/ Tree!WakeChild(t)
    <2>1. tree_it' = tree_it /\ \A u \in Threads : (Tree!Inside(u))' = Tree!Inside(u)
      BY <1>7, <1>1
      DEF Tree!Gather, Tree!Rearm, Tree!Report, Tree!Awake, Tree!WakeChild, Tree!Inside
    <2>2. Entered' = Entered /\ Left' = Left
      BY <2>1, <1>3, <1>4
    <2> QED
      BY <2>2, HarnessedSteps
  <1> QED
    BY <1>5, <1>6, <1>7 DEF Tree!Step

\* Whichever gtmp_barrier is linked, every step of the program is a step of
\* the abstract barrier or changes nothing in it: nobody leaves a call that
\* another thread has not entered.
THEOREM OmpRefinesBarrier == OmpSpec => Harnessed!Init /\ [][Harnessed!Next]_(Harnessed!vars)
  <1>1. OmpInit => Harnessed!Init
    BY DEF OmpInit, Init, Tree!Init, Tree!Threads, Tree!Parties, Threads, Parties, Calls, Inside,
           Tree!Inside, Harnessed!Init
  <1>2. ASSUME OmpInv, [OmpNext]_omp_vars PROVE [Harnessed!Next]_(Harnessed!vars)
    <2>1. CASE linked = "gtmp1.c"
      BY <1>2, <2>1, OmpStep, SenseHarnessed DEF OmpInv
    <2>2. CASE linked = "gtmp2.c"
      <3>1. CASE UNCHANGED <<vars, tree_vars>>
        <4>1. /\ it' = it /\ tree_it' = tree_it
              /\ \A t \in Threads : Inside(t)' = Inside(t) /\ (Tree!Inside(t))' = Tree!Inside(t)
          BY <3>1 DEF vars, tree_vars, Inside, Tree!Inside
        <4>2. Entered' = Entered /\ Left' = Left
          BY <4>1 DEF Entered, Left, Calls
        <4> QED
          BY <4>2, HarnessedSteps
      <3>2. CASE \E t \in Threads : Tree!Step(t)
        BY <1>2, <2>2, <3>2, OmpStep, TreeHarnessed DEF OmpInv
      <3> QED
        BY <1>2, <2>2, <3>1, <3>2, OmpStep DEF OmpInv
    <2> QED
      BY <1>2, <2>1, <2>2 DEF OmpInv, Unlinked
  <1> QED
    BY <1>1, <1>2, OmpInvariance, PTL DEF OmpSpec

=============================================================================
