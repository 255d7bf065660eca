---------------------------- MODULE MCOmpBarriers ---------------------------
(***************************************************************************)
(* The OpenMP harness is linked with gtmp1.c (SenseBarrier) or with gtmp2.c *)
(* (TreeBarrier).  The variables of the other barrier do not exist in that *)
(* program: they keep their initial values.                                *)
(***************************************************************************)
EXTENDS SenseBarrier

VARIABLES linked,  \* the source file the harness is linked with
          cn, node_sense, parent_sense, tree_pc, woken, tree_it

Tree == INSTANCE TreeBarrier WITH sense <- node_sense, pc <- tree_pc, it <- tree_it

tree_vars == <<cn, node_sense, parent_sense, tree_pc, woken, tree_it>>
omp_vars == <<vars, tree_vars, linked>>

OmpInit == linked \in {"gtmp1.c", "gtmp2.c"} /\ Init /\ Tree!Init

ThreadStep(t) ==
    /\ UNCHANGED linked
    /\ \/ linked = "gtmp1.c" /\ Step(t) /\ UNCHANGED tree_vars
       \/ linked = "gtmp2.c" /\ Tree!Step(t) /\ UNCHANGED vars

\* The parallel region has ended.
OmpDone ==
    /\ IF linked = "gtmp1.c" THEN Done ELSE Tree!Done
    /\ UNCHANGED omp_vars

OmpNext == (\E t \in Threads : ThreadStep(t)) \/ OmpDone

\* Each thread of the team keeps being scheduled.
OmpSpec == OmpInit /\ [][OmpNext]_omp_vars /\ \A t \in Threads : WF_omp_vars(ThreadStep(t))

\* Setting the four flags of gtmp2.c up with one store never wipes out a
\* child's report, and no report of an earlier call is counted again.
TreeNoReportLost == Tree!NoReportLost

\* Whichever gtmp_barrier is linked, it implements the abstract barrier: a call
\* is entered when the harness makes it, left when it returns, and every
\* thread leaves its last call.
Calls(t) == it[t] + tree_it[t]

Harnessed == INSTANCE BarrierSpec
    WITH entered <- [t \in Threads |->
                        Calls(t) + (IF Inside(t) \/ Tree!Inside(t) THEN 1 ELSE 0)],
         left <- [t \in Threads |-> Calls(t)]

ImplementsBarrier == Harnessed!Spec

=============================================================================
