---------------------------- MODULE TreeBarrier -----------------------------
(***************************************************************************)
(* The MCS tree barrier of project2/omp/gtmp2.c under the loop of          *)
(* project2/omp/harness.c.  Thread t reports to its parent in a 4-ary      *)
(* arrival tree and is woken by its parent in a binary wakeup tree.  One   *)
(* action is one access to a variable another thread uses; all of them are *)
(* volatile accesses of an x86 build, visible in program order.            *)
(***************************************************************************)
EXTENDS Harness

Threads == Parties  \* the OpenMP team
Slots == 0 .. 3

VARIABLES cn,            \* cn[t][k]: child k of t has yet to arrive (cn.array)
          sense,         \* sense[t], private to t
          parent_sense,  \* parent_sense[t], written by t's wakeup parent
          pc,            \* where t is
          woken,         \* woken[t]: how many wakeup_ptrs t has gone through
          it             \* it[t], the loop index of the harness

vars == <<cn, sense, parent_sense, pc, woken, it>>

\* gtmp_init: who reports to whom, who wakes whom.
ArrivalParent(t) == (t - 1) \div 4
ArrivalSlot(t) == (t - 1) % 4
hc == [t \in Threads |-> [k \in Slots |-> 4 * t + 1 + k < NumParties]]
WakeupChild(t, k) == 2 * t + 1 + k

Init ==
    /\ cn = hc
    /\ sense = [t \in Threads |-> 1]
    /\ parent_sense = [t \in Threads |-> 0]
    /\ pc = [t \in Threads |-> "loop"]
    /\ woken = [t \in Threads |-> 0]
    /\ it = [t \in Threads |-> 0]

\* The harness calls gtmp_barrier.
Enter(t) ==
    /\ pc[t] = "loop"
    /\ it[t] < NumIter
    /\ pc' = [pc EXCEPT ![t] = "gather"]
    /\ UNCHANGED <<cn, sense, parent_sense, woken, it>>

\* while (node->cn.value) ends: all children have arrived.
Gather(t) ==
    /\ pc[t] = "gather"
    /\ \A k \in Slots : ~cn[t][k]
    /\ pc' = [pc EXCEPT ![t] = "rearm"]
    /\ UNCHANGED <<cn, sense, parent_sense, woken, it>>

\* A thread that forgets to set its flags up for the next call.
RearmForgotten(t) ==
    /\ pc[t] = "rearm"
    /\ pc' = [pc EXCEPT ![t] = IF t = 0 THEN "wake" ELSE "report"]
    /\ UNCHANGED <<cn, sense, parent_sense, woken, it>>

\* node->cn.value = node->hc.value, for the next call.
Rearm(t) ==
    /\ pc[t] = "rearm"
    /\ cn' = [cn EXCEPT ![t] = hc[t]]
    /\ pc' = [pc EXCEPT ![t] = IF t = 0 THEN "wake" ELSE "report"]
    /\ UNCHANGED <<sense, parent_sense, woken, it>>

\* *(node->parent_ptr) = 0
Report(t) ==
    /\ pc[t] = "report"
    /\ cn' = [cn EXCEPT ![ArrivalParent(t)][ArrivalSlot(t)] = FALSE]
    /\ pc' = [pc EXCEPT ![t] = "spin"]
    /\ UNCHANGED <<sense, parent_sense, woken, it>>

\* while (node->parent_sense != node->sense) ends.
Awake(t) ==
    /\ pc[t] = "spin"
    /\ parent_sense[t] = sense[t]
    /\ pc' = [pc EXCEPT ![t] = "wake"]
    /\ UNCHANGED <<cn, sense, parent_sense, woken, it>>

\* One turn of the loop over wakeup_ptrs.
WakeChild(t) ==
    /\ pc[t] = "wake"
    /\ woken[t] < 2
    /\ woken' = [woken EXCEPT ![t] = @ + 1]
    /\ parent_sense' = [u \in Threads |->
           IF u = WakeupChild(t, woken[t]) THEN sense[t] ELSE parent_sense[u]]
    /\ UNCHANGED <<cn, sense, pc, it>>

\* A thread that returns with the sense of this call.
ReturnSameSense(t) ==
    /\ pc[t] = "wake"
    /\ woken[t] = 2
    /\ woken' = [woken EXCEPT ![t] = 0]
    /\ it' = [it EXCEPT ![t] = @ + 1]
    /\ pc' = [pc EXCEPT ![t] = "loop"]
    /\ UNCHANGED <<cn, sense, parent_sense>>

\* node->sense = !node->sense, and gtmp_barrier returns.
Return(t) ==
    /\ pc[t] = "wake"
    /\ woken[t] = 2
    /\ sense' = [sense EXCEPT ![t] = 1 - @]
    /\ woken' = [woken EXCEPT ![t] = 0]
    /\ it' = [it EXCEPT ![t] = @ + 1]
    /\ pc' = [pc EXCEPT ![t] = "loop"]
    /\ UNCHANGED <<cn, parent_sense>>

Step(t) == Enter(t) \/ Gather(t) \/ Rearm(t) \/ Report(t) \/ Awake(t) \/ WakeChild(t) \/ Return(t)

\* The parallel region ends when every thread has left its last call.
Done == (\A t \in Threads : pc[t] = "loop" /\ it[t] = NumIter) /\ UNCHANGED vars

Next == (\E t \in Threads : Step(t)) \/ Done

\* Each thread of the team keeps being scheduled.
Spec == Init /\ [][Next]_vars /\ \A t \in Threads : WF_vars(Step(t))

-----------------------------------------------------------------------------
(* Properties *)

Inside(t) == pc[t] # "loop"

\* How many calls t has reported to its parent, and for how many t has set
\* its flags up again.
Reported(t) == it[t] + (IF pc[t] \in {"spin", "wake"} THEN 1 ELSE 0)
Rearmed(t) == it[t] + (IF pc[t] \in {"report", "spin", "wake"} THEN 1 ELSE 0)

\* A flag is clear exactly when its child is one report ahead of the parent:
\* setting the four flags up with one store never wipes out a report, and no
\* report of an earlier call is counted again.
NoReportLost ==
    \A t \in Threads \ {0} :
        IF cn[ArrivalParent(t)][ArrivalSlot(t)]
          THEN Reported(t) = Rearmed(ArrivalParent(t))
          ELSE Reported(t) = Rearmed(ArrivalParent(t)) + 1

=============================================================================
