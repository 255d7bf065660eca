---------------------------- MODULE SenseBarrier ----------------------------
(***************************************************************************)
(* The centralised sense-reversing barrier of project2/omp/gtmp1.c under   *)
(* the loop of project2/omp/harness.c.  One action is one access to a      *)
(* shared variable: the read of sense on entry, the atomic fetch-and-sub,  *)
(* the store that resets count, the store that flips sense and the read    *)
(* with which a waiting thread leaves its spin loop (a read that fails     *)
(* changes nothing).  Both stores are volatile accesses of an x86 build,   *)
(* so they become visible in program order.                                *)
(***************************************************************************)
EXTENDS Harness, FiniteSets

Threads == Parties  \* the OpenMP team

VARIABLES count,     \* threads that have not arrived in this episode
          sense,     \* the shared sense
          my_sense,  \* my_sense[t], the local of gtmp_barrier
          pc,        \* where t is
          it         \* it[t], the loop index i of the harness

vars == <<count, sense, my_sense, pc, it>>

num_threads == NumParties

Labels == {"loop", "arrive", "reset", "flip", "spin"}

TypeOK ==
    /\ count \in 0 .. num_threads
    /\ sense \in BOOLEAN
    /\ my_sense \in [Threads -> BOOLEAN]
    /\ pc \in [Threads -> Labels]
    /\ it \in [Threads -> 0 .. NumIter]

\* gtmp_init runs before the parallel region starts.
Init ==
    /\ count = num_threads
    /\ sense = FALSE
    /\ my_sense = [t \in Threads |-> FALSE]
    /\ pc = [t \in Threads |-> "loop"]
    /\ it = [t \in Threads |-> 0]

\* The harness calls gtmp_barrier, which first reads sense.
Enter(t) ==
    /\ pc[t] = "loop"
    /\ it[t] < NumIter
    /\ my_sense' = [my_sense EXCEPT ![t] = ~sense]
    /\ pc' = [pc EXCEPT ![t] = "arrive"]
    /\ UNCHANGED <<count, sense, it>>

\* Faults of Arrive and Reset the properties tell from the code.
ArriveTestsNewValue(t) ==
    /\ pc[t] = "arrive"
    /\ count' = count - 1
    /\ pc' = [pc EXCEPT ![t] = IF count - 1 = 1 THEN "reset" ELSE "spin"]
    /\ UNCHANGED <<sense, my_sense, it>>

ResetExcludesSelf(t) ==
    /\ pc[t] = "reset"
    /\ count' = num_threads - 1
    /\ pc' = [pc EXCEPT ![t] = "flip"]
    /\ UNCHANGED <<sense, my_sense, it>>

\* __sync_fetch_and_sub(&count, 1) == 1: the last thread resets, others spin.
Arrive(t) ==
    /\ pc[t] = "arrive"
    /\ count' = count - 1
    /\ pc' = [pc EXCEPT ![t] = IF count = 1 THEN "reset" ELSE "spin"]
    /\ UNCHANGED <<sense, my_sense, it>>

\* count = num_threads
Reset(t) ==
    /\ pc[t] = "reset"
    /\ count' = num_threads
    /\ pc' = [pc EXCEPT ![t] = "flip"]
    /\ UNCHANGED <<sense, my_sense, it>>

\* sense = my_sense, then gtmp_barrier returns to the harness loop.
Flip(t) ==
    /\ pc[t] = "flip"
    /\ sense' = my_sense[t]
    /\ it' = [it EXCEPT ![t] = @ + 1]
    /\ pc' = [pc EXCEPT ![t] = "loop"]
    /\ UNCHANGED <<count, my_sense>>

\* while (sense != my_sense) ends, and gtmp_barrier returns.
Leave(t) ==
    /\ pc[t] = "spin"
    /\ sense = my_sense[t]
    /\ it' = [it EXCEPT ![t] = @ + 1]
    /\ pc' = [pc EXCEPT ![t] = "loop"]
    /\ UNCHANGED <<count, sense, my_sense>>

Step(t) == Enter(t) \/ Arrive(t) \/ Reset(t) \/ Flip(t) \/ Leave(t)

\* The parallel region ends when every thread has left its last call.
Finished == \A t \in Threads : pc[t] = "loop" /\ it[t] = NumIter

Done == Finished /\ UNCHANGED vars

Next == (\E t \in Threads : Step(t)) \/ Done

\* Each thread of the team keeps being scheduled.
Spec == Init /\ [][Next]_vars /\ \A t \in Threads : WF_vars(Step(t))

-----------------------------------------------------------------------------
(* Properties *)

\* t is inside gtmp_barrier.
Inside(t) == pc[t] # "loop"

\* t has been counted and waits for the last thread to flip sense.
Waiting(t) == pc[t] = "spin" /\ my_sense[t] # sense

\* t may leave: the episode it waited for is over.
Released(t) == pc[t] = "spin" /\ my_sense[t] = sense

\* The episodes that are over for t.
Episodes(t) == it[t] + (IF Released(t) THEN 1 ELSE 0)

\* Nobody is past a call of gtmp_barrier that another thread has not made
\* yet, although one flag and one counter serve all the calls.
BarrierSafety ==
    \A t, u \in Threads : it[t] <= it[u] + (IF Inside(u) THEN 1 ELSE 0)

\* The inductive invariant of the barrier: all threads agree on how many
\* episodes are over; count is the number of threads still to arrive, except
\* between the last arrival and the flip of sense, when everyone else waits.
Agreement == \A t, u \in Threads : Episodes(t) = Episodes(u)

SenseFresh ==
    \A t \in Threads : pc[t] \in {"arrive", "reset", "flip"} => my_sense[t] # sense

CountOpen ==
    (\A t \in Threads : pc[t] \notin {"reset", "flip"})
        => count + Cardinality({t \in Threads : Waiting(t)}) = num_threads /\ count > 0

CountClosed ==
    \A t \in Threads :
        /\ pc[t] = "reset" => count = 0
        /\ pc[t] = "flip" => count = num_threads
        /\ pc[t] \in {"reset", "flip"} => \A u \in Threads \ {t} : Waiting(u)

InBounds == \A t \in Threads : Inside(t) => it[t] < NumIter

IInv == TypeOK /\ Agreement /\ SenseFresh /\ CountOpen /\ CountClosed /\ InBounds

\* The barrier as the harness sees it: a call is entered when the harness
\* makes it and left when it returns.
Abstract == INSTANCE BarrierSpec
    WITH Parties <- Threads,
         entered <- [t \in Threads |-> it[t] + (IF Inside(t) THEN 1 ELSE 0)],
         left <- it

=============================================================================
