-------------------------- MODULE CombinedBarrier ---------------------------
(***************************************************************************)
(* The barrier of project2/combined/combined.c among the threads of        *)
(* several processes: the threads of a process meet as in a                *)
(* sense-reversing barrier, and the last of them takes part in a           *)
(* dissemination barrier among the processes before it lets the others go. *)
(* Shared variables and messages are accessed as in SenseBarrier and       *)
(* DisseminationBarrier.                                                   *)
(***************************************************************************)
EXTENDS Rounds, FiniteSets

CONSTANTS NumProcs,  \* num_processes of combined_init
          Team,      \* the OpenMP threads of each process
          NumIter    \* num_iter of the harness

ASSUME CombinedAssumption ==
    /\ NumProcs \in Nat \ {0}
    /\ IsFiniteSet(Team) /\ Team # {}
    /\ NumIter \in Nat

Ranks == 0 .. NumProcs - 1
Threads == Ranks \X Team  \* t[1] is the process of t

VARIABLES count, sense,  \* count[p], sense[p]: the variables of process p
          my_sense,      \* my_sense[t]
          round,         \* the loop variable of the thread of p that sends
          sent,          \* sent[s, d]: messages from s to d not yet received
          pc, it         \* where t is, and the calls it has returned from

vars == <<count, sense, my_sense, round, sent, pc, it>>

num_threads == Cardinality(Team)
num_rounds == NumRounds(NumProcs)

TypeOK ==
    /\ count \in [Ranks -> 0 .. num_threads]
    /\ sense \in [Ranks -> BOOLEAN]
    /\ my_sense \in [Threads -> BOOLEAN]
    /\ round \in [Ranks -> 0 .. num_rounds]
    /\ sent \in [Ranks \X Ranks -> Nat]
    /\ pc \in [Threads -> {"loop", "arrive", "send", "recv", "flip", "spin"}]
    /\ it \in [Threads -> 0 .. NumIter]

\* combined_init, in every process.
Init ==
    /\ count = [p \in Ranks |-> num_threads]
    /\ sense = [p \in Ranks |-> FALSE]
    /\ my_sense = [t \in Threads |-> FALSE]
    /\ round = [p \in Ranks |-> 0]
    /\ sent = [x \in Ranks \X Ranks |-> 0]
    /\ pc = [t \in Threads |-> "loop"]
    /\ it = [t \in Threads |-> 0]

Enter(t) ==
    /\ pc[t] = "loop"
    /\ it[t] < NumIter
    /\ my_sense' = [my_sense EXCEPT ![t] = ~sense[t[1]]]
    /\ pc' = [pc EXCEPT ![t] = "arrive"]
    /\ UNCHANGED <<count, sense, round, sent, it>>

\* __sync_fetch_and_sub(&count, 1) == 1
Arrive(t) ==
    /\ pc[t] = "arrive"
    /\ count' = [count EXCEPT ![t[1]] = @ - 1]
    /\ IF count[t[1]] = 1
         THEN /\ pc' = [pc EXCEPT ![t] = "send"]
              /\ round' = [round EXCEPT ![t[1]] = 0]
         ELSE pc' = [pc EXCEPT ![t] = "spin"] /\ UNCHANGED round
    /\ UNCHANGED <<sense, my_sense, sent, it>>

\* The last thread of a process goes through the rounds.
Send(t) ==
    LET p == t[1]
    IN  /\ pc[t] = "send"
        /\ round[p] < num_rounds
        /\ sent' = [sent EXCEPT ![<<p, SendTo(p, round[p], NumProcs)>>] = @ + 1]
        /\ pc' = [pc EXCEPT ![t] = "recv"]
        /\ UNCHANGED <<count, sense, my_sense, round, it>>

Recv(t) ==
    LET p == t[1]
        from == RecvFrom(p, round[p], NumProcs)
    IN  /\ pc[t] = "recv"
        /\ sent[<<from, p>>] > 0
        /\ sent' = [sent EXCEPT ![<<from, p>>] = @ - 1]
        /\ round' = [round EXCEPT ![p] = @ + 1]
        /\ pc' = [pc EXCEPT ![t] = "send"]
        /\ UNCHANGED <<count, sense, my_sense, it>>

\* A reset of count that leaves out the thread that makes it.
ResetExcludesSelf(t) ==
    /\ pc[t] = "send"
    /\ round[t[1]] = num_rounds
    /\ count' = [count EXCEPT ![t[1]] = num_threads - 1]
    /\ pc' = [pc EXCEPT ![t] = "flip"]
    /\ UNCHANGED <<sense, my_sense, round, sent, it>>

\* count = num_threads
Reset(t) ==
    /\ pc[t] = "send"
    /\ round[t[1]] = num_rounds
    /\ count' = [count EXCEPT ![t[1]] = num_threads]
    /\ pc' = [pc EXCEPT ![t] = "flip"]
    /\ UNCHANGED <<sense, my_sense, round, sent, it>>

\* sense = my_sense, and combined_barrier returns.
Flip(t) ==
    /\ pc[t] = "flip"
    /\ sense' = [sense EXCEPT ![t[1]] = my_sense[t]]
    /\ it' = [it EXCEPT ![t] = @ + 1]
    /\ pc' = [pc EXCEPT ![t] = "loop"]
    /\ UNCHANGED <<count, my_sense, round, sent>>

\* while (sense != my_sense) ends, and combined_barrier returns.
Leave(t) ==
    /\ pc[t] = "spin"
    /\ sense[t[1]] = my_sense[t]
    /\ it' = [it EXCEPT ![t] = @ + 1]
    /\ pc' = [pc EXCEPT ![t] = "loop"]
    /\ UNCHANGED <<count, sense, my_sense, round, sent>>

Step(t) == Enter(t) \/ Arrive(t) \/ Send(t) \/ Recv(t) \/ Reset(t) \/ Flip(t) \/ Leave(t)

Done == (\A t \in Threads : pc[t] = "loop" /\ it[t] = NumIter) /\ UNCHANGED vars

Next == (\E t \in Threads : Step(t)) \/ Done

\* Each thread keeps being scheduled, and a message sent can be received.
Spec == Init /\ [][Next]_vars /\ \A t \in Threads : WF_vars(Step(t))

-----------------------------------------------------------------------------
(* Properties *)

Inside(t) == pc[t] # "loop"

\* At most one thread of a process talks to the other processes at a time,
\* and it is the one all the others of its process wait for.
OneSpeaker ==
    \A t, u \in Threads :
        pc[t] \in {"send", "recv", "flip"} /\ t[1] = u[1] /\ t # u =>
            pc[u] = "spin" /\ my_sense[u] # sense[u[1]]

=============================================================================
