------------------------ MODULE DisseminationBarrier ------------------------
(***************************************************************************)
(* The dissemination barrier of project2/mpi/gtmpi1.c: in round r a rank   *)
(* sends an empty message to the rank 2^r after it and receives one from   *)
(* the rank 2^r before it.  MPI keeps the messages of one sender to one    *)
(* receiver with one tag in order; they are all alike, so what is in       *)
(* flight is a number.  MPI_Isend never waits and its request is dropped.  *)
(***************************************************************************)
EXTENDS Harness, Rounds

Ranks == Parties

VARIABLES sent,   \* sent[s, d]: messages from s to d not yet received
          pc,     \* where each rank is
          round,  \* the loop variable of gtmpi_barrier
          it      \* the calls that have returned

vars == <<sent, pc, round, it>>

num_rounds == NumRounds(NumParties)

TypeOK ==
    /\ sent \in [Ranks \X Ranks -> Nat]
    /\ pc \in [Ranks -> {"loop", "send", "recv"}]
    /\ round \in [Ranks -> 0 .. num_rounds]
    /\ it \in [Ranks -> 0 .. NumIter]

Init ==
    /\ sent = [x \in Ranks \X Ranks |-> 0]
    /\ pc = [p \in Ranks |-> "loop"]
    /\ round = [p \in Ranks |-> 0]
    /\ it = [p \in Ranks |-> 0]

Enter(p) ==
    /\ pc[p] = "loop"
    /\ it[p] < NumIter
    /\ pc' = [pc EXCEPT ![p] = "send"]
    /\ round' = [round EXCEPT ![p] = 0]
    /\ UNCHANGED <<sent, it>>

\* MPI_Isend to send_to.
Send(p) ==
    /\ pc[p] = "send"
    /\ round[p] < num_rounds
    /\ sent' = [sent EXCEPT ![<<p, SendTo(p, round[p], NumParties)>>] = @ + 1]
    /\ pc' = [pc EXCEPT ![p] = "recv"]
    /\ UNCHANGED <<round, it>>

\* A receive that does not wait for the message.
RecvNoWait(p) ==
    /\ pc[p] = "recv"
    /\ sent' = [sent EXCEPT ![<<RecvFrom(p, round[p], NumParties), p>>] = @ - 1]
    /\ round' = [round EXCEPT ![p] = @ + 1]
    /\ pc' = [pc EXCEPT ![p] = "send"]
    /\ UNCHANGED it

\* MPI_Recv from recv_from, then the next round.
Recv(p) ==
    /\ pc[p] = "recv"
    /\ sent[<<RecvFrom(p, round[p], NumParties), p>>] > 0
    /\ sent' = [sent EXCEPT ![<<RecvFrom(p, round[p], NumParties), p>>] = @ - 1]
    /\ round' = [round EXCEPT ![p] = @ + 1]
    /\ pc' = [pc EXCEPT ![p] = "send"]
    /\ UNCHANGED it

\* A barrier that returns without the message of its last round.
LeaveEarly(p) ==
    /\ pc[p] = "recv"
    /\ round[p] = num_rounds - 1
    /\ it' = [it EXCEPT ![p] = @ + 1]
    /\ pc' = [pc EXCEPT ![p] = "loop"]
    /\ UNCHANGED <<sent, round>>

\* The loop ends and gtmpi_barrier returns.
Leave(p) ==
    /\ pc[p] = "send"
    /\ round[p] = num_rounds
    /\ it' = [it EXCEPT ![p] = @ + 1]
    /\ pc' = [pc EXCEPT ![p] = "loop"]
    /\ UNCHANGED <<sent, round>>

Step(p) == Enter(p) \/ Send(p) \/ Recv(p) \/ Leave(p)

Done == (\A p \in Ranks : pc[p] = "loop" /\ it[p] = NumIter) /\ UNCHANGED vars

Next == (\E p \in Ranks : Step(p)) \/ Done

\* Each process keeps running, and a message sent can be received.
Spec == Init /\ [][Next]_vars /\ \A p \in Ranks : WF_vars(Step(p))

-----------------------------------------------------------------------------
(* Properties *)

Inside(p) == pc[p] # "loop"

\* A rank that runs ahead can be one call ahead of another: at most two of
\* its messages wait there, and when all have left nothing is left over that
\* a later call would take for its own.
BacklogBounded ==
    /\ \A x \in Ranks \X Ranks : sent[x] <= 2
    /\ (\A p \in Ranks : ~Inside(p)) /\ (\A p, q \in Ranks : it[p] = it[q])
         => \A x \in Ranks \X Ranks : sent[x] = 0

=============================================================================
