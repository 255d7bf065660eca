-------------------------- MODULE MapReduceProofs ---------------------------
(***************************************************************************)
(* Facts about the MapReduce master for any number of workers, shards and  *)
(* partitions and any number of crashes and missed deadlines.              *)
(***************************************************************************)
EXTENDS MapReduce, FiniteSetTheorems, TLAPS

\* A function on 1 .. n is a sequence.
LEMMA FunctionIsSeq ==
    ASSUME NEW S, NEW n \in Nat, NEW q \in [1 .. n -> S]
    PROVE  q \in Seq(S)
  OBVIOUS

\* Counting one down where the count is positive keeps a function to Nat.
LEMMA CountDown ==
    ASSUME NEW D, NEW f \in [D -> Nat], NEW x \in D, f[x] > 0
    PROVE  [f EXCEPT ![x] = @ - 1] \in [D -> Nat]
  OBVIOUS

\* What a step leaves alone keeps its type.
LEMMA FrameTypeOK ==
    ASSUME TypeOK
    PROVE  /\ UNCHANGED wvars => WorkerTypeOK'
           /\ UNCHANGED ready_queue => (ready_queue \in Seq(Workers))'
           /\ UNCHANGED books => BooksTypeOK'
           /\ UNCHANGED counters => CountersTypeOK'
           /\ UNCHANGED flags => FlagsTypeOK'
           /\ UNCHANGED clients => ClientsTypeOK'
           /\ UNCHANGED mainvars => MainVarsTypeOK'
           /\ UNCHANGED pollvars => PollVarsTypeOK'
           /\ UNCHANGED monvars => MonitorVarsTypeOK'
  <1> USE DEF TypeOK, MasterTypeOK
  <1>1. UNCHANGED wvars => WorkerTypeOK'
    BY DEF wvars, WorkerTypeOK
  <1>2. UNCHANGED books => BooksTypeOK'
    BY DEF books, BooksTypeOK
  <1>3. UNCHANGED counters => CountersTypeOK'
    BY DEF counters, CountersTypeOK
  <1>4. UNCHANGED flags => FlagsTypeOK'
    BY Zenon DEF flags, FlagsTypeOK
  <1>5. UNCHANGED clients => ClientsTypeOK'
    BY DEF clients, ClientsTypeOK
  <1>6. UNCHANGED mainvars => MainVarsTypeOK'
    BY DEF mainvars, MainVarsTypeOK
  <1>7. UNCHANGED pollvars => PollVarsTypeOK'
    BY DEF pollvars, PollVarsTypeOK
  <1>8. UNCHANGED monvars => MonitorVarsTypeOK'
    BY DEF monvars, MonitorVarsTypeOK
  <1> QED
    BY <1>1, <1>2, <1>3, <1>4, <1>5, <1>6, <1>7, <1>8, Zenon

\* Initially every variable has its type.
LEMMA InitTypeOK == Init => TypeOK
  <1> SUFFICES ASSUME Init PROVE TypeOK
    OBVIOUS
  <1> USE WorkersAssumption, SizesAssumption DEF Init, MasterInit
  <1>1. WorkerTypeOK
    BY DEF WorkerInit, WorkerTypeOK, NoShard, FileContent
  <1>2. ready_queue \in Seq(Workers)
    BY FS_CardinalityType
  <1>3. BooksTypeOK /\ CountersTypeOK
    BY DEF BooksTypeOK, CountersTypeOK
  <1>4. FlagsTypeOK
    BY Zenon DEF FlagsTypeOK
  <1>5. ClientsTypeOK
    BY DEF ClientsTypeOK
  <1>6. MainVarsTypeOK
    <2>1. jobs \in Seq(Shards)
      BY DEF Shards
    <2> QED
      BY <2>1 DEF MainVarsTypeOK, MainLabels
  <1>7. PollVarsTypeOK
    <2>1. is_map \in BOOLEAN
      BY Zenon
    <2> QED
      BY <2>1 DEF PollVarsTypeOK, PollLabels
  <1>8. MonitorVarsTypeOK
    BY DEF MonitorVarsTypeOK, MonitorLabels
  <1> QED
    BY <1>1, <1>2, <1>3, <1>4, <1>5, <1>6, <1>7, <1>8 DEF TypeOK, MasterTypeOK

\* The main thread keeps the types.
LEMMA MainTypeOK == ASSUME TypeOK, MainStep PROVE TypeOK'
  <1> USE FrameTypeOK DEF TypeOK, MasterTypeOK
  <1>1. CASE RequestInitialRound
    <2>1. MainVarsTypeOK'
      BY <1>1 DEF RequestInitialRound, MainVarsTypeOK, MainLabels
    <2>2. FlagsTypeOK'
      BY <1>1, Zenon DEF RequestInitialRound, FlagsTypeOK
    <2> QED
      BY <1>1, <2>1, <2>2, Zenon DEF RequestInitialRound
  <1>2. CASE AwaitInitialRound
    <2>1. MainVarsTypeOK' /\ CountersTypeOK'
      BY <1>2 DEF AwaitInitialRound, MainVarsTypeOK, MainLabels, CountersTypeOK
    <2> QED
      BY <1>2, <2>1, Zenon DEF AwaitInitialRound
  <1>3. CASE PickWorker
    <2>1. Head(ready_queue) \in Workers /\ Tail(ready_queue) \in Seq(Workers)
      BY <1>3 DEF PickWorker
    <2>2. ready_queue' \in Seq(Workers)
      BY <1>3, <2>1 DEF PickWorker, PopReady
    <2>3. MainVarsTypeOK'
      BY <1>3, <2>1 DEF PickWorker, MainVarsTypeOK, MainLabels
    <2> QED
      BY <1>3, <2>2, <2>3, Zenon DEF PickWorker
  <1>4. CASE send_mapper_job
    <2>1. jobs \in Seq(Shards) /\ hand \in Workers /\ i \in 1 .. Len(jobs)
      BY <1>4 DEF send_mapper_job, MainVarsTypeOK
    <2>2. jobs[i] \in Shards
      BY <2>1
    <2>3. ClientsTypeOK'
      <3>1. CASE hand \in worker_ips
        <4>1. map_shards' = [map_shards EXCEPT ![hand] = Append(@, jobs[i])]
          BY <1>4, <3>1 DEF send_mapper_job, Assign
        <4>2. Append(map_shards[hand], jobs[i]) \in Seq(Shards)
          BY <2>1, <2>2 DEF ClientsTypeOK
        <4>3. map_shards' \in [Workers -> Seq(Shards)]
          BY <4>1, <4>2, <2>1 DEF ClientsTypeOK
        <4>4. UNCHANGED <<completed_map_jobs, completed_reduce_jobs, freed_shards>>
          BY <1>4, <3>1 DEF send_mapper_job
        <4> QED
          BY <4>3, <4>4 DEF ClientsTypeOK
      <3>2. CASE hand \notin worker_ips
        BY <1>4, <2>2, <3>2 DEF send_mapper_job, ClientsTypeOK
      <3> QED
        BY <3>1, <3>2
    <2>4. [worker |-> hand, is_map_job |-> TRUE, job |-> jobs[i],
           files |-> {}, status |-> "sent"] \in Call
      BY <2>1, <2>2 DEF Call
    <2>5. WorkerTypeOK'
      BY <1>4, <2>4 DEF send_mapper_job, WorkerTypeOK
    <2>6. MainVarsTypeOK'
      BY <1>4, <2>1 DEF send_mapper_job, MainVarsTypeOK, MainLabels
    <2> QED
      BY <1>4, <2>3, <2>5, <2>6, Zenon DEF send_mapper_job
  <1>5. CASE send_reducer_job
    <2>1. jobs \in Seq(Partitions) /\ hand \in Workers /\ i \in 1 .. Len(jobs)
      BY <1>5 DEF send_reducer_job, MainVarsTypeOK
    <2>2. jobs[i] \in Partitions
      BY <2>1
    <2>3. idx2files[jobs[i]] \in SUBSET Workers
      BY <2>2 DEF MainVarsTypeOK
    <2>4. [worker |-> hand, is_map_job |-> FALSE, job |-> jobs[i],
           files |-> idx2files[jobs[i]], status |-> "sent"] \in Call
      BY <2>1, <2>2, <2>3 DEF Call
    <2>5. WorkerTypeOK'
      BY <1>5, <2>4 DEF send_reducer_job, WorkerTypeOK
    <2>6. MainVarsTypeOK'
      BY <1>5, <2>1 DEF send_reducer_job, MainVarsTypeOK, MainLabels
    <2> QED
      BY <1>5, <2>5, <2>6, Zenon DEF send_reducer_job
  <1>6. CASE CallDroppedClient
    <2>1. MainVarsTypeOK'
      BY <1>6 DEF CallDroppedClient, MainVarsTypeOK, MainLabels
    <2> QED
      BY <1>6, <2>1, Zenon DEF CallDroppedClient
  <1>7. CASE RaiseFlagAndSleep
    <2>1. MainVarsTypeOK'
      BY <1>7 DEF RaiseFlagAndSleep, MainVarsTypeOK, MainLabels
    <2>2. FlagsTypeOK'
      BY <1>7, Zenon DEF RaiseFlagAndSleep, FlagsTypeOK
    <2> QED
      BY <1>7, <2>1, <2>2, Zenon DEF RaiseFlagAndSleep
  <1>8. CASE TriggerMonitoring
    <2>1. MainVarsTypeOK'
      BY <1>8 DEF TriggerMonitoring, MainVarsTypeOK, MainLabels
    <2>2. FlagsTypeOK'
      BY <1>8, Zenon DEF TriggerMonitoring, FlagsTypeOK
    <2> QED
      BY <1>8, <2>1, <2>2, Zenon DEF TriggerMonitoring
  <1>9. CASE UpdateComplete
    <2>1. MainVarsTypeOK'
      BY <1>9 DEF UpdateComplete, MainVarsTypeOK, MainLabels
    <2>2. FlagsTypeOK'
      BY <1>9 DEF UpdateComplete, FlagsTypeOK
    <2> QED
      BY <1>9, <2>1, <2>2, Zenon DEF UpdateComplete
  <1>10. CASE TestUnfinished \/ CheckShards
    <2>1. /\ pm' \in MainLabels /\ pm' \notin {"call", "send"}
          /\ UNCHANGED <<phase, i, hand, idx2files>>
          /\ jobs' = jobs \/ (phase = "map" /\ jobs' = <<>>)
      BY <1>10 DEF TestUnfinished, CheckShards, MainLabels
    <2>2. /\ phase' = "map" => jobs' \in Seq(Shards)
          /\ phase' = "reduce" => jobs' \in Seq(Partitions)
      <3>1. CASE jobs' = jobs
        BY <2>1, <3>1, Zenon DEF MainVarsTypeOK
      <3>2. CASE phase = "map" /\ jobs' = <<>>
        BY <2>1, <3>2
      <3> QED
        BY <2>1, <3>1, <3>2
    <2>3. MainVarsTypeOK'
      BY <2>1, <2>2 DEF MainVarsTypeOK
    <2> QED
      BY <1>10, <2>3, Zenon DEF TestUnfinished, CheckShards
  <1>16. CASE RaiseFlag
    <2>1. MainVarsTypeOK' /\ CountersTypeOK'
      BY <1>16 DEF RaiseFlag, MainVarsTypeOK, MainLabels, CountersTypeOK
    <2>2. FlagsTypeOK'
      BY <1>16, Zenon DEF RaiseFlag, FlagsTypeOK
    <2> QED
      BY <1>16, <2>1, <2>2, Zenon DEF RaiseFlag
  <1>17. CASE RefillShards
    <2>1. MainVarsTypeOK' /\ BooksTypeOK'
      BY <1>17 DEF RefillShards, MainVarsTypeOK, MainLabels, BooksTypeOK
    <2> QED
      BY <1>17, <2>1, Zenon DEF RefillShards
  <1>11. CASE CheckPartitions
    <2>2. jobs \in Seq(Partitions) /\ <<>> \in Seq(Partitions)
      BY <1>11 DEF CheckPartitions, MainVarsTypeOK
    <2>3. (jobs' = <<>> \/ jobs' = jobs) /\ pm' \in {"join", "pick"} /\ i' = 1
      BY <1>11 DEF CheckPartitions
    <2>4. jobs' \in Seq(Partitions)
      BY <2>2, <2>3, Zenon
    <2>1. MainVarsTypeOK'
      BY <1>11, <2>3, <2>4 DEF CheckPartitions, MainVarsTypeOK, MainLabels
    <2> QED
      BY <1>11, <2>1, Zenon DEF CheckPartitions
  <1>12. CASE JoinMapPoll
    <2> DEFINE found == {p \in Partitions : \E w \in Workers : <<p, w>> \in intermediate_files}
    <2>1. IsFiniteSet(Partitions)
      BY SizesAssumption, FS_Interval DEF Partitions
    <2>2. Cardinality(found) \in Nat
      BY <2>1, FS_Subset, FS_CardinalityType
    <2>3. jobs' \in Seq(Partitions)
      <3>1. PICK q \in [1 .. Cardinality(found) -> found] : jobs' = q
        BY <1>12 DEF JoinMapPoll
      <3>2. q \in Seq(Partitions)
        <4>1. found \subseteq Partitions
          OBVIOUS
        <4> HIDE DEF found
        <4>2. q \in [1 .. Cardinality(found) -> Partitions]
          BY <4>1
        <4> QED
          BY <4>2, <2>2, FunctionIsSeq
      <3> QED
        BY <3>1, <3>2
    <2>4. idx2files' \in [Partitions -> SUBSET Workers]
      BY <1>12 DEF JoinMapPoll
    <2>5. pm' = "pick" /\ phase' = "reduce" /\ i' = 1 /\ hand' = hand
      BY <1>12 DEF JoinMapPoll
    <2>6. MainVarsTypeOK'
      BY <2>3, <2>4, <2>5 DEF MainVarsTypeOK, MainLabels
    <2>7. PollVarsTypeOK'
      BY <1>12 DEF JoinMapPoll, PollVarsTypeOK, PollLabels
    <2> QED
      BY <1>12, <2>6, <2>7, Zenon DEF JoinMapPoll
  <1>13. CASE JoinReducePoll
    <2>1. MainVarsTypeOK'
      BY <1>13 DEF JoinReducePoll, MainVarsTypeOK, MainLabels
    <2>2. FlagsTypeOK'
      BY <1>13, Zenon DEF JoinReducePoll, FlagsTypeOK
    <2> QED
      BY <1>13, <2>1, <2>2, Zenon DEF JoinReducePoll
  <1>14. CASE Cleanup
    <2>1. MainVarsTypeOK'
      BY <1>14 DEF Cleanup, MainVarsTypeOK, MainLabels
    <2>2. WorkerTypeOK'
      BY <1>14 DEF Cleanup, WorkerTypeOK, FilesRemoved, FileContent, NoShard
    <2> QED
      BY <1>14, <2>1, <2>2, Zenon DEF Cleanup
  <1>15. CASE GetClient
    <2>1. MainVarsTypeOK'
      BY <1>15 DEF GetClient, MainVarsTypeOK, MainLabels
    <2> QED
      BY <1>15, <2>1, Zenon DEF GetClient
  <1> QED
    BY <1>1, <1>2, <1>3, <1>4, <1>5, <1>6, <1>7, <1>8, <1>9, <1>10, <1>11, <1>12,
       <1>13, <1>14, <1>15, <1>16, <1>17 DEF MainStep

\* The poll thread keeps the types.
LEMMA PollTypeOK == ASSUME TypeOK, PollStep PROVE TypeOK'
  <1> USE FrameTypeOK DEF TypeOK, MasterTypeOK
  <1>1. CASE TakeCall
    <2>1. PICK c \in calls :
             /\ calls' = calls \ {c}
             /\ \/ pp' = "push" /\ pcall' = c
                \/ pp' = "eval" /\ UNCHANGED pcall
      BY <1>1 DEF TakeCall
    <2>2. WorkerTypeOK'
      BY <1>1, <2>1 DEF TakeCall, WorkerTypeOK
    <2>3. c \in Call
      BY DEF WorkerTypeOK
    <2>4. PollVarsTypeOK'
      BY <1>1, <2>1, <2>3 DEF TakeCall, PollVarsTypeOK, PollLabels
    <2>5. CountersTypeOK'
      BY <1>1 DEF TakeCall, CountersTypeOK
    <2> QED
      BY <1>1, <2>2, <2>4, <2>5, Zenon DEF TakeCall
  <1>2. CASE PushReady
    <2>1. pcall \in Call
      BY <1>2 DEF PushReady, PollVarsTypeOK
    <2>2. pcall.worker \in Workers
      BY <2>1 DEF Call
    <2>3. (ready_queue \in Seq(Workers))'
      BY <1>2, <2>2 DEF PushReady, Push
    <2>4. PollVarsTypeOK'
      BY <1>2, <2>1 DEF PushReady, PollVarsTypeOK, PollLabels
    <2> QED
      BY <1>2, <2>3, <2>4, Zenon DEF PushReady
  <1>3. CASE LookUpClient
    <2>1. PollVarsTypeOK'
      BY <1>3 DEF LookUpClient, PollVarsTypeOK, PollLabels
    <2> QED
      BY <1>3, <2>1, Zenon DEF LookUpClient
  <1>4. CASE CountMapAnswer \/ CountReduceAnswer
    <2> USE DEF CountMapAnswer, CountReduceAnswer
    <2>1. CountersTypeOK'
      BY <1>4 DEF CountersTypeOK
    <2>2. PollVarsTypeOK'
      BY <1>4 DEF PollVarsTypeOK, PollLabels
    <2> QED
      BY <1>4, <2>1, <2>2, Zenon
  <1>5. CASE CreditClient
    <2>1. pcall \in Call
      BY <1>5 DEF CreditClient, PollVarsTypeOK
    <2>2. pcall.worker \in Workers
      BY <2>1 DEF Call
    <2>3. ASSUME NEW f \in [Workers -> Nat] PROVE Bump(f) \in [Workers -> Nat]
      <3> HIDE DEF TypeOK, MasterTypeOK
      <3>1. [f EXCEPT ![pcall.worker] = @ + 1] \in [Workers -> Nat]
        BY ONLY <2>2, <2>3
      <3> QED
        BY ONLY <2>3, <3>1 DEF Bump
    <2>4. completed_map_jobs \in [Workers -> Nat] /\ completed_reduce_jobs \in [Workers -> Nat]
      BY Zenon DEF ClientsTypeOK
    <2>5. /\ completed_map_jobs' \in [Workers -> Nat]
          /\ completed_reduce_jobs' \in [Workers -> Nat]
      BY <1>5, <2>3, <2>4, Zenon DEF CreditClient
    <2>6. ClientsTypeOK'
      BY <1>5, <2>5, Zenon DEF CreditClient, ClientsTypeOK
    <2>7. PollVarsTypeOK'
      BY <1>5 DEF CreditClient, PollVarsTypeOK, PollLabels
    <2> QED
      BY <1>5, <2>6, <2>7, Zenon DEF CreditClient
  <1>9. CASE RegisterFiles
    <2>1. pcall.worker \in Workers
      BY <1>9 DEF RegisterFiles, PollVarsTypeOK, Call
    <2>2. BooksTypeOK'
      BY <1>9, <2>1 DEF RegisterFiles, AnswerFiles, BooksTypeOK
    <2>3. PollVarsTypeOK'
      BY <1>9 DEF RegisterFiles, PollVarsTypeOK, PollLabels
    <2> QED
      BY <1>9, <2>2, <2>3, Zenon DEF RegisterFiles
  <1>6. CASE NotifyMain
    <2>1. MainVarsTypeOK'
      BY <1>6 DEF NotifyMain, WakeMain, MainVarsTypeOK, MainLabels
    <2>2. FlagsTypeOK'
      BY <1>6, Zenon DEF NotifyMain, FlagsTypeOK
    <2>3. is_map' \in BOOLEAN
      BY <1>6, Zenon DEF NotifyMain, FlagsTypeOK
    <2>4. PollVarsTypeOK'
      BY <1>6, <2>3 DEF NotifyMain, PollVarsTypeOK, PollLabels
    <2> QED
      BY <1>6, <2>1, <2>2, <2>4, Zenon DEF NotifyMain
  <1>7. CASE NoNotify
    <2>1. PollVarsTypeOK'
      BY <1>7 DEF NoNotify, PollVarsTypeOK, PollLabels
    <2> QED
      BY <1>7, <2>1, Zenon DEF NoNotify
  <1>8. CASE TakeFlagBack
    <2>1. FlagsTypeOK' /\ is_map' \in BOOLEAN
      BY <1>8, Zenon DEF TakeFlagBack, FlagsTypeOK
    <2>2. pp' \in {"exit", "next"} /\ pcall' = pcall
      BY <1>8 DEF TakeFlagBack
    <2>3. PollVarsTypeOK'
      BY <2>1, <2>2 DEF PollVarsTypeOK, PollLabels
    <2> QED
      BY <1>8, <2>1, <2>3, Zenon DEF TakeFlagBack
  <1> QED
    BY <1>1, <1>2, <1>3, <1>4, <1>5, <1>6, <1>7, <1>8, <1>9 DEF PollStep

\* The monitor thread keeps the types.
LEMMA MonitorTypeOK == ASSUME TypeOK, MonitorStep PROVE TypeOK'
  <1> USE FrameTypeOK DEF TypeOK, MasterTypeOK
  <1>1. CASE MonitorBegin
    <2>1. FlagsTypeOK'
      BY <1>1, Zenon DEF MonitorBegin, FlagsTypeOK
    <2>2. MonitorVarsTypeOK'
      BY <1>1 DEF MonitorBegin, MonitorVarsTypeOK, MonitorLabels
    <2> QED
      BY <1>1, <2>1, <2>2, Zenon DEF MonitorBegin
  <1>2. CASE SendPings
    <2>1. MonitorVarsTypeOK'
      BY <1>2 DEF SendPings, MonitorVarsTypeOK, MonitorLabels
    <2> QED
      BY <1>2, <2>1, Zenon DEF SendPings
  <1>3. CASE ReceivePong
    <2>1. PICK w \in Workers : pings[<<w, TRUE>>] > 0
                               /\ pings' = [pings EXCEPT ![<<w, TRUE>>] = @ - 1]
      BY <1>3 DEF ReceivePong
    <2>2. <<w, TRUE>> \in Workers \X BOOLEAN
      BY Zenon
    <2>3. pings' \in [Workers \X BOOLEAN -> Nat]
      BY <2>1, <2>2, CountDown, Zenon DEF MonitorVarsTypeOK
    <2>5. pongs' = pongs + 1 /\ UNCHANGED <<pn, failed>>
      BY <1>3, Zenon DEF ReceivePong
    <2>4. MonitorVarsTypeOK'
      BY <2>3, <2>5 DEF MonitorVarsTypeOK, MonitorLabels
    <2> QED
      BY <1>3, <2>4, Zenon DEF ReceivePong
  <1>4. CASE ReceiveError
    <2>1. MonitorVarsTypeOK'
      BY <1>4 DEF ReceiveError, MonitorVarsTypeOK, MonitorLabels
    <2>2. WorkerTypeOK'
      BY <1>4, SizesAssumption DEF ReceiveError, WorkerTypeOK
    <2> QED
      BY <1>4, <2>1, <2>2, Zenon DEF ReceiveError
  <1>5. CASE DropMapWorker
    <2>1. failed \in Workers
      BY <1>5 DEF DropMapWorker, BooksTypeOK
    <2>2. unfinished_shards' \in Seq(Shards)
      BY <1>5, <2>1 DEF DropMapWorker, GiveBack, BooksTypeOK, ClientsTypeOK
    <2>3. intermediate_files' \in SUBSET (Partitions \X Workers)
      BY <1>5 DEF DropMapWorker, RemoveIntermediate, BooksTypeOK
    <2>4. BooksTypeOK'
      BY <1>5, <2>2, <2>3 DEF DropMapWorker, RemoveWorker, BooksTypeOK
    <2>5. ClientsTypeOK' /\ CountersTypeOK'
      BY <1>5, <2>1 DEF DropMapWorker, TakeBackAnswers, RemoveWorker, ClientsTypeOK, CountersTypeOK
    <2>6. inter_file' \in [Workers -> [Partitions -> FileContent]]
      <3>1. inter_file \in [Workers -> [Partitions -> FileContent]] /\ NoShard \in FileContent
        BY DEF WorkerTypeOK, FileContent, NoShard
      <3>2. \/ inter_file' = inter_file
            \/ \E p : inter_file' = [inter_file EXCEPT ![failed] = [@ EXCEPT ![p] = NoShard]]
        BY <1>5 DEF DropMapWorker, RemoveIntermediate
      <3>3. \A p : [inter_file[failed] EXCEPT ![p] = NoShard] \in [Partitions -> FileContent]
        BY <3>1, <2>1
      <3> QED
        BY <3>1, <3>2, <3>3, <2>1
    <2>7. WorkerTypeOK'
      BY <1>5, <2>6 DEF DropMapWorker, WorkerTypeOK
    <2>8. MonitorVarsTypeOK'
      BY <1>5 DEF DropMapWorker, MonitorVarsTypeOK, MonitorLabels
    <2> QED
      BY <1>5, <2>4, <2>5, <2>7, <2>8, Zenon DEF DropMapWorker
  <1>6. CASE DropMapWorkerAgain
    <2>1. MonitorVarsTypeOK'
      BY <1>6 DEF DropMapWorkerAgain, MonitorVarsTypeOK, MonitorLabels
    <2> QED
      BY <1>6, <2>1, Zenon DEF DropMapWorkerAgain
  <1>7. CASE DropReduceWorker
    <2>1. failed \in Workers
      BY <1>7 DEF DropReduceWorker, BooksTypeOK
    <2>2. BooksTypeOK' /\ ClientsTypeOK' /\ CountersTypeOK'
      BY <1>7, <2>1, SMTT(60) DEF DropReduceWorker, RemoveWorker, BooksTypeOK, ClientsTypeOK,
                        CountersTypeOK
    <2>3. MonitorVarsTypeOK'
      BY <1>7 DEF DropReduceWorker, MonitorVarsTypeOK, MonitorLabels
    <2> QED
      BY <1>7, <2>2, <2>3, Zenon DEF DropReduceWorker
  <1>8. CASE DropReduceWorkerAgain
    <2>1. MainVarsTypeOK'
      BY <1>8 DEF DropReduceWorkerAgain, MainVarsTypeOK, MainLabels
    <2> QED
      BY <1>8, <2>1, Zenon DEF DropReduceWorkerAgain
  <1>9. CASE EndRound
    <2>1. FlagsTypeOK'
      BY <1>9, Zenon DEF EndRound, FlagsTypeOK
    <2>2. MonitorVarsTypeOK'
      BY <1>9 DEF EndRound, MonitorVarsTypeOK, MonitorLabels
    <2> QED
      BY <1>9, <2>1, <2>2, Zenon DEF EndRound
  <1>10. CASE MonitorExit
    <2>1. FlagsTypeOK'
      BY <1>10, Zenon DEF MonitorExit, FlagsTypeOK
    <2>2. MonitorVarsTypeOK'
      BY <1>10 DEF MonitorExit, MonitorVarsTypeOK, MonitorLabels
    <2> QED
      BY <1>10, <2>1, <2>2, Zenon DEF MonitorExit
  <1>11. CASE EndInitialRound
    <2>1. FlagsTypeOK'
      BY <1>11, Zenon DEF EndInitialRound, FlagsTypeOK
    <2>2. MonitorVarsTypeOK'
      BY <1>11 DEF EndInitialRound, MonitorVarsTypeOK, MonitorLabels
    <2> QED
      BY <1>11, <2>1, <2>2, Zenon DEF EndInitialRound
  <1> QED
    BY <1>1, <1>2, <1>3, <1>4, <1>5, <1>6, <1>7, <1>8, <1>9, <1>10, <1>11
       DEF MonitorStep

\* A dump, whole or not, keeps the types of the intermediate files.
LEMMA DumpTypeOK ==
    ASSUME WorkerTypeOK, NEW w, NEW s, NEW P
    PROVE  Dump(w, s, P) \in [Workers -> [Partitions -> FileContent]]
  <1> DEFINE g == [p \in Partitions |-> [t \in Shards |->
                    inter_file[w][p][t] + (IF p \in P /\ t = s THEN 1 ELSE 0)]]
  <1>1. w \in Workers => g \in [Partitions -> FileContent]
    BY DEF WorkerTypeOK, FileContent
  <1>2. Dump(w, s, P) = [inter_file EXCEPT ![w] = g]
    BY DEF Dump
  <1> HIDE DEF g
  <1> QED
    BY <1>1, <1>2 DEF WorkerTypeOK

\* Doing a map or a reduce job keeps the types of the files.
LEMMA HandleJobTypeOK ==
    ASSUME WorkerTypeOK, NEW j \in Jobs, HandleJob(j)
    PROVE  /\ inter_file' \in [Workers -> [Partitions -> FileContent]]
           /\ output_file' \in [Partitions -> Seq(Chunk)]
  <1> USE DEF WorkerTypeOK
  <1>1. CASE handle_map_job(j)
    <2>1. /\ inter_file' = Dump(j.worker, j.job, Partitions)
          /\ output_file' = output_file
      BY <1>1 DEF handle_map_job
    <2> QED
      BY <2>1, DumpTypeOK
  <1>2. CASE handle_reduce_job(j)
    <2>1. inter_file' = inter_file
      BY <1>2 DEF handle_reduce_job
    <2> DEFINE ch == [w \in Workers |-> IF w \in j.files THEN inter_file[w][j.job] ELSE NoShard]
    <2>2. output_file' = [output_file EXCEPT ![j.job] = Append(@, ch)]
      BY <1>2 DEF handle_reduce_job
    <2>3. j.job \in Partitions => ch \in Chunk
      BY DEF Chunk, FileContent, NoShard
    <2> HIDE DEF ch
    <2>4. j.job \in Partitions => Append(output_file[j.job], ch) \in Seq(Chunk)
      BY <2>3
    <2>5. output_file' \in [Partitions -> Seq(Chunk)]
      BY <2>2, <2>4
    <2> QED
      BY <2>1, <2>5
  <1> QED
    BY <1>1, <1>2 DEF HandleJob

\* A call is a job, and stays a call when it ends.
LEMMA CallTypeOK ==
    ASSUME NEW c \in Call
    PROVE  /\ JobOf(c) \in Jobs
           /\ [c EXCEPT !.status = "ok"] \in Call
           /\ [c EXCEPT !.status = "error"] \in Call
  BY DEF Call, Jobs, JobOf

\* The workers keep the types.
LEMMA WorkerStepTypeOK == ASSUME TypeOK, WorkerStep PROVE TypeOK'
  <1>1. WorkerTypeOK'
    <2> USE DEF TypeOK
    <2>1. ASSUME NEW w \in Workers, Proceed(w) PROVE WorkerTypeOK'
      <3>1. PICK c \in calls :
               /\ HandleJob(JobOf(c))
               /\ calls' = (calls \ {c}) \cup {[c EXCEPT !.status = "ok"]}
               /\ UNCHANGED <<alive, late, crashes, timeouts>>
        BY <2>1 DEF Proceed
      <3>2. c \in Call
        BY DEF WorkerTypeOK
      <3> QED
        BY <3>1, <3>2, CallTypeOK, HandleJobTypeOK DEF WorkerTypeOK
    <2>2. ASSUME NEW w \in Workers, ProceedLate(w) PROVE WorkerTypeOK'
      <3>1. PICK j \in late :
               /\ HandleJob(j)
               /\ late' = late \ {j}
               /\ UNCHANGED <<alive, calls, crashes, timeouts>>
        BY <2>2 DEF ProceedLate
      <3>2. j \in Jobs
        BY DEF WorkerTypeOK
      <3> QED
        BY <3>1, <3>2, HandleJobTypeOK DEF WorkerTypeOK
    <2>3. ASSUME NEW w \in Workers, Unavailable(w) PROVE WorkerTypeOK'
      BY <2>3, CallTypeOK DEF Unavailable, WorkerTypeOK
    <2>4. CASE Deadline
      <3>1. PICK c \in calls :
               /\ calls' = (calls \ {c}) \cup {[c EXCEPT !.status = "error"]}
               /\ late' = late \cup {JobOf(c)}
               /\ timeouts < MaxTimeout
               /\ timeouts' = timeouts + 1
               /\ UNCHANGED <<alive, inter_file, output_file, crashes>>
        BY <2>4 DEF Deadline
      <3>2. c \in Call
        BY DEF WorkerTypeOK
      <3>3. calls' \in SUBSET Call /\ late' \in SUBSET Jobs
        BY <3>1, <3>2, CallTypeOK DEF WorkerTypeOK
      <3>4. timeouts' \in 0 .. MaxTimeout
        BY <3>1, SizesAssumption DEF WorkerTypeOK
      <3> QED
        BY <3>1, <3>3, <3>4 DEF WorkerTypeOK
    <2>5. ASSUME NEW w \in Workers, Crash(w) PROVE WorkerTypeOK'
      <3>1. /\ crashes' \in 0 .. MaxCrash
            /\ late' \in SUBSET Jobs
            /\ UNCHANGED <<calls, timeouts>>
        BY <2>5, SizesAssumption DEF Crash, WorkerTypeOK
      <3>2. alive' \in [Workers -> BOOLEAN]
        BY <2>5 DEF Crash, WorkerTypeOK
      <3>3. /\ inter_file' \in [Workers -> [Partitions -> FileContent]]
            /\ output_file' \in [Partitions -> Seq(Chunk)]
        <4>1. CASE UNCHANGED <<inter_file, output_file>>
          BY <4>1 DEF WorkerTypeOK
        <4>2. ASSUME NEW j, NEW P \in SUBSET Partitions,
                     inter_file' = Dump(w, j.job, P), UNCHANGED output_file
              PROVE  /\ inter_file' \in [Workers -> [Partitions -> FileContent]]
                     /\ output_file' \in [Partitions -> Seq(Chunk)]
          BY <4>2, DumpTypeOK DEF WorkerTypeOK
        <4>3. ASSUME NEW j \in late \cup {JobOf(c) : c \in {d \in calls : d.status = "sent"}},
                     ~j.is_map_job, handle_reduce_job(j)
              PROVE  /\ inter_file' \in [Workers -> [Partitions -> FileContent]]
                     /\ output_file' \in [Partitions -> Seq(Chunk)]
          <5>1. j \in Jobs
            BY CallTypeOK DEF WorkerTypeOK
          <5>2. HandleJob(j)
            BY <4>3 DEF HandleJob
          <5> QED
            BY <5>1, <5>2, HandleJobTypeOK
        <4> QED
          BY <2>5, <4>1, <4>2, <4>3 DEF Crash
      <3> QED
        BY <3>1, <3>2, <3>3 DEF WorkerTypeOK
    <2> QED
      BY <2>1, <2>2, <2>3, <2>4, <2>5 DEF WorkerStep, WorkerNext
  <1> QED
    BY <1>1, FrameTypeOK, Zenon DEF WorkerStep, TypeOK, MasterTypeOK

\* Every variable of master and workers keeps its type, and the positions of
\* the threads agree with their locals (a worker in hand has a job to get).
THEOREM TypeCorrect == Spec => []TypeOK
  <1>1. ASSUME TypeOK, [Next]_vars PROVE TypeOK'
    <2>1. CASE SpuriousWakeup
      <3>1. MainVarsTypeOK'
        BY <1>1, <2>1 DEF SpuriousWakeup, TypeOK, MasterTypeOK, MainVarsTypeOK, MainLabels
      <3> QED
        BY <1>1, <2>1, <3>1, FrameTypeOK, Zenon DEF SpuriousWakeup, TypeOK, MasterTypeOK
    <2>2. CASE UNCHANGED vars
      BY <1>1, <2>2, FrameTypeOK, Zenon DEF vars, TypeOK, MasterTypeOK
    <2> QED
      BY <1>1, <2>1, <2>2, MainTypeOK, PollTypeOK, MonitorTypeOK, WorkerStepTypeOK
         DEF Next, Terminated
  <1> QED
    BY <1>1, InitTypeOK, PTL DEF Spec

-----------------------------------------------------------------------------
(* No shard is forgotten.  Seven actions touch what NoShardForgotten is      *)
(* about; the others frame it.                                               *)

\* Where the threads stand agrees with the books: the main thread asks whether
\* a phase is over when it has dispatched all of its jobs, and it is past the
\* map phase, and the monitor in the branch of the reduce phase, only when the
\* map phase is complete.
Positions ==
    /\ pm \in {"asleep", "woken", "triggered", "counting", "raising", "check", "again"}
         => i > Len(jobs)
    /\ phase = "reduce" \/ pm \in {"leave", "join", "stopping", "done", "failed"}
         => map_complete
    /\ pn = "drop_reduce" => map_complete

shardvars == <<map_complete, phase, jobs, i, unfinished_shards, worker_ips, map_shards,
               freed_shards>>

LEMMA ShardsFrame ==
    ASSUME NoShardForgotten, UNCHANGED shardvars
    PROVE  NoShardForgotten'
  BY Zenon DEF NoShardForgotten, InRest, InSeq, shardvars

\* Sending a shard: it moves from the rest of the vector to the client, or to
\* the destroyed client; the others stay where they are.
LEMMA SendKeepsShards ==
    ASSUME TypeOK, NoShardForgotten, send_mapper_job
    PROVE  NoShardForgotten'
  <1>1. /\ jobs \in Seq(Shards) /\ i \in 1 .. Len(jobs) /\ hand \in Workers
        /\ map_shards \in [Workers -> Seq(Shards)]
        /\ worker_ips \subseteq Workers
    BY DEF TypeOK, MasterTypeOK, MainVarsTypeOK, ClientsTypeOK, BooksTypeOK, send_mapper_job
  <1>2. /\ phase = "map" /\ i' = i + 1
        /\ UNCHANGED <<phase, jobs, unfinished_shards, worker_ips, map_complete>>
        /\ hand \in worker_ips => map_shards' = Assign(hand) /\ freed_shards' = freed_shards
        /\ hand \notin worker_ips =>
              freed_shards' = freed_shards \cup {jobs[i]} /\ map_shards' = map_shards
    BY DEF send_mapper_job, books, flags
  <1> SUFFICES ASSUME ~map_complete, NEW s \in Shards, s \notin freed_shards'
               PROVE  \/ InRest(s)'
                      \/ InSeq(s, unfinished_shards)'
                      \/ (\E w \in worker_ips : InSeq(s, map_shards[w]))'
    BY <1>2, Zenon DEF NoShardForgotten
  <1>3. s \notin freed_shards
    BY <1>2
  <1>4. CASE InRest(s)
    <2>1. PICK k \in i .. Len(jobs) : jobs[k] = s
      BY <1>4 DEF InRest
    <2>2. CASE k = i
      <3>1. hand \in worker_ips /\ map_shards' = Assign(hand)
        BY <1>2, <2>1, <2>2
      <3>2. map_shards'[hand] = Append(map_shards[hand], s)
        BY <1>1, <2>1, <2>2, <3>1 DEF Assign
      <3>3. InSeq(s, map_shards'[hand])
        BY <1>1, <3>2 DEF InSeq
      <3> QED
        BY <1>2, <3>1, <3>3 DEF InSeq
    <2>3. CASE k # i
      <3>1. k \in i' .. Len(jobs')
        BY <1>1, <1>2, <2>1, <2>3
      <3> QED
        BY <1>2, <2>1, <3>1 DEF InRest
    <2> QED
      BY <2>2, <2>3
  <1>5. CASE InSeq(s, unfinished_shards)
    BY <1>2, <1>5, Zenon DEF InSeq
  <1>6. CASE \E w \in worker_ips : InSeq(s, map_shards[w])
    <2>1. PICK w \in worker_ips : InSeq(s, map_shards[w])
      BY <1>6
    <2>2. CASE hand \in worker_ips /\ w = hand
      <3>1. map_shards'[w] = Append(map_shards[w], jobs[i])
        BY <1>1, <1>2, <2>2 DEF Assign
      <3>2. PICK k \in 1 .. Len(map_shards[w]) : map_shards[w][k] = s
        BY <2>1 DEF InSeq
      <3>3. k \in 1 .. Len(map_shards'[w]) /\ map_shards'[w][k] = s
        BY <1>1, <3>1, <3>2, <2>2
      <3> QED
        BY <1>2, <3>3 DEF InSeq
    <2>3. CASE ~(hand \in worker_ips /\ w = hand)
      <3>1. map_shards'[w] = map_shards[w]
        BY <1>1, <1>2, <2>3 DEF Assign
      <3> QED
        BY <1>2, <2>1, <3>1 DEF InSeq
    <2> QED
      BY <2>2, <2>3
  <1> QED
    BY <1>3, <1>4, <1>5, <1>6 DEF NoShardForgotten

\* The next pass over the shards: the unfinished ones are the new rest.
LEMMA RefillKeepsShards ==
    ASSUME TypeOK, Positions, NoShardForgotten, RefillShards, ~map_complete
    PROVE  NoShardForgotten'
  <1>1. /\ phase = "map" /\ i' = 1
        /\ UNCHANGED <<phase, worker_ips, map_complete, map_shards, freed_shards>>
        /\ jobs' = IF unfinished_shards # <<>> THEN unfinished_shards ELSE jobs
    BY DEF RefillShards, flags, clients
  <1>2. i \in Nat /\ i > Len(jobs) /\ jobs \in Seq(Shards) /\ unfinished_shards \in Seq(Shards)
    BY <1>1 DEF TypeOK, MasterTypeOK, MainVarsTypeOK, BooksTypeOK, Positions, RefillShards
  <1> SUFFICES ASSUME ~map_complete, NEW s \in Shards, s \notin freed_shards
               PROVE  \/ InRest(s)'
                      \/ (\E w \in worker_ips : InSeq(s, map_shards[w]))'
    BY <1>1, Zenon DEF NoShardForgotten
  <1>3. ~InRest(s)
    BY <1>2 DEF InRest
  <1>4. CASE InSeq(s, unfinished_shards)
    <2>1. PICK k \in 1 .. Len(unfinished_shards) : unfinished_shards[k] = s
      BY <1>4 DEF InSeq
    <2>2. unfinished_shards # <<>>
      BY <1>2, <2>1
    <2>3. jobs' = unfinished_shards
      BY <1>1, <2>2
    <2> QED
      BY <1>1, <2>1, <2>3 DEF InRest
  <1>5. CASE \E w \in worker_ips : InSeq(s, map_shards[w])
    BY <1>1, <1>5, Zenon DEF InSeq
  <1> QED
    BY <1>3, <1>4, <1>5, Zenon DEF NoShardForgotten

\* Dropping a worker in the map phase: its shards become unfinished.
LEMMA DropKeepsShards ==
    ASSUME TypeOK, NoShardForgotten, DropMapWorker
    PROVE  NoShardForgotten'
  <1>1. /\ UNCHANGED <<phase, jobs, i, map_complete, freed_shards>>
        /\ unfinished_shards' = unfinished_shards \o map_shards[failed]
        /\ worker_ips' = worker_ips \ {failed}
        /\ map_shards' = [map_shards EXCEPT ![failed] = <<>>]
    BY DEF DropMapWorker, GiveBack, RemoveWorker, mainvars, flags
  <1>2. /\ unfinished_shards \in Seq(Shards) /\ worker_ips \subseteq Workers
        /\ map_shards \in [Workers -> Seq(Shards)] /\ failed \in Workers
    BY DEF TypeOK, MasterTypeOK, BooksTypeOK, ClientsTypeOK, DropMapWorker
  <1> SUFFICES ASSUME ~map_complete, NEW s \in Shards, s \notin freed_shards
               PROVE  \/ InRest(s)'
                      \/ InSeq(s, unfinished_shards)'
                      \/ (\E w \in worker_ips : InSeq(s, map_shards[w]))'
    BY <1>1, Zenon DEF NoShardForgotten
  <1>3. CASE InRest(s)
    BY <1>1, <1>3, Zenon DEF InRest
  <1>4. CASE InSeq(s, unfinished_shards)
    <2>1. PICK k \in 1 .. Len(unfinished_shards) : unfinished_shards[k] = s
      BY <1>4 DEF InSeq
    <2>2. k \in 1 .. Len(unfinished_shards') /\ unfinished_shards'[k] = s
      BY <1>1, <1>2, <2>1
    <2> QED
      BY <2>2 DEF InSeq
  <1>5. ASSUME NEW w \in worker_ips, InSeq(s, map_shards[w])
        PROVE  \/ InSeq(s, unfinished_shards)'
               \/ (\E v \in worker_ips : InSeq(s, map_shards[v]))'
    <2>1. CASE w = failed
      <3>1. PICK k \in 1 .. Len(map_shards[failed]) : map_shards[failed][k] = s
        BY <1>5, <2>1 DEF InSeq
      <3>2. DEFINE m == Len(unfinished_shards) + k
      <3>3. m \in 1 .. Len(unfinished_shards') /\ unfinished_shards'[m] = s
        BY <1>1, <1>2, <3>1
      <3> QED
        BY <3>3 DEF InSeq
    <2>2. CASE w # failed
      <3>1. w \in worker_ips' /\ map_shards'[w] = map_shards[w]
        BY <1>1, <1>2, <2>2
      <3> QED
        BY <1>5, <3>1 DEF InSeq
    <2> QED
      BY <2>1, <2>2
  <1> QED
    BY <1>3, <1>4, <1>5 DEF NoShardForgotten

\* The main thread keeps the shards and the order of the phases.
LEMMA MainKeepsShards ==
    ASSUME TypeOK, Positions, NoShardForgotten, MainStep
    PROVE  Positions' /\ NoShardForgotten'
  <1>1. i \in Nat /\ map_complete \in BOOLEAN
    BY DEF TypeOK, MasterTypeOK, MainVarsTypeOK, FlagsTypeOK
  <1>2. ASSUME map_complete, map_complete' PROVE NoShardForgotten'
    BY <1>2, Zenon DEF NoShardForgotten
  <1> USE DEF flags, books, clients, mainvars, monvars
  <1>3. CASE RequestInitialRound \/ AwaitInitialRound \/ PickWorker \/ GetClient
             \/ CallDroppedClient \/ RaiseFlagAndSleep \/ TriggerMonitoring
             \/ TestUnfinished \/ RaiseFlag
    <2> USE DEF RequestInitialRound, AwaitInitialRound, PickWorker, GetClient,
                CallDroppedClient, RaiseFlagAndSleep, TriggerMonitoring, TestUnfinished,
                RaiseFlag
    <2>1. Positions'
      BY <1>1, <1>3 DEF Positions
    <2>2. UNCHANGED shardvars
      BY <1>3, Zenon DEF shardvars
    <2> QED
      BY <2>1, <2>2, ShardsFrame, Zenon
  <1>4. CASE send_mapper_job
    <2>1. Positions'
      BY <1>1, <1>4 DEF Positions, send_mapper_job
    <2> QED
      BY <1>4, <2>1, SendKeepsShards, Zenon
  <1>5. CASE send_reducer_job
    <2>1. Positions' /\ map_complete /\ map_complete'
      BY <1>1, <1>5 DEF Positions, send_reducer_job
    <2> QED
      BY <1>2, <2>1, Zenon
  <1>6. CASE UpdateComplete
    <2>1. /\ pm = "counting" /\ pm' = "raising"
          /\ UNCHANGED <<phase, jobs, i, pn>>
          /\ map_complete => map_complete'
      BY <1>6, Zenon DEF UpdateComplete
    <2>2. UNCHANGED <<phase, jobs, i, unfinished_shards, worker_ips, map_shards, freed_shards>>
      BY <1>6, Zenon DEF UpdateComplete
    <2>3. phase = "reduce" \/ pn = "drop_reduce" => map_complete
      BY Zenon DEF Positions
    <2>4. i > Len(jobs)
      BY <2>1 DEF Positions
    <2>5. i' > Len(jobs')
      BY <2>1, <2>4, Zenon
    <2>6. pm' \notin {"leave", "join", "stopping", "done", "failed"}
      BY <2>1
    <2>7. Positions'
      <3>1. (phase = "reduce" \/ pm \in {"leave", "join", "stopping", "done", "failed"}
               => map_complete)'
        BY <2>1, <2>3, <2>6, Zenon
      <3>2. (pn = "drop_reduce" => map_complete)'
        BY <2>1, <2>3, Zenon
      <3> QED
        BY <2>5, <3>1, <3>2, Zenon DEF Positions
    <2>8. CASE map_complete'
      BY <2>7, <2>8, Zenon DEF NoShardForgotten
    <2>9. CASE ~map_complete'
      <3>1. map_complete' = map_complete
        <4>1. map_complete = FALSE
          BY <1>1, <2>9, <2>1, Zenon
        <4>2. map_complete' = (map_complete \/ MapCounted)
          BY <1>6, Zenon DEF UpdateComplete
        <4>3. map_complete' = FALSE
          BY <2>9, <4>2
        <4> QED
          BY <4>1, <4>3, Zenon
      <3>2. UNCHANGED shardvars
        BY <2>2, <3>1, Zenon DEF shardvars
      <3> QED
        BY <2>7, <3>2, ShardsFrame, Zenon
    <2> QED
      BY <2>7, <2>8, <2>9, Zenon
  <1>7. CASE CheckShards \/ RefillShards
    <2>1. Positions' /\ map_complete' = map_complete
      BY <1>1, <1>7 DEF Positions, CheckShards, RefillShards
    <2>2. CASE map_complete
      BY <1>2, <2>1, <2>2, Zenon
    <2>3. CASE CheckShards /\ ~map_complete
      <3>1. UNCHANGED shardvars
        BY <2>3 DEF CheckShards, shardvars
      <3> QED
        BY <2>1, <3>1, ShardsFrame, Zenon
    <2>4. CASE RefillShards /\ ~map_complete
      BY <2>1, <2>4, RefillKeepsShards, Zenon
    <2> QED
      BY <1>7, <2>2, <2>3, <2>4, Zenon
  <1>8. CASE CheckPartitions \/ JoinMapPoll \/ JoinReducePoll \/ Cleanup
    <2> USE DEF CheckPartitions, JoinMapPoll, JoinReducePoll, Cleanup
    <2>1. map_complete /\ map_complete' = map_complete
      BY <1>1, <1>8 DEF Positions
    <2>2. Positions'
      BY <1>8, <2>1 DEF Positions
    <2> QED
      BY <1>2, <2>1, <2>2, Zenon
  <1> QED
    BY <1>3, <1>4, <1>5, <1>6, <1>7, <1>8, Zenon DEF MainStep

\* So do the other threads and the workers.
LEMMA OthersKeepShards ==
    ASSUME TypeOK, Positions, NoShardForgotten,
           SpuriousWakeup \/ PollStep \/ MonitorStep \/ WorkerStep \/ UNCHANGED vars
    PROVE  Positions' /\ NoShardForgotten'
  <1> USE DEF flags, books, clients, mainvars, monvars
  <1>1. CASE SpuriousWakeup \/ WorkerStep \/ UNCHANGED vars
    <2>1. Positions'
      BY <1>1 DEF Positions, SpuriousWakeup, WorkerStep, vars
    <2>2. UNCHANGED shardvars
      BY <1>1, Zenon DEF shardvars, SpuriousWakeup, WorkerStep, vars
    <2> QED
      BY <2>1, <2>2, ShardsFrame, Zenon
  <1>2. CASE PollStep
    <2> USE DEF PollStep, TakeCall, PushReady, LookUpClient, CountMapAnswer,
                CountReduceAnswer, CreditClient, RegisterFiles, NotifyMain, WakeMain,
                NoNotify, TakeFlagBack
    <2>1. Positions'
      BY <1>2 DEF Positions
    <2>2. UNCHANGED shardvars
      BY <1>2, Zenon DEF shardvars
    <2> QED
      BY <2>1, <2>2, ShardsFrame, Zenon
  <1>3. CASE MonitorBegin \/ SendPings \/ ReceivePong \/ ReceiveError \/ DropMapWorkerAgain
             \/ DropReduceWorkerAgain \/ EndInitialRound \/ EndRound \/ MonitorExit
    <2> USE DEF MonitorBegin, SendPings, ReceivePong, ReceiveError, DropMapWorkerAgain,
                DropReduceWorkerAgain, EndInitialRound, EndRound, MonitorExit
    <2>1. Positions'
      BY <1>3 DEF Positions
    <2>2. UNCHANGED shardvars
      BY <1>3, Zenon DEF shardvars
    <2> QED
      BY <2>1, <2>2, ShardsFrame, Zenon
  <1>4. CASE DropMapWorker
    <2>1. Positions'
      BY <1>4 DEF Positions, DropMapWorker
    <2> QED
      BY <1>4, <2>1, DropKeepsShards, Zenon
  <1>5. CASE DropReduceWorker
    <2>1. Positions' /\ map_complete'
      BY <1>5 DEF Positions, DropReduceWorker
    <2> QED
      BY <2>1, Zenon DEF NoShardForgotten
  <1> QED
    BY <1>1, <1>2, <1>3, <1>4, <1>5, Zenon DEF MonitorStep

\* Together, by induction.
LEMMA PositionsAndShards == Spec => [](Positions /\ NoShardForgotten)
  <1>1. ASSUME Init PROVE Positions /\ NoShardForgotten
    <2>1. pm = "start" /\ phase = "map" /\ pn = "begin" /\ jobs = [s \in Shards |-> s] /\ i = 1
      BY <1>1 DEF Init, MasterInit
    <2>2. Len(jobs) = NumShards
      BY <2>1, SizesAssumption DEF Shards
    <2>3. ASSUME NEW s \in Shards PROVE InRest(s)
      BY <2>1, <2>2, <2>3 DEF InRest, Shards
    <2> QED
      BY <2>1, <2>3 DEF Positions, NoShardForgotten
  <1>2. ASSUME TypeOK, Positions /\ NoShardForgotten, [Next]_vars
        PROVE  (Positions /\ NoShardForgotten)'
    BY <1>2, MainKeepsShards, OthersKeepShards, Zenon DEF Next, Terminated
  <1> QED
    BY <1>1, <1>2, TypeCorrect, PTL DEF Spec

\* Whatever workers fail, answer late or not at all, and whenever the monitor
\* drops them, the books of the master know every shard until the map phase is
\* complete.
THEOREM ShardsKept == Spec => []NoShardForgotten
  BY PositionsAndShards, PTL

-----------------------------------------------------------------------------
(* A worker has one job at most.                                             *)

InHand(w) == pm \in {"call", "send"} /\ hand = w
UnderWay(w) == \E c \in calls : c.worker = w
ComesBack(w) == pp = "push" /\ pcall.worker = w

\* OneJobPerWorker without counting: the places a worker can be in exclude
\* each other, and it is in none of them twice.
Tokens ==
    /\ \A k, l \in 1 .. Len(ready_queue) : ready_queue[k] = ready_queue[l] => k = l
    /\ \A c, d \in calls : c.worker = d.worker => c = d
    /\ \A w \in Workers :
         /\ InSeq(w, ready_queue) => ~InHand(w) /\ ~UnderWay(w) /\ ~ComesBack(w)
         /\ InHand(w) => ~UnderWay(w) /\ ~ComesBack(w)
         /\ UnderWay(w) => ~ComesBack(w)

tokenvars == <<ready_queue, pm, hand, calls, pp, pcall>>

\* A set whose members are all equal has one at most.
LEMMA AtMostOne ==
    ASSUME NEW S, \A x, y \in S : x = y
    PROVE  /\ Cardinality(S) \in {0, 1}
           /\ S = {} => Cardinality(S) = 0
  <1>1. CASE S = {}
    BY <1>1, FS_EmptySet
  <1>2. CASE S # {}
    <2>1. PICK x : x \in S
      BY <1>2
    <2>2. S = {x}
      BY <2>1
    <2> QED
      BY <1>2, <2>2, FS_Singleton
  <1> QED
    BY <1>1, <1>2

\* Places that exclude each other add up to one at most.
LEMMA TokensCounted == ASSUME TypeOK, Tokens PROVE OneJobPerWorker
  <1> SUFFICES ASSUME NEW w \in Workers
               PROVE  Cardinality(Ready(w)) + (IF InHand(w) THEN 1 ELSE 0)
                        + Cardinality({c \in calls : c.worker = w})
                        + (IF ComesBack(w) THEN 1 ELSE 0) <= 1
    BY DEF OneJobPerWorker, InHand, ComesBack
  <1> DEFINE under == {c \in calls : c.worker = w}
  <1>1. /\ Cardinality(Ready(w)) \in {0, 1}
        /\ Ready(w) = {} => Cardinality(Ready(w)) = 0
    <2>1. \A k, l \in Ready(w) : k = l
      BY DEF Ready, Tokens
    <2> QED
      BY <2>1, AtMostOne
  <1>2. /\ Cardinality(under) \in {0, 1}
        /\ under = {} => Cardinality(under) = 0
    <2>1. \A c, d \in under : c = d
      BY DEF Tokens
    <2> QED
      BY <2>1, AtMostOne
  <1>3. /\ Ready(w) # {} <=> InSeq(w, ready_queue)
        /\ under # {} <=> UnderWay(w)
    BY DEF Ready, InSeq, UnderWay
  <1>4. /\ InSeq(w, ready_queue) => ~InHand(w) /\ ~UnderWay(w) /\ ~ComesBack(w)
        /\ InHand(w) => ~UnderWay(w) /\ ~ComesBack(w)
        /\ UnderWay(w) => ~ComesBack(w)
    BY DEF Tokens
  <1>5. Cardinality(Ready(w)) + (IF InHand(w) THEN 1 ELSE 0) + Cardinality(under)
          + (IF ComesBack(w) THEN 1 ELSE 0) <= 1
    <2> HIDE DEF under
    <2>1. CASE InSeq(w, ready_queue)
      BY <1>1, <1>2, <1>3, <1>4, <2>1
    <2>2. CASE InHand(w)
      BY <1>1, <1>2, <1>3, <1>4, <2>2
    <2>3. CASE UnderWay(w)
      BY <1>1, <1>2, <1>3, <1>4, <2>3
    <2>4. CASE ~InSeq(w, ready_queue) /\ ~InHand(w) /\ ~UnderWay(w)
      BY <1>1, <1>2, <1>3, <1>4, <2>4
    <2> QED
      BY <2>1, <2>2, <2>3, <2>4
  <1> QED
    BY <1>5

\* What does not touch the places of the workers keeps them.
LEMMA TokensFrame == ASSUME Tokens, UNCHANGED tokenvars PROVE Tokens'
  BY Zenon DEF Tokens, tokenvars, InSeq, InHand, UnderWay, ComesBack

\* Giving up the hand, or moving on with the same one, keeps the places.
LEMMA TokensLess ==
    ASSUME Tokens, UNCHANGED <<ready_queue, calls>>,
           \A w \in Workers : InHand(w)' => InHand(w),
           \A w \in Workers : ComesBack(w)' => ComesBack(w)
    PROVE  Tokens'
  <1>1. \A w \in Workers : (InSeq(w, ready_queue)' <=> InSeq(w, ready_queue))
                           /\ (UnderWay(w)' <=> UnderWay(w))
    BY DEF InSeq, UnderWay
  <1>2. \A k, l \in 1 .. Len(ready_queue') : ready_queue'[k] = ready_queue'[l] => k = l
    BY DEF Tokens
  <1>3. \A c, d \in calls' : c.worker = d.worker => c = d
    BY DEF Tokens
  <1>4. \A w \in Workers :
          /\ InSeq(w, ready_queue)' => ~InHand(w)' /\ ~UnderWay(w)' /\ ~ComesBack(w)'
          /\ InHand(w)' => ~UnderWay(w)' /\ ~ComesBack(w)'
          /\ UnderWay(w)' => ~ComesBack(w)'
    BY <1>1 DEF Tokens
  <1> QED
    BY <1>2, <1>3, <1>4 DEF Tokens

\* Replacing a call by one of the same worker keeps the places.
LEMMA TokensSameWorker ==
    ASSUME Tokens, UNCHANGED <<ready_queue, pm, hand, pp, pcall>>,
           NEW c \in calls, NEW d, d.worker = c.worker, calls' = (calls \ {c}) \cup {d}
    PROVE  Tokens'
  <1>1. \A w \in Workers : /\ InSeq(w, ready_queue)' <=> InSeq(w, ready_queue)
                           /\ InHand(w)' <=> InHand(w)
                           /\ ComesBack(w)' <=> ComesBack(w)
    BY DEF InSeq, InHand, ComesBack
  <1>2. \A w \in Workers : UnderWay(w)' <=> UnderWay(w)
    BY DEF UnderWay
  <1>3. \A k, l \in 1 .. Len(ready_queue') : ready_queue'[k] = ready_queue'[l] => k = l
    BY DEF Tokens
  <1>4. \A e, f \in calls' : e.worker = f.worker => e = f
    BY DEF Tokens
  <1>5. \A w \in Workers :
          /\ InSeq(w, ready_queue)' => ~InHand(w)' /\ ~UnderWay(w)' /\ ~ComesBack(w)'
          /\ InHand(w)' => ~UnderWay(w)' /\ ~ComesBack(w)'
          /\ UnderWay(w)' => ~ComesBack(w)'
    BY <1>1, <1>2 DEF Tokens
  <1> QED
    BY <1>3, <1>4, <1>5 DEF Tokens

\* Taking a worker from the queue: it is in hand, or passed over.
LEMMA PickKeepsTokens == ASSUME TypeOK, Tokens, PickWorker PROVE Tokens'
  <1> DEFINE w0 == Head(ready_queue)
  <1>1. /\ ready_queue \in Seq(Workers) /\ ready_queue # <<>>
        /\ ready_queue' = Tail(ready_queue)
        /\ UNCHANGED <<calls, pp, pcall>>
        /\ pm = "pick" /\ (pm' = "pick" \/ (pm' = "call" /\ hand' = w0))
    BY DEF TypeOK, MasterTypeOK, PickWorker, PopReady, wvars, pollvars
  <1>2. /\ Len(ready_queue') = Len(ready_queue) - 1 /\ Len(ready_queue) \in Nat \ {0}
        /\ \A k \in 1 .. Len(ready_queue') : ready_queue'[k] = ready_queue[k + 1]
        /\ w0 = ready_queue[1]
    BY <1>1
  <1>3. \A k, l \in 1 .. Len(ready_queue') : ready_queue'[k] = ready_queue'[l] => k = l
    <2> SUFFICES ASSUME NEW k \in 1 .. Len(ready_queue'), NEW l \in 1 .. Len(ready_queue'),
                        ready_queue'[k] = ready_queue'[l]
                 PROVE  k = l
      OBVIOUS
    <2>1. k + 1 \in 1 .. Len(ready_queue) /\ l + 1 \in 1 .. Len(ready_queue)
      BY <1>2
    <2>2. ready_queue[k + 1] = ready_queue[l + 1]
      BY <1>2
    <2>3. k + 1 = l + 1
      BY <2>1, <2>2 DEF Tokens
    <2> QED
      BY <2>3
  <1>4. \A w \in Workers : InSeq(w, ready_queue)' => InSeq(w, ready_queue) /\ w # w0
    <2> SUFFICES ASSUME NEW w \in Workers, NEW k \in 1 .. Len(ready_queue'),
                        ready_queue'[k] = w
                 PROVE  InSeq(w, ready_queue) /\ w # w0
      BY DEF InSeq
    <2>1. k + 1 \in 1 .. Len(ready_queue) /\ 1 \in 1 .. Len(ready_queue) /\ k + 1 # 1
      BY <1>2
    <2>2. ready_queue[k + 1] = w
      BY <1>2
    <2>3. w # w0
      BY <1>2, <2>1, <2>2 DEF Tokens
    <2> QED
      BY <2>1, <2>2, <2>3 DEF InSeq
  <1>5. InSeq(w0, ready_queue)
    BY <1>2 DEF InSeq
  <1>6. \A w \in Workers : /\ ~InHand(w)
                           /\ InHand(w)' => w = w0
                           /\ UnderWay(w)' <=> UnderWay(w)
                           /\ ComesBack(w)' <=> ComesBack(w)
    BY <1>1 DEF InHand, UnderWay, ComesBack
  <1>7. \A c, d \in calls' : c.worker = d.worker => c = d
    BY <1>1 DEF Tokens
  <1>8. ASSUME NEW w \in Workers
        PROVE  /\ InSeq(w, ready_queue)' => ~InHand(w)' /\ ~UnderWay(w)' /\ ~ComesBack(w)'
               /\ InHand(w)' => ~UnderWay(w)' /\ ~ComesBack(w)'
               /\ UnderWay(w)' => ~ComesBack(w)'
    <2> HIDE DEF w0
    <2> QED
      BY <1>4, <1>5, <1>6, Zenon DEF Tokens
  <1> QED
    BY <1>3, <1>7, <1>8 DEF Tokens

\* Sending a job: the worker in hand has it.
LEMMA SendKeepsTokens ==
    ASSUME TypeOK, Tokens, send_mapper_job \/ send_reducer_job
    PROVE  Tokens'
  <1>1. PICK c : c.worker = hand /\ calls' = calls \cup {c}
    <2>1. CASE send_mapper_job
      BY <2>1 DEF send_mapper_job
    <2>2. CASE send_reducer_job
      BY <2>2 DEF send_reducer_job
    <2> QED
      BY <2>1, <2>2
  <1>2. /\ UNCHANGED <<ready_queue, pp, pcall>>
        /\ pm = "send" /\ pm' = "pick" /\ hand \in Workers
    BY DEF TypeOK, MasterTypeOK, MainVarsTypeOK, send_mapper_job, send_reducer_job, pollvars
  <1>3. InHand(hand) /\ \A w \in Workers : ~InHand(w)'
    BY <1>2 DEF InHand
  <1>4. \A w \in Workers : /\ InSeq(w, ready_queue)' <=> InSeq(w, ready_queue)
                           /\ ComesBack(w)' <=> ComesBack(w)
                           /\ UnderWay(w)' <=> UnderWay(w) \/ w = hand
    BY <1>1, <1>2 DEF InSeq, ComesBack, UnderWay
  <1>5. ~UnderWay(hand)
    BY <1>2, <1>3 DEF Tokens
  <1>6. \A d, e \in calls' : d.worker = e.worker => d = e
    BY <1>1, <1>5 DEF Tokens, UnderWay
  <1>7. \A k, l \in 1 .. Len(ready_queue') : ready_queue'[k] = ready_queue'[l] => k = l
    BY <1>2 DEF Tokens
  <1>8. \A w \in Workers :
          /\ InSeq(w, ready_queue)' => ~InHand(w)' /\ ~UnderWay(w)' /\ ~ComesBack(w)'
          /\ InHand(w)' => ~UnderWay(w)' /\ ~ComesBack(w)'
          /\ UnderWay(w)' => ~ComesBack(w)'
    BY <1>3, <1>4, <1>2 DEF Tokens
  <1> QED
    BY <1>6, <1>7, <1>8 DEF Tokens

\* Taking an answer: its worker is about to be ready, or lost for good.
LEMMA TakeKeepsTokens == ASSUME TypeOK, Tokens, TakeCall PROVE Tokens'
  <1>1. PICK c \in calls :
           /\ calls' = calls \ {c}
           /\ \/ pp' = "push" /\ pcall' = c
              \/ pp' = "eval" /\ UNCHANGED pcall
    BY DEF TakeCall
  <1>2. UNCHANGED <<ready_queue, pm, hand>> /\ pp = "next"
    BY DEF TakeCall, mainvars
  <1>3. \A w \in Workers : /\ InSeq(w, ready_queue)' <=> InSeq(w, ready_queue)
                           /\ InHand(w)' <=> InHand(w)
                           /\ UnderWay(w)' => UnderWay(w)
                           /\ ComesBack(w)' => w = c.worker
    BY <1>1, <1>2 DEF InSeq, InHand, ComesBack, UnderWay
  <1>4. \A w \in Workers : w = c.worker => UnderWay(w) /\ ~UnderWay(w)'
    BY <1>1 DEF UnderWay, Tokens
  <1>5. \A d, e \in calls' : d.worker = e.worker => d = e
    BY <1>1 DEF Tokens
  <1>6. \A k, l \in 1 .. Len(ready_queue') : ready_queue'[k] = ready_queue'[l] => k = l
    BY <1>2 DEF Tokens
  <1>7. \A w \in Workers :
          /\ InSeq(w, ready_queue)' => ~InHand(w)' /\ ~UnderWay(w)' /\ ~ComesBack(w)'
          /\ InHand(w)' => ~UnderWay(w)' /\ ~ComesBack(w)'
          /\ UnderWay(w)' => ~ComesBack(w)'
    BY <1>3, <1>4, Zenon DEF Tokens
  <1> QED
    BY <1>5, <1>6, <1>7 DEF Tokens

\* Making a worker ready: it comes to the end of the queue.
LEMMA PushKeepsTokens == ASSUME TypeOK, Tokens, PushReady PROVE Tokens'
  <1> DEFINE w0 == pcall.worker
             q == ready_queue
  <1>1. /\ q \in Seq(Workers) /\ ready_queue' = Append(q, w0) /\ w0 \in Workers
        /\ UNCHANGED <<pm, hand, calls, pcall>> /\ pp = "push" /\ pp' = "look"
    BY DEF TypeOK, MasterTypeOK, PollVarsTypeOK, PushReady, Push, Call, mainvars, wvars
  <1>2. /\ Len(q) \in Nat /\ Len(ready_queue') = Len(q) + 1
        /\ \A k \in 1 .. Len(q) : ready_queue'[k] = q[k]
        /\ ready_queue'[Len(q) + 1] = w0
    BY <1>1
  <1>3. ComesBack(w0)
    BY <1>1 DEF ComesBack
  <1>4. ~InSeq(w0, q) /\ ~InHand(w0) /\ ~UnderWay(w0)
    BY <1>1, <1>3 DEF Tokens
  <1>5. \A w \in Workers : InSeq(w, ready_queue)' => InSeq(w, q) \/ w = w0
    BY <1>2 DEF InSeq
  <1>6. \A w \in Workers : /\ InHand(w)' <=> InHand(w)
                           /\ UnderWay(w)' <=> UnderWay(w)
                           /\ ~ComesBack(w)'
    BY <1>1 DEF InHand, UnderWay, ComesBack
  <1>7. \A k, l \in 1 .. Len(ready_queue') : ready_queue'[k] = ready_queue'[l] => k = l
    <2>1. \A k \in 1 .. Len(q) : q[k] # w0
      BY <1>4 DEF InSeq
    <2>2. \A k, l \in 1 .. Len(q) : q[k] = q[l] => k = l
      BY DEF Tokens
    <2> HIDE DEF q, w0
    <2> QED
      BY <1>2, <2>1, <2>2
  <1>8. \A c, d \in calls' : c.worker = d.worker => c = d
    BY <1>1 DEF Tokens
  <1>9. \A w \in Workers :
          /\ InSeq(w, ready_queue)' => ~InHand(w)' /\ ~UnderWay(w)' /\ ~ComesBack(w)'
          /\ InHand(w)' => ~UnderWay(w)' /\ ~ComesBack(w)'
          /\ UnderWay(w)' => ~ComesBack(w)'
    <2> HIDE DEF w0
    <2> QED
      BY <1>4, <1>5, <1>6, Zenon DEF Tokens
  <1> QED
    BY <1>7, <1>8, <1>9 DEF Tokens

\* A worker answers, is slow or is gone: its call stays its call.
LEMMA WorkerKeepsTokens == ASSUME TypeOK, Tokens, WorkerStep PROVE Tokens'
  <1>1. UNCHANGED <<ready_queue, pm, hand, pp, pcall>>
    BY DEF WorkerStep, mainvars, pollvars
  <1>2. \/ UNCHANGED calls
        \/ \E c \in calls, s \in {"ok", "error"} :
              calls' = (calls \ {c}) \cup {[c EXCEPT !.status = s]}
    <2>1. WorkerNext
      BY DEF WorkerStep
    <2> QED
      BY <2>1 DEF WorkerNext, Proceed, ProceedLate, Unavailable, Crash, Deadline
  <1>3. CASE UNCHANGED calls
    BY <1>1, <1>3, TokensFrame, Zenon DEF tokenvars
  <1>4. ASSUME NEW c \in calls, NEW s \in {"ok", "error"},
               calls' = (calls \ {c}) \cup {[c EXCEPT !.status = s]}
        PROVE  Tokens'
    <2>1. c \in Call
      BY DEF TypeOK, WorkerTypeOK
    <2>2. [c EXCEPT !.status = s].worker = c.worker
      BY <2>1 DEF Call
    <2> QED
      BY <1>1, <1>4, <2>2, TokensSameWorker
  <1> QED
    BY <1>2, <1>3, <1>4

\* A worker is in ready_queue once, or in the hand of main, or has one call
\* under way, or is about to be ready again, and never in two of these places:
\* the master never gives a worker two jobs at a time, whatever fails.
THEOREM OneJobEach == Spec => []OneJobPerWorker
  <1>1. ASSUME Init PROVE Tokens
    <2>1. /\ ready_queue \in {q \in [1 .. Cardinality(Workers) -> Workers] : IsInjective(q)}
          /\ calls = {} /\ pm = "start" /\ pp = "next"
      BY <1>1 DEF Init, WorkerInit, MasterInit
    <2>2. Len(ready_queue) = Cardinality(Workers)
      BY <2>1, WorkersAssumption, FS_CardinalityType
    <2>3. \A k, l \in 1 .. Len(ready_queue) : ready_queue[k] = ready_queue[l] => k = l
      BY <2>1, <2>2 DEF IsInjective
    <2>4. \A w \in Workers : ~InHand(w) /\ ~UnderWay(w) /\ ~ComesBack(w)
      BY <2>1 DEF InHand, UnderWay, ComesBack
    <2> QED
      BY <2>1, <2>3, <2>4 DEF Tokens
  <1>2. ASSUME TypeOK, Tokens, [Next]_vars PROVE Tokens'
    <2>1. CASE RequestInitialRound \/ AwaitInitialRound \/ GetClient \/ CallDroppedClient
               \/ RaiseFlagAndSleep \/ TriggerMonitoring \/ TestUnfinished \/ UpdateComplete
               \/ RaiseFlag \/ CheckShards \/ RefillShards \/ CheckPartitions
               \/ JoinMapPoll \/ JoinReducePoll \/ Cleanup \/ SpuriousWakeup
               \/ DropReduceWorkerAgain
      <3> USE DEF RequestInitialRound, AwaitInitialRound, GetClient, CallDroppedClient,
                  RaiseFlagAndSleep, TriggerMonitoring, TestUnfinished, UpdateComplete,
                  RaiseFlag, CheckShards, RefillShards, CheckPartitions, JoinMapPoll, JoinReducePoll, Cleanup, SpuriousWakeup,
                  DropReduceWorkerAgain, wvars, pollvars
      <3>1. UNCHANGED <<ready_queue, calls>>
        BY <2>1, Zenon
      <3>2. \A w \in Workers : InHand(w)' => InHand(w)
        BY <2>1 DEF InHand
      <3>3. \A w \in Workers : ComesBack(w)' => ComesBack(w)
        BY <2>1 DEF ComesBack
      <3> QED
        BY <1>2, <3>1, <3>2, <3>3, TokensLess
    <2>2. CASE LookUpClient \/ CountMapAnswer \/ CountReduceAnswer \/ CreditClient
               \/ RegisterFiles \/ NotifyMain \/ NoNotify \/ TakeFlagBack
      <3> USE DEF LookUpClient, CountMapAnswer, CountReduceAnswer, CreditClient,
                  RegisterFiles, NotifyMain, WakeMain,
                  NoNotify, TakeFlagBack, wvars, mainvars
      <3>1. UNCHANGED <<ready_queue, calls>>
        BY <2>2, Zenon
      <3>2. \A w \in Workers : InHand(w)' => InHand(w)
        BY <2>2 DEF InHand
      <3>3. \A w \in Workers : ComesBack(w)' => ComesBack(w)
        BY <2>2 DEF ComesBack
      <3> QED
        BY <1>2, <3>1, <3>2, <3>3, TokensLess
    <2>3. CASE MonitorBegin \/ SendPings \/ ReceivePong \/ ReceiveError \/ DropMapWorker
               \/ DropMapWorkerAgain \/ DropReduceWorker \/ EndInitialRound \/ EndRound
               \/ MonitorExit \/ UNCHANGED vars
      <3>1. UNCHANGED tokenvars
        BY <2>3, Zenon DEF MonitorBegin, SendPings, ReceivePong, ReceiveError, DropMapWorker,
              DropMapWorkerAgain, DropReduceWorker, EndInitialRound, EndRound, MonitorExit,
              vars, wvars, mainvars, pollvars, tokenvars
      <3> QED
        BY <1>2, <3>1, TokensFrame, Zenon
    <2> QED
      BY <1>2, <2>1, <2>2, <2>3, PickKeepsTokens, SendKeepsTokens, TakeKeepsTokens,
         PushKeepsTokens, WorkerKeepsTokens
         DEF Next, MainStep, PollStep, MonitorStep, Terminated
  <1>3. TypeOK /\ Tokens => OneJobPerWorker
    BY TokensCounted
  <1> QED
    BY <1>1, <1>2, <1>3, TypeCorrect, PTL DEF Spec

-----------------------------------------------------------------------------
(* The monitor never waits in vain.                                          *)

PingKeys == Workers \X BOOLEAN
OwedSet == UNION {{x} \X (1 .. pings[x]) : x \in PingKeys}

\* While the monitor counts, or handles a failure and then goes on counting,
\* enough pings are without an answer.
RoundCovered ==
    /\ IsFiniteSet(OwedSet)
    /\ pn \in {"recv", "drop_map", "drop_reduce"} => Cardinality(OwedSet) >= num_workers - pongs

\* The pings that are owed an answer, as pairs.
LEMMA OwedMember ==
    ASSUME NEW y
    PROVE  y \in OwedSet <=> \E x \in PingKeys : \E n \in 1 .. pings[x] : y = <<x, n>>
  BY DEF OwedSet

\* An answer, or an error, takes one of them away.
LEMMA AnswerTakesOne ==
    ASSUME pings \in [PingKeys -> Nat], NEW x \in PingKeys, pings[x] > 0,
           pings' = [pings EXCEPT ![x] = @ - 1], IsFiniteSet(OwedSet)
    PROVE  /\ IsFiniteSet(OwedSet')
           /\ Cardinality(OwedSet') = Cardinality(OwedSet) - 1
  <1> DEFINE y == <<x, pings[x]>>
  <1>1. y \in OwedSet
    BY OwedMember
  <1>2. OwedSet' = OwedSet \ {y}
    <2>1. ASSUME NEW z \in OwedSet' PROVE z \in OwedSet \ {y}
      <3>1. PICK v \in PingKeys, n \in Nat : n \in 1 .. pings'[v] /\ z = <<v, n>>
        BY <2>1 DEF OwedSet
      <3>2. pings'[v] \in Nat /\ pings[v] \in Nat /\ pings'[v] <= pings[v] /\ (v = x => pings'[v] < pings[v])
        OBVIOUS
      <3>3. n \in 1 .. pings[v] /\ z # y
        BY <3>1, <3>2
      <3> QED
        BY <3>1, <3>3, OwedMember
    <2>2. ASSUME NEW z \in OwedSet, z # y PROVE z \in OwedSet'
      <3>1. PICK v \in PingKeys, n \in Nat : n \in 1 .. pings[v] /\ z = <<v, n>>
        BY <2>2, OwedMember
      <3>2. n \in 1 .. pings'[v]
        <4>1. CASE v = x
          BY <2>2, <3>1, <4>1
        <4>2. CASE v # x
          BY <3>1, <4>2
        <4> QED
          BY <4>1, <4>2
      <3> QED
        BY <3>1, <3>2 DEF OwedSet
    <2> QED
      BY <2>1, <2>2
  <1> HIDE DEF y
  <1> QED
    BY <1>1, <1>2, FS_RemoveElement

\* A round of pings covers every listed worker.
LEMMA RoundCoversAll ==
    ASSUME TypeOK, IsFiniteSet(OwedSet), SendPings
    PROVE  IsFiniteSet(OwedSet') /\ Cardinality(OwedSet') >= num_workers
  <1> DEFINE T == {x \in PingKeys : x[1] \in worker_ips /\ x[2] = alive[x[1]]}
             new == {<<x, pings[x] + 1>> : x \in T}
             key(w) == <<w, alive[w]>>
  <1>1. /\ pings \in [PingKeys -> Nat] /\ alive \in [Workers -> BOOLEAN]
        /\ worker_ips \subseteq Workers /\ IsFiniteSet(worker_ips)
    <2>1. worker_ips \subseteq Workers
      BY DEF TypeOK, MasterTypeOK, BooksTypeOK
    <2>2. IsFiniteSet(worker_ips)
      BY <2>1, WorkersAssumption, FS_Subset
    <2>3. pings \in [PingKeys -> Nat]
      BY DEF TypeOK, MasterTypeOK, MonitorVarsTypeOK, PingKeys
    <2>4. alive \in [Workers -> BOOLEAN]
      BY DEF TypeOK, WorkerTypeOK
    <2> QED
      BY <2>1, <2>2, <2>3, <2>4
  <1>2. pings' = [x \in PingKeys |->
                    pings[x] + (IF x[1] \in worker_ips /\ x[2] = alive[x[1]] THEN 1 ELSE 0)]
    BY DEF SendPings, PingTargets, PingKeys
  <1>3. \A x \in PingKeys : pings'[x] = pings[x] + (IF x \in T THEN 1 ELSE 0)
    BY <1>2
  <1>4. OwedSet' = OwedSet \cup new
    <2> HIDE DEF T
    <2>0. T \subseteq PingKeys
      BY DEF T
    <2>1. ASSUME NEW z \in OwedSet' PROVE z \in OwedSet \cup new
      <3>1. PICK v \in PingKeys, n \in Nat : n \in 1 .. pings'[v] /\ z = <<v, n>>
        BY <2>1 DEF OwedSet
      <3>2. n \in 1 .. pings[v] \/ (v \in T /\ n = pings[v] + 1)
        <4>1. pings[v] \in Nat /\ pings'[v] = pings[v] + (IF v \in T THEN 1 ELSE 0)
          BY <1>1, <1>3
        <4> QED
          BY <3>1, <4>1
      <3> QED
        BY <3>1, <3>2, OwedMember
    <2>2. ASSUME NEW z \in OwedSet PROVE z \in OwedSet'
      <3>1. PICK v \in PingKeys, n \in Nat : n \in 1 .. pings[v] /\ z = <<v, n>>
        BY <2>2, OwedMember
      <3>2. n \in 1 .. pings'[v]
        <4>1. pings[v] \in Nat /\ pings'[v] = pings[v] + (IF v \in T THEN 1 ELSE 0)
          BY <1>1, <1>3
        <4> QED
          BY <3>1, <4>1
      <3> QED
        BY <3>1, <3>2 DEF OwedSet
    <2>3. ASSUME NEW v \in T PROVE <<v, pings[v] + 1>> \in OwedSet'
      <3>1. v \in PingKeys
        BY <2>0
      <3>2. pings[v] + 1 \in 1 .. pings'[v]
        BY <1>1, <1>3, <3>1
      <3> QED
        BY <3>1, <3>2 DEF OwedSet
    <2> QED
      BY <2>1, <2>2, <2>3
  <1>5. IsFiniteSet(new)
    <2> DEFINE g == [w \in worker_ips |-> <<key(w), pings[key(w)] + 1>>]
    <2>1. g \in Surjection(worker_ips, new)
      <3>1. ASSUME NEW w \in worker_ips PROVE g[w] \in new
        <4>1. key(w) \in PingKeys
          BY <1>1, Zenon DEF PingKeys
        <4>2. key(w) \in T
          BY <4>1
        <4> QED
          BY <4>2
      <3>2. ASSUME NEW y \in new PROVE \E w \in worker_ips : g[w] = y
        <4>1. PICK x \in T : y = <<x, pings[x] + 1>>
          OBVIOUS
        <4>2. x[1] \in worker_ips /\ x = key(x[1])
          BY DEF PingKeys
        <4> QED
          BY <4>1, <4>2
      <3> QED
        BY <3>1, <3>2 DEF Surjection
    <2> HIDE DEF g, new
    <2> QED
      BY <1>1, <2>1, FS_Surjection
  <1>6. Cardinality(worker_ips) <= Cardinality(new)
    <2> DEFINE f == [y \in new |-> y[1][1]]
    <2>1. f \in Surjection(new, worker_ips)
      <3>1. ASSUME NEW y \in new PROVE y[1][1] \in worker_ips
        OBVIOUS
      <3>2. ASSUME NEW w \in worker_ips PROVE \E y \in new : f[y] = w
        <4>1. key(w) \in PingKeys
          BY <1>1, Zenon DEF PingKeys
        <4>2. key(w) \in T
          BY <4>1
        <4>3. <<key(w), pings[key(w)] + 1>> \in new
          BY <4>2
        <4> QED
          BY <4>3
      <3> QED
        BY <3>1, <3>2 DEF Surjection
    <2> HIDE DEF f
    <2> QED
      BY <1>5, <2>1, FS_Surjection
  <1>7. IsFiniteSet(OwedSet')
    <2> HIDE DEF new
    <2> QED
      BY <1>4, <1>5, FS_Union
  <1>8. Cardinality(new) <= Cardinality(OwedSet')
    <2>1. new \subseteq OwedSet'
      BY <1>4
    <2> HIDE DEF new
    <2> QED
      BY <2>1, <1>7, FS_Subset
  <1>9. /\ Cardinality(worker_ips) \in Nat /\ Cardinality(new) \in Nat
        /\ Cardinality(OwedSet') \in Nat
    <2> HIDE DEF new
    <2> QED
      BY <1>1, <1>5, <1>7, FS_CardinalityType
  <1> HIDE DEF new
  <1> QED
    BY <1>6, <1>7, <1>8, <1>9 DEF num_workers

\* The monitor keeps the round covered: each answer is counted, and dropping a
\* worker only lowers what it waits for.
LEMMA MonitorKeepsCovered ==
    ASSUME TypeOK, RoundCovered, MonitorStep
    PROVE  RoundCovered'
  <1>1. /\ pongs \in Nat /\ pings \in [PingKeys -> Nat] /\ worker_ips \subseteq Workers
        /\ IsFiniteSet(worker_ips) /\ IsFiniteSet(OwedSet)
    <2>1. worker_ips \subseteq Workers
      BY DEF TypeOK, MasterTypeOK, BooksTypeOK
    <2> QED
      BY <2>1, WorkersAssumption, FS_Subset
         DEF TypeOK, MasterTypeOK, MonitorVarsTypeOK, PingKeys, RoundCovered
  <1>2. num_workers \in Nat /\ Cardinality(OwedSet) \in Nat
    BY <1>1, FS_CardinalityType DEF num_workers
  <1>3. CASE MonitorBegin \/ EndInitialRound \/ EndRound \/ MonitorExit
    <2>1. UNCHANGED pings /\ pn' \notin {"recv", "drop_map", "drop_reduce"}
      BY <1>3 DEF MonitorBegin, EndInitialRound, EndRound, MonitorExit
    <2>2. OwedSet' = OwedSet
      BY <2>1 DEF OwedSet
    <2> QED
      BY <1>1, <2>1, <2>2 DEF RoundCovered
  <1>4. CASE SendPings
    <2>1. IsFiniteSet(OwedSet') /\ Cardinality(OwedSet') >= num_workers
      BY <1>1, <1>4, RoundCoversAll
    <2>2. pongs' \in Nat /\ num_workers' = num_workers
      BY <1>1, <1>4 DEF SendPings, books, num_workers
    <2>3. Cardinality(OwedSet') \in Nat
      BY <2>1, FS_CardinalityType
    <2> QED
      BY <1>2, <2>1, <2>2, <2>3 DEF RoundCovered
  <1>5. CASE ReceivePong \/ ReceiveError
    <2>1. PICK x \in PingKeys : pings[x] > 0 /\ pings' = [pings EXCEPT ![x] = @ - 1]
      <3>1. CASE ReceivePong
        <4>1. PICK w \in Workers : pings[<<w, TRUE>>] > 0
                               /\ pings' = [pings EXCEPT ![<<w, TRUE>>] = @ - 1]
          BY <3>1 DEF ReceivePong
        <4>2. <<w, TRUE>> \in PingKeys
          BY Zenon DEF PingKeys
        <4> QED
          BY <4>1, <4>2
      <3>2. CASE ReceiveError
        BY <3>2 DEF ReceiveError, PingKeys
      <3> QED
        BY <1>5, <3>1, <3>2
    <2>2. IsFiniteSet(OwedSet') /\ Cardinality(OwedSet') = Cardinality(OwedSet) - 1
      BY <1>1, <2>1, AnswerTakesOne
    <2>3. pn = "recv" /\ pongs' = pongs + 1 /\ num_workers' = num_workers
      BY <1>5 DEF ReceivePong, ReceiveError, books, num_workers
    <2> QED
      BY <1>1, <1>2, <2>2, <2>3 DEF RoundCovered
  <1>6. CASE DropMapWorker \/ DropReduceWorker
    <2>1. /\ UNCHANGED <<pings, pongs>> /\ worker_ips' = worker_ips \ {failed}
          /\ pn \in {"drop_map", "drop_reduce"}
      BY <1>6 DEF DropMapWorker, DropReduceWorker, RemoveWorker
    <2>2. num_workers' <= num_workers /\ num_workers' \in Nat
      <3>1. worker_ips' \subseteq worker_ips
        BY <2>1
      <3> QED
        BY <1>1, <3>1, FS_Subset, FS_CardinalityType DEF num_workers
    <2>3. OwedSet' = OwedSet
      BY <2>1 DEF OwedSet
    <2> QED
      BY <1>1, <1>2, <2>1, <2>2, <2>3 DEF RoundCovered
  <1>7. CASE DropMapWorkerAgain \/ DropReduceWorkerAgain
    <2>1. /\ UNCHANGED <<pings, pongs, worker_ips>> /\ pn \in {"drop_map", "drop_reduce"}
      BY <1>7 DEF DropMapWorkerAgain, DropReduceWorkerAgain, books, monvars
    <2>2. OwedSet' = OwedSet /\ num_workers' = num_workers
      BY <2>1 DEF OwedSet, num_workers
    <2> QED
      BY <1>1, <2>1, <2>2 DEF RoundCovered
  <1> QED
    BY <1>3, <1>4, <1>5, <1>6, <1>7 DEF MonitorStep

\* Whenever the monitor blocks in receive_monitor_pong, at least as many pings
\* are without an answer as it still waits for, although workers are dropped
\* while it counts and answers of earlier rounds are left over.
THEOREM MonitorOwed == Spec => []PongsOwed
  <1>1. ASSUME Init PROVE RoundCovered
    <2>1. pn = "begin" /\ pings = [x \in PingKeys |-> 0]
      BY <1>1 DEF Init, MasterInit, PingKeys
    <2>2. OwedSet = {}
      BY <2>1, OwedMember
    <2> QED
      BY <2>1, <2>2, FS_EmptySet DEF RoundCovered
  <1>2. ASSUME TypeOK, RoundCovered, [Next]_vars PROVE RoundCovered'
    <2>1. CASE MonitorStep
      BY <1>2, <2>1, MonitorKeepsCovered
    <2>2. CASE ~MonitorStep
      <3>1. UNCHANGED <<pn, pongs, pings, worker_ips>>
        BY <1>2, <2>2, Zenon
           DEF Next, MainStep, SpuriousWakeup, PollStep, WorkerStep, Terminated,
               RequestInitialRound, AwaitInitialRound, PickWorker, GetClient, CallDroppedClient,
               send_mapper_job, send_reducer_job, RaiseFlagAndSleep, TriggerMonitoring,
               TestUnfinished, UpdateComplete, RaiseFlag, CheckShards, RefillShards,
               CheckPartitions, JoinMapPoll, JoinReducePoll, Cleanup, TakeCall, PushReady,
               LookUpClient, CountMapAnswer, CountReduceAnswer, CreditClient, RegisterFiles,
               NotifyMain, NoNotify, TakeFlagBack, books, monvars, vars
      <3>2. OwedSet' = OwedSet /\ num_workers' = num_workers
        BY <3>1 DEF OwedSet, num_workers
      <3> QED
        BY <1>2, <3>1, <3>2 DEF RoundCovered
    <2> QED
      BY <2>1, <2>2
  <1>3. RoundCovered => PongsOwed
    BY DEF RoundCovered, PongsOwed, Owed, OwedSet, PingKeys
  <1> QED
    BY <1>1, <1>2, <1>3, TypeCorrect, PTL DEF Spec

-----------------------------------------------------------------------------
(* The count that ends the map phase is backed by answers.                   *)

\* The worker whose map answer the poll thread is about to count, and whether
\* it is about to credit one to a listed worker.
Held == {w \in Workers : pp = "bump" /\ pcall.is_map_job /\ pcall.worker = w}
Crediting == pp = "credit" /\ pcall.is_map_job /\ pcall.worker \in worker_ips
Extra == IF Crediting THEN 1 ELSE 0

\* The dropped workers that may have been counted without credit.  The one
\* whose answer is about to be counted has not been yet: answers of dropped
\* workers are discarded, so this one is its last.
Overcounted == dropped_worker_ips \ Held

\* AnswersAccounted, made inductive.
Backed ==
    /\ IsFiniteSet(Credited)
    /\ ~map_complete => num_map_msgs - num_dropped_map_jobs <=
                           Cardinality(Credited) + Cardinality(Overcounted) + Extra

\* The credited answers, as pairs.
LEMMA CreditedMember ==
    ASSUME NEW y
    PROVE  y \in Credited <=> \E w \in worker_ips : \E n \in 1 .. completed_map_jobs[w] : y = <<w, n>>
  BY DEF Credited

\* The sets that are counted are finite.
LEMMA CountedSets ==
    ASSUME TypeOK, IsFiniteSet(Credited)
    PROVE  /\ num_map_msgs \in Nat /\ num_dropped_map_jobs \in Nat
           /\ completed_map_jobs \in [Workers -> Nat] /\ worker_ips \subseteq Workers
           /\ Cardinality(Credited) \in Nat
           /\ IsFiniteSet(Overcounted) /\ Cardinality(Overcounted) \in Nat
  <1>1. /\ num_map_msgs \in Nat /\ num_dropped_map_jobs \in Nat
        /\ completed_map_jobs \in [Workers -> Nat] /\ worker_ips \subseteq Workers
    BY DEF TypeOK, MasterTypeOK, CountersTypeOK, ClientsTypeOK, BooksTypeOK
  <1>2. Overcounted \subseteq Workers
    BY DEF Overcounted, dropped_worker_ips
  <1> QED
    BY <1>1, <1>2, WorkersAssumption, FS_Subset, FS_CardinalityType

\* What counts and credits no answer, and drops nobody, keeps the count backed;
\* an answer that is taken back only lowers it.
LEMMA BackedFrame ==
    ASSUME TypeOK, Backed, UNCHANGED <<num_map_msgs, completed_map_jobs, worker_ips>>,
           num_dropped_map_jobs' \in Nat, num_dropped_map_jobs' >= num_dropped_map_jobs,
           map_complete => map_complete', Overcounted' = Overcounted, Crediting' <=> Crediting
    PROVE  Backed'
  <1>1. Credited' = Credited /\ Extra' = Extra /\ Extra \in Nat
    BY DEF Credited, Extra
  <1>2. /\ num_map_msgs \in Nat /\ num_dropped_map_jobs \in Nat /\ IsFiniteSet(Credited)
        /\ Cardinality(Credited) \in Nat /\ Cardinality(Overcounted) \in Nat
    BY CountedSets DEF Backed
  <1>3. ASSUME ~map_complete'
        PROVE  num_map_msgs' - num_dropped_map_jobs' <=
                 Cardinality(Credited') + Cardinality(Overcounted') + Extra'
    <2>1. num_map_msgs - num_dropped_map_jobs <=
             Cardinality(Credited) + Cardinality(Overcounted) + Extra
      BY <1>3 DEF Backed
    <2> QED
      BY <1>1, <1>2, <2>1
  <1> QED
    BY <1>1, <1>2, <1>3 DEF Backed

\* Counting an answer: it is about to be credited, or its worker is dropped and
\* was not overcounted before.
LEMMA CountKeepsBacked == ASSUME TypeOK, Backed, CountMapAnswer PROVE Backed'
  <1> DEFINE w == pcall.worker
  <1>1. /\ pp = "bump" /\ pp' = "credit" /\ pcall.is_map_job /\ num_map_msgs' = num_map_msgs + 1
        /\ UNCHANGED <<pcall, num_dropped_map_jobs, completed_map_jobs, worker_ips, map_complete>>
    BY DEF CountMapAnswer, flags, books, clients
  <1>2. w \in Workers
    BY <1>1 DEF TypeOK, MasterTypeOK, PollVarsTypeOK, Call
  <1>3. Held = {w} /\ Held' = {} /\ ~Crediting /\ (Crediting' <=> w \in worker_ips)
    BY <1>1, <1>2 DEF Held, Crediting
  <1>4. Credited' = Credited /\ Overcounted' = dropped_worker_ips
    BY <1>1, <1>3 DEF Credited, Overcounted, dropped_worker_ips
  <1>5. /\ num_map_msgs \in Nat /\ num_dropped_map_jobs \in Nat /\ IsFiniteSet(Credited)
        /\ Cardinality(Credited) \in Nat /\ Cardinality(Overcounted) \in Nat
        /\ IsFiniteSet(Overcounted)
    BY CountedSets DEF Backed
  <1>6. Extra = 0
    BY <1>3 DEF Extra
  <1>7. Cardinality(Overcounted') + Extra' = Cardinality(Overcounted) + 1
    <2>1. CASE w \in worker_ips
      <3>1. Overcounted' = Overcounted
        BY <1>3, <1>4, <2>1 DEF Overcounted, dropped_worker_ips
      <3>2. Extra' = 1
        BY <1>3, <2>1 DEF Extra
      <3> QED
        BY <3>1, <3>2
    <2>2. CASE w \notin worker_ips
      <3>1. Overcounted' = Overcounted \cup {w} /\ w \notin Overcounted
        BY <1>2, <1>3, <1>4, <2>2 DEF Overcounted, dropped_worker_ips
      <3>2. Extra' = 0
        BY <1>3, <2>2 DEF Extra
      <3>3. Cardinality(Overcounted') = Cardinality(Overcounted) + 1
        BY <1>5, <3>1, FS_AddElement
      <3> QED
        BY <1>5, <3>2, <3>3
    <2> QED
      BY <2>1, <2>2
  <1>8. Cardinality(Overcounted') \in Nat /\ Extra' \in Nat
    <2>1. CASE w \in worker_ips
      <3>1. Overcounted' = Overcounted
        BY <1>3, <1>4, <2>1 DEF Overcounted, dropped_worker_ips
      <3> QED
        BY <1>5, <3>1 DEF Extra
    <2>2. CASE w \notin worker_ips
      <3>1. Overcounted' = Overcounted \cup {w}
        BY <1>2, <1>3, <1>4, <2>2 DEF Overcounted, dropped_worker_ips
      <3>2. IsFiniteSet(Overcounted')
        BY <1>5, <3>1, FS_AddElement
      <3> QED
        BY <3>2, FS_CardinalityType DEF Extra
    <2> QED
      BY <2>1, <2>2
  <1>9. ASSUME ~map_complete'
        PROVE  num_map_msgs' - num_dropped_map_jobs' <=
                 Cardinality(Credited') + Cardinality(Overcounted') + Extra'
    <2>1. num_map_msgs - num_dropped_map_jobs <=
             Cardinality(Credited) + Cardinality(Overcounted) + Extra
      BY <1>1, <1>9 DEF Backed
    <2> QED
      BY <1>1, <1>4, <1>5, <1>6, <1>7, <1>8, <2>1
  <1> QED
    BY <1>4, <1>5, <1>9 DEF Backed

\* Crediting an answer: one more pair, if its worker is still listed.
LEMMA CreditKeepsBacked == ASSUME TypeOK, Backed, CreditClient PROVE Backed'
  <1> DEFINE w == pcall.worker
             y == <<w, completed_map_jobs[w] + 1>>
  <1>1. /\ pp = "credit" /\ pp' = "register"
        /\ UNCHANGED <<pcall, num_map_msgs, num_dropped_map_jobs, worker_ips, map_complete>>
        /\ ~pcall.is_map_job => UNCHANGED completed_map_jobs
        /\ pcall.is_map_job => completed_map_jobs' = Bump(completed_map_jobs)
    BY DEF CreditClient, flags, books, counters
  <1>2. w \in Workers
    BY <1>1 DEF TypeOK, MasterTypeOK, PollVarsTypeOK, Call
  <1>3. /\ num_map_msgs \in Nat /\ num_dropped_map_jobs \in Nat /\ IsFiniteSet(Credited)
        /\ Cardinality(Credited) \in Nat /\ Cardinality(Overcounted) \in Nat
        /\ completed_map_jobs \in [Workers -> Nat] /\ worker_ips \subseteq Workers
    BY CountedSets DEF Backed
  <1>4. ~Crediting' /\ Overcounted' = Overcounted
    BY <1>1 DEF Crediting, Overcounted, Held, dropped_worker_ips
  <1>5. CASE ~Crediting
    <2>1. UNCHANGED completed_map_jobs
      BY <1>1, <1>5 DEF Crediting, Bump
    <2> QED
      BY <1>1, <1>3, <1>4, <1>5, <2>1, BackedFrame
  <1>6. CASE Crediting
    <2>1. completed_map_jobs' = [completed_map_jobs EXCEPT ![w] = @ + 1] /\ w \in worker_ips
      BY <1>1, <1>6 DEF Crediting, Bump
    <2>2. Credited' = Credited \cup {y}
      <3>1. ASSUME NEW z \in Credited' PROVE z \in Credited \cup {y}
        <4>1. PICK v \in worker_ips, n \in Nat : n \in 1 .. completed_map_jobs'[v] /\ z = <<v, n>>
          BY <1>1, <3>1 DEF Credited
        <4>2. v \in Workers /\ completed_map_jobs[v] \in Nat
          BY <1>3
        <4>3. CASE v = w
          <5>1. n \in 1 .. completed_map_jobs[v] \/ n = completed_map_jobs[v] + 1
            BY <1>3, <2>1, <4>1, <4>2, <4>3
          <5> QED
            BY <4>1, <4>3, <5>1, CreditedMember
        <4>4. CASE v # w
          <5>1. n \in 1 .. completed_map_jobs[v]
            BY <1>3, <2>1, <4>1, <4>2, <4>4
          <5> QED
            BY <4>1, <5>1, CreditedMember
        <4> QED
          BY <4>3, <4>4
      <3>2. ASSUME NEW z \in Credited \cup {y} PROVE z \in Credited'
        <4>1. PICK v \in worker_ips, n \in Nat : n \in 1 .. completed_map_jobs'[v] /\ z = <<v, n>>
          <5>1. CASE z \in Credited
            <6>1. PICK v \in worker_ips, n \in Nat : n \in 1 .. completed_map_jobs[v] /\ z = <<v, n>>
              BY <5>1, CreditedMember
            <6>2. n \in 1 .. completed_map_jobs'[v]
              BY <1>3, <2>1, <6>1
            <6> QED
              BY <6>1, <6>2
          <5>2. CASE z = y
            <6>1. completed_map_jobs[w] + 1 \in 1 .. completed_map_jobs'[w]
              BY <1>2, <1>3, <2>1
            <6> QED
              BY <2>1, <5>2, <6>1
          <5> QED
            BY <3>2, <5>1, <5>2
        <4> QED
          BY <1>1, <4>1 DEF Credited
      <3> QED
        BY <3>1, <3>2
    <2>3. y \notin Credited
      BY <1>2, <1>3, CreditedMember
    <2> HIDE DEF y
    <2>4. IsFiniteSet(Credited') /\ Cardinality(Credited') = Cardinality(Credited) + 1
      BY <1>3, <2>2, <2>3, FS_AddElement
    <2>5. Extra = 1 /\ Extra' = 0
      BY <1>4, <1>6 DEF Extra
    <2>6. ASSUME ~map_complete'
          PROVE  num_map_msgs' - num_dropped_map_jobs' <=
                   Cardinality(Credited') + Cardinality(Overcounted') + Extra'
      <3>1. num_map_msgs - num_dropped_map_jobs <=
               Cardinality(Credited) + Cardinality(Overcounted) + Extra
        BY <1>1, <2>6 DEF Backed
      <3> QED
        BY <1>1, <1>3, <1>4, <2>4, <2>5, <3>1
    <2> QED
      BY <2>4, <2>6 DEF Backed
  <1> QED
    BY <1>5, <1>6

\* Dropping a worker in the map phase: as many answers are taken back as were
\* credited to it; one that is being counted or credited is overcounted.
LEMMA DropKeepsBacked == ASSUME TypeOK, Backed, DropMapWorker PROVE Backed'
  <1> DEFINE n == completed_map_jobs[failed]
             own == {failed} \X (1 .. n)
  <1>1. /\ failed \in worker_ips /\ worker_ips' = worker_ips \ {failed}
        /\ completed_map_jobs' = [completed_map_jobs EXCEPT ![failed] = 0]
        /\ num_dropped_map_jobs' = num_dropped_map_jobs + n
        /\ UNCHANGED <<num_map_msgs, map_complete, pp, pcall>>
    BY DEF DropMapWorker, RemoveWorker, TakeBackAnswers, flags, pollvars
  <1>2. /\ num_map_msgs \in Nat /\ num_dropped_map_jobs \in Nat /\ IsFiniteSet(Credited)
        /\ Cardinality(Credited) \in Nat /\ Cardinality(Overcounted) \in Nat
        /\ completed_map_jobs \in [Workers -> Nat] /\ worker_ips \subseteq Workers
        /\ IsFiniteSet(Overcounted)
    BY CountedSets DEF Backed
  <1>3. failed \in Workers /\ n \in Nat
    BY <1>1, <1>2
  <1>4. Credited' = Credited \ own /\ own \subseteq Credited
    <2>1. ASSUME NEW z \in Credited' PROVE z \in Credited \ own
      <3>1. PICK v \in worker_ips', k \in Nat : k \in 1 .. completed_map_jobs'[v] /\ z = <<v, k>>
        BY <2>1 DEF Credited
      <3>2. v \in worker_ips /\ v # failed /\ completed_map_jobs'[v] = completed_map_jobs[v]
        BY <1>1, <1>2, <3>1
      <3> QED
        BY <3>1, <3>2, CreditedMember
    <2>2. ASSUME NEW z \in Credited \ own PROVE z \in Credited'
      <3>1. PICK v \in worker_ips, k \in Nat : k \in 1 .. completed_map_jobs[v] /\ z = <<v, k>>
        BY <2>2, CreditedMember
      <3>2. v # failed
        BY <2>2, <3>1
      <3>3. v \in worker_ips' /\ completed_map_jobs'[v] = completed_map_jobs[v]
        BY <1>1, <1>2, <3>2
      <3> QED
        BY <3>1, <3>3 DEF Credited
    <2>3. own \subseteq Credited
      BY <1>1, CreditedMember
    <2> QED
      BY <2>1, <2>2, <2>3
  <1>5. IsFiniteSet(own) /\ Cardinality(own) = n
    <2>1. IsFiniteSet(1 .. n) /\ Cardinality(1 .. n) = n
      BY <1>3, FS_Interval, SMTT(60)
    <2>2. IsFiniteSet({failed}) /\ Cardinality({failed}) = 1
      BY FS_Singleton
    <2>3. IsFiniteSet(own) /\ Cardinality(own) = Cardinality({failed}) * Cardinality(1 .. n)
      BY <2>1, <2>2, FS_Product
    <2> QED
      BY <1>3, <2>1, <2>2, <2>3
  <1> HIDE DEF n, own
  <1>6. IsFiniteSet(Credited') /\ Cardinality(Credited') = Cardinality(Credited) - n
    <2>1. Credited \cap own = own
      BY <1>4
    <2> QED
      BY <1>2, <1>4, <1>5, <2>1, FS_Difference
  <1>7. /\ Cardinality(Overcounted') \in Nat /\ Extra' \in Nat /\ Extra \in Nat
        /\ Cardinality(Overcounted') + Extra' >= Cardinality(Overcounted) + Extra
    <2>1. /\ Overcounted' = (dropped_worker_ips \cup {failed}) \ Held
          /\ failed \notin Overcounted
          /\ Extra' \in Nat /\ Extra \in Nat
      BY <1>1, <1>3 DEF Overcounted, Held, dropped_worker_ips, Extra
    <2>2. CASE failed \in Held
      <3>1. Overcounted' = Overcounted /\ ~Crediting /\ ~Crediting'
        BY <1>1, <2>1, <2>2 DEF Overcounted, Held, Crediting
      <3> QED
        BY <1>2, <3>1 DEF Extra
    <2>3. CASE failed \notin Held
      <3>1. Overcounted' = Overcounted \cup {failed}
        BY <2>1, <2>3 DEF Overcounted
      <3>2. Cardinality(Overcounted') = Cardinality(Overcounted) + 1
        BY <1>2, <2>1, <3>1, FS_AddElement
      <3> QED
        BY <1>2, <3>2 DEF Extra
    <2> QED
      BY <2>2, <2>3
  <1>8. ASSUME ~map_complete'
        PROVE  num_map_msgs' - num_dropped_map_jobs' <=
                 Cardinality(Credited') + Cardinality(Overcounted') + Extra'
    <2>1. num_map_msgs - num_dropped_map_jobs <=
             Cardinality(Credited) + Cardinality(Overcounted) + Extra
      BY <1>1, <1>8 DEF Backed
    <2> QED
      BY <1>1, <1>2, <1>3, <1>6, <1>7, <2>1
  <1> QED
    BY <1>6, <1>8 DEF Backed

\* Once the map phase is complete only finiteness is left to say.
LEMMA ReduceDropKeepsBacked ==
    ASSUME TypeOK, Positions, Backed, DropReduceWorker
    PROVE  Backed'
  <1>1. map_complete' /\ failed \in worker_ips /\ worker_ips' = worker_ips \ {failed}
        /\ completed_map_jobs' = [completed_map_jobs EXCEPT ![failed] = 0]
    BY DEF Positions, DropReduceWorker, RemoveWorker, flags
  <1>2. completed_map_jobs \in [Workers -> Nat] /\ worker_ips \subseteq Workers
    BY CountedSets DEF Backed
  <1>3. Credited' \subseteq Credited
    <2> SUFFICES ASSUME NEW z \in Credited' PROVE z \in Credited
      OBVIOUS
    <2>1. PICK v \in worker_ips', k \in Nat : k \in 1 .. completed_map_jobs'[v] /\ z = <<v, k>>
      BY DEF Credited
    <2>2. v \in worker_ips /\ completed_map_jobs'[v] = completed_map_jobs[v]
      BY <1>1, <1>2, <2>1
    <2> QED
      BY <2>1, <2>2, CreditedMember
  <1>4. IsFiniteSet(Credited')
    BY <1>3, FS_Subset DEF Backed
  <1> QED
    BY <1>1, <1>4 DEF Backed

\* The other steps of the poll thread.
LEMMA PollKeepsBacked == ASSUME TypeOK, Backed, PollStep PROVE Backed'
  <1>1. CASE TakeCall \/ PushReady \/ LookUpClient \/ CountReduceAnswer \/ RegisterFiles
             \/ NotifyMain \/ NoNotify \/ TakeFlagBack
    <2> USE DEF TakeCall, PushReady, LookUpClient, CountReduceAnswer, RegisterFiles,
                NotifyMain, NoNotify, TakeFlagBack
    <2>1. UNCHANGED <<num_map_msgs, completed_map_jobs, worker_ips, map_complete>>
      BY <1>1, Zenon DEF flags, books, clients, counters
    <2>2. num_dropped_map_jobs' \in Nat /\ num_dropped_map_jobs' >= num_dropped_map_jobs
      <3>1. num_dropped_map_jobs \in Nat
        BY DEF TypeOK, MasterTypeOK, CountersTypeOK
      <3> QED
        BY <1>1, <3>1 DEF counters
    <2>3. pp' = "bump" => pcall' = pcall /\ pcall.worker \in worker_ips
      BY <1>1
    <2>4. pp = "bump" => ~pcall.is_map_job
      BY <1>1
    <2>5. Overcounted' = Overcounted
      BY <2>1, <2>3, <2>4 DEF Overcounted, Held, dropped_worker_ips
    <2>6. ~Crediting /\ ~Crediting'
      BY <1>1 DEF Crediting
    <2> QED
      BY <2>1, <2>2, <2>5, <2>6, BackedFrame
  <1> QED
    BY <1>1, CountKeepsBacked, CreditKeepsBacked DEF PollStep

\* Main thread, workers, and the monitor when it drops nobody.
LEMMA OthersKeepBacked ==
    ASSUME TypeOK, Positions, Backed,
           MainStep \/ SpuriousWakeup \/ MonitorStep \/ WorkerStep \/ UNCHANGED vars
    PROVE  Backed'
  <1> USE DEF flags, books, clients, counters, mainvars, pollvars
  <1>1. num_dropped_map_jobs \in Nat
    BY DEF TypeOK, MasterTypeOK, CountersTypeOK
  <1>2. ASSUME UNCHANGED <<num_map_msgs, num_dropped_map_jobs, completed_map_jobs, worker_ips>>,
               UNCHANGED <<pp, pcall>> \/ (pp = "exit" /\ pp' = "next"),
               map_complete => map_complete'
        PROVE  Backed'
    <2>1. Overcounted' = Overcounted /\ (Crediting' <=> Crediting)
      BY <1>2 DEF Overcounted, Held, Crediting, dropped_worker_ips
    <2> QED
      BY <1>1, <1>2, <2>1, BackedFrame
  <1>3. CASE MainStep
    <2> USE DEF RequestInitialRound, AwaitInitialRound, PickWorker, GetClient, CallDroppedClient,
                send_mapper_job, send_reducer_job, RaiseFlagAndSleep, TriggerMonitoring,
                TestUnfinished, UpdateComplete, RaiseFlag, CheckShards, RefillShards,
                CheckPartitions, JoinMapPoll, JoinReducePoll, Cleanup, MainStep
    <2>1. UNCHANGED <<num_map_msgs, num_dropped_map_jobs, completed_map_jobs, worker_ips>>
      BY <1>3, Zenon
    <2>2. UNCHANGED <<pp, pcall>> \/ (pp = "exit" /\ pp' = "next")
      BY <1>3, Zenon
    <2>3. map_complete => map_complete'
      BY <1>3, Zenon
    <2> QED
      BY <1>2, <2>1, <2>2, <2>3
  <1>4. CASE SpuriousWakeup \/ WorkerStep \/ UNCHANGED vars \/ MonitorBegin \/ SendPings
             \/ ReceivePong \/ ReceiveError \/ DropMapWorkerAgain \/ DropReduceWorkerAgain
             \/ EndInitialRound \/ EndRound \/ MonitorExit
    <2>1. UNCHANGED <<num_map_msgs, num_dropped_map_jobs, completed_map_jobs, worker_ips,
                      pp, pcall, map_complete>>
      BY <1>4, Zenon DEF SpuriousWakeup, WorkerStep, vars, MonitorBegin, SendPings,
         ReceivePong, ReceiveError, DropMapWorkerAgain, DropReduceWorkerAgain,
         EndInitialRound, EndRound, MonitorExit
    <2> QED
      BY <1>2, <2>1
  <1> QED
    BY <1>3, <1>4, DropKeepsBacked, ReduceDropKeepsBacked DEF MonitorStep

\* While the map phase lasts, the count by which the master ends it exceeds the
\* answers credited to listed workers by the one being credited and one for
\* each dropped worker at most, although answers are counted and credited
\* without a lock while the monitor takes them back.
THEOREM CountBacked == Spec => []AnswersAccounted
  <1>1. ASSUME Init PROVE Backed
    <2>1. /\ worker_ips = Workers /\ num_map_msgs = 0 /\ num_dropped_map_jobs = 0
          /\ completed_map_jobs = [w \in Workers |-> 0] /\ pp = "next"
      BY <1>1 DEF Init, MasterInit
    <2>2. Credited = {} /\ Overcounted = {} /\ Extra = 0
      BY <2>1, CreditedMember DEF Overcounted, dropped_worker_ips, Extra, Crediting
    <2> QED
      BY <2>1, <2>2, FS_EmptySet DEF Backed
  <1>2. ASSUME TypeOK, Positions, Backed, [Next]_vars PROVE Backed'
    BY <1>2, PollKeepsBacked, OthersKeepBacked DEF Next, Terminated
  <1>3. TypeOK /\ Backed => AnswersAccounted
    <2> SUFFICES ASSUME TypeOK, Backed, ~map_complete
                 PROVE  num_map_msgs - num_dropped_map_jobs <=
                          Cardinality(Credited) + Cardinality(dropped_worker_ips) + Extra
      BY DEF AnswersAccounted, Extra, Crediting
    <2>1. num_map_msgs - num_dropped_map_jobs <=
             Cardinality(Credited) + Cardinality(Overcounted) + Extra
      BY DEF Backed
    <2>2. /\ num_map_msgs \in Nat /\ num_dropped_map_jobs \in Nat
          /\ Cardinality(Credited) \in Nat /\ Cardinality(Overcounted) \in Nat
      BY CountedSets DEF Backed
    <2>3. /\ Cardinality(Overcounted) <= Cardinality(dropped_worker_ips)
          /\ Cardinality(dropped_worker_ips) \in Nat
      <3>1. IsFiniteSet(dropped_worker_ips) /\ Overcounted \subseteq dropped_worker_ips
        BY WorkersAssumption, FS_Subset DEF dropped_worker_ips, Overcounted
      <3> QED
        BY <3>1, FS_Subset, FS_CardinalityType
    <2> QED
      BY <2>1, <2>2, <2>3 DEF Extra
  <1> QED
    BY <1>1, <1>2, <1>3, TypeCorrect, PositionsAndShards, PTL DEF Spec

=============================================================================
