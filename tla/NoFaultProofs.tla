--------------------------- MODULE NoFaultProofs ----------------------------
(***************************************************************************)
(* MapReduce without faults: when no worker is absent, none dies and no    *)
(* RPC misses its deadline, the flag the main and the poll thread share is *)
(* never lost between them, the reduce jobs read every shard once, and if  *)
(* run returns the output files hold every shard once.  For any number of  *)
(* workers, shards and partitions.                                         *)
(***************************************************************************)
EXTENDS MapReduceProofs

NoFaults == MaxCrash = 0 /\ MaxTimeout = 0 /\ Absent = {}

\* Nobody fails, so nobody is dropped and nothing is left unfinished.
Healthy ==
    /\ \A w \in Workers : alive[w]
    /\ late = {}
    /\ \A c \in calls : c.status \in {"sent", "ok"}
    /\ worker_ips = Workers
    /\ unfinished_shards = <<>>
    /\ num_dropped_workers = 0
    /\ num_dropped_map_jobs = 0
    /\ num_dropped_reduce_jobs = 0
    /\ pm # "crashed"
    /\ pn \notin {"drop_map", "drop_reduce"}

\* The main thread has been told that all the answers of its phase are in.
Over == pm \in {"woken", "triggered", "counting", "raising", "check", "leave", "join",
                "stopping", "done", "failed"}

\* run has returned.
Ended == pm \in {"done", "failed"}

\* Who has the flag: it is raised while main sleeps and from the end of the
\* monitoring round until the poll thread has taken it back, which then ends.
Handover ==
    /\ pm = "asleep" => map_reduce_flag
    /\ ~Over /\ pm # "asleep" => ~map_reduce_flag
    /\ ~Over => pp \notin {"wait", "exit"}
    /\ pm # "again"
    /\ pm \in {"woken", "triggered", "counting", "raising"} => ~map_reduce_flag /\ pp = "wait"
    /\ pm \in {"check", "leave", "join"} => \/ map_reduce_flag /\ pp = "wait"
                                            \/ ~map_reduce_flag /\ pp = "exit"
    /\ pm = "stopping" \/ Ended => ~map_reduce_flag /\ pp = "exit" /\ phase = "reduce"
    /\ pp = "wait" => (is_map <=> phase = "map")
    /\ map_complete <=> phase = "reduce" \/ pm \in {"raising", "check", "leave", "join"}
    /\ reduce_complete <=>
         phase = "reduce" /\ pm \in {"raising", "check", "leave", "join", "stopping",
                                     "done", "failed"}

\* The poll thread has an answer in hand, which it has not counted yet.
Answering == pp \in {"push", "look", "bump", "credit", "register"}
Uncounted == pp \in {"push", "look", "bump"}
Answered == IF phase = "map" THEN num_map_msgs ELSE num_reduce_msgs
Expected == IF phase = "map" THEN NumShards ELSE NumPartitions

\* Every job given out is answered, being answered or under way.
Counting ==
    /\ \A c \in calls : c.is_map_job <=> phase = "map"
    /\ Answering => (pcall.is_map_job <=> phase = "map")
    /\ phase = "map" => num_reduce_msgs = 0
    /\ num_reduce_msgs =
         output_files + (IF phase = "reduce" /\ Answering /\ ~Uncounted THEN 1 ELSE 0)
    /\ phase = "map" /\ pp \in {"credit", "register", "eval"} => num_map_msgs > 0
    /\ phase = "reduce" \/ Over => NumShards > 0
    /\ Over => calls = {} /\ Answered = Expected
    /\ ~Over => /\ IsFiniteSet(calls)
                /\ Answered + Cardinality(calls) + (IF Uncounted THEN 1 ELSE 0) = i - 1
                /\ i - 1 <= Len(jobs)
                /\ Len(jobs) = Expected

SentJob(j) == \E c \in calls : c.job = j /\ c.status = "sent"
Given(j) == \E k \in 1 .. i - 1 : jobs[k] = j

\* Every job of the phase is in the vector once, and under way once at most.
JobsOnce ==
    ~Over =>
        /\ \A k, l \in 1 .. Len(jobs) : jobs[k] = jobs[l] => k = l
        /\ \A c, d \in calls : c.job = d.job => c = d
        /\ \A c \in calls : Given(c.job)
        /\ \A j \in 1 .. Expected : InSeq(j, jobs)

\* w alone has s in its intermediate files; the master knows these files, or
\* will when it has looked at an answer of w.
Holds(w, s) == \A p \in Partitions :
    inter_file[w][p][s] = 1 /\ \A v \in Workers \ {w} : inter_file[v][p][s] = 0
Registered(w) == \A p \in Partitions : <<p, w>> \in intermediate_files
ToRegister(w) ==
    \/ \E c \in calls : c.worker = w /\ c.status = "ok"
    \/ Answering /\ pcall.worker = w
Nowhere(s) == \A w \in Workers, p \in Partitions : inter_file[w][p][s] = 0

\* A shard is in no file until a worker has mapped it, then in those of one.
Mapped ==
    /\ phase = "map" /\ ~Over => \A s \in Shards :
         /\ SentJob(s) \/ ~Given(s) => Nowhere(s)
         /\ ~SentJob(s) /\ Given(s) =>
              \E w \in Workers : Holds(w, s) /\ (Registered(w) \/ ToRegister(w))
    /\ (phase = "reduce" \/ Over) /\ ~Ended =>
         \A s \in Shards : \E w \in Workers : Holds(w, s) /\ Registered(w)
    /\ Ended => \A w \in Workers, p \in Partitions : inter_file[w][p] = NoShard

\* The output file of p is what it should be.
Complete(p) ==
    /\ Len(output_file[p]) = 1
    /\ \A s \in Shards : \E w \in Workers :
         /\ output_file[p][1][w][s] = 1
         /\ \A v \in Workers \ {w} : output_file[p][1][v][s] = 0

\* An output file is empty until a worker has reduced its partition.
Reduced ==
    /\ phase = "map" => \A p \in Partitions : output_file[p] = <<>>
    /\ phase = "reduce" => idx2files = [p \in Partitions |->
                              {w \in Workers : <<p, w>> \in intermediate_files}]
    /\ phase = "reduce" => \A c \in calls : c.files = idx2files[c.job]
    /\ phase = "reduce" /\ ~Over => \A p \in Partitions :
         /\ SentJob(p) \/ ~Given(p) => output_file[p] = <<>>
         /\ ~SentJob(p) /\ Given(p) => Complete(p)
    /\ phase = "reduce" /\ Over => \A p \in Partitions : Complete(p)

NoFaultInv == Healthy /\ Handover /\ Counting /\ JobsOnce /\ Mapped /\ Reduced

-----------------------------------------------------------------------------
(* Who is healthy stays so, and the flag goes round                          *)

\* Without faults a worker does nothing but its job.
LEMMA WorkersOnlyAnswer ==
    ASSUME NoFaults, TypeOK, Healthy, WorkerStep
    PROVE  \E w \in Workers : Proceed(w)
  <1>1. crashes = 0 /\ timeouts = 0
    BY DEF NoFaults, TypeOK, WorkerTypeOK
  <1>2. \A w \in Workers : alive[w]
    BY DEF Healthy
  <1>3. ASSUME NEW w \in Workers PROVE ~ProceedLate(w) /\ ~Unavailable(w) /\ ~Crash(w)
    BY <1>1, <1>2 DEF NoFaults, Healthy, ProceedLate, Unavailable, Crash
  <1>4. ~Deadline
    BY <1>1 DEF NoFaults, Deadline
  <1> QED
    BY <1>3, <1>4 DEF WorkerStep, WorkerNext

\* Without faults the monitor only counts pongs.
LEMMA MonitorOnlyCounts ==
    ASSUME NoFaults, TypeOK, Healthy, MonitorStep
    PROVE  \/ MonitorBegin \/ SendPings \/ ReceivePong
           \/ EndInitialRound \/ EndRound \/ MonitorExit
  <1>1. timeouts = 0 /\ \A w \in Workers : alive[w]
    BY DEF NoFaults, TypeOK, WorkerTypeOK, Healthy
  <1>2. ~ReceiveError
    <2> SUFFICES ASSUME NEW x \in Workers \X BOOLEAN,
                        IF alive[x[1]] THEN timeouts < MaxTimeout ELSE TRUE
                 PROVE  FALSE
      BY DEF ReceiveError
    <2>1. x[1] \in Workers
      OBVIOUS
    <2> QED
      BY <1>1, <2>1 DEF NoFaults
  <1>3. ~DropMapWorker /\ ~DropMapWorkerAgain /\ ~DropReduceWorker /\ ~DropReduceWorkerAgain
    BY DEF Healthy, DropMapWorker, DropMapWorkerAgain, DropReduceWorker, DropReduceWorkerAgain
  <1> QED
    BY <1>2, <1>3 DEF MonitorStep

\* Nobody is dropped while main has a worker in hand.
LEMMA NoCallDropped == ASSUME TypeOK, Healthy PROVE ~CallDroppedClient
  BY DEF Healthy, CallDroppedClient, dropped_worker_ips

\* Main wakes up only when it is told to.
LEMMA NotSpurious == ASSUME Handover PROVE ~SpuriousWakeup
  BY DEF Handover, SpuriousWakeup

healthvars == <<alive, late, calls, worker_ips, unfinished_shards, num_dropped_workers,
                num_dropped_map_jobs, num_dropped_reduce_jobs>>

\* What touches none of that keeps everybody healthy.
LEMMA HealthyFrame ==
    ASSUME Healthy, UNCHANGED healthvars, pm' # "crashed",
           pn' \notin {"drop_map", "drop_reduce"}
    PROVE  Healthy'
  BY DEF Healthy, healthvars

\* The main thread keeps everybody healthy.
LEMMA MainHealthy == ASSUME TypeOK, Healthy, MainStep PROVE Healthy'
  <1> USE DEF wvars, books, counters, monvars
  <1>1. CASE RequestInitialRound \/ PickWorker \/ GetClient \/ RaiseFlagAndSleep
             \/ TriggerMonitoring \/ TestUnfinished \/ UpdateComplete \/ CheckShards
             \/ CheckPartitions \/ JoinMapPoll \/ JoinReducePoll \/ Cleanup
    <2> USE DEF RequestInitialRound, PickWorker, GetClient, RaiseFlagAndSleep,
                TriggerMonitoring, TestUnfinished, UpdateComplete, CheckShards,
                CheckPartitions, JoinMapPoll, JoinReducePoll, Cleanup
    <2>1. UNCHANGED healthvars
      BY <1>1, Zenon DEF healthvars
    <2>2. pm' # "crashed" /\ pn' = pn
      BY <1>1 DEF Healthy
    <2> QED
      BY <2>1, <2>2, HealthyFrame DEF Healthy
  <1>2. CASE AwaitInitialRound \/ RaiseFlag \/ RefillShards
    <2>1. /\ UNCHANGED <<alive, late, calls, worker_ips, pn, num_dropped_map_jobs,
                         num_dropped_reduce_jobs>>
          /\ pm' # "crashed"
          /\ num_dropped_workers' \in {0, num_dropped_workers}
          /\ unfinished_shards' \in {<<>>, unfinished_shards}
      BY <1>2 DEF AwaitInitialRound, RaiseFlag, RefillShards
    <2> QED
      BY <2>1 DEF Healthy
  <1>3. CASE send_mapper_job \/ send_reducer_job
    <2>1. /\ UNCHANGED <<alive, late, worker_ips, unfinished_shards, num_dropped_workers,
                         num_dropped_map_jobs, num_dropped_reduce_jobs, pn>>
          /\ pm' # "crashed"
      BY <1>3 DEF send_mapper_job, send_reducer_job
    <2>2. \A c \in calls' : c.status \in {"sent", "ok"}
      BY <1>3 DEF send_mapper_job, send_reducer_job, Healthy
    <2> QED
      BY <2>1, <2>2 DEF Healthy
  <1> QED
    BY <1>1, <1>2, <1>3, NoCallDropped DEF MainStep

\* So do poll thread, monitor and workers.
LEMMA OthersHealthy ==
    ASSUME NoFaults, TypeOK, Healthy,
           PollStep \/ MonitorStep \/ WorkerStep \/ UNCHANGED vars
    PROVE  Healthy'
  <1> USE DEF wvars, books, counters, mainvars, monvars
  <1>1. CASE PushReady \/ LookUpClient \/ CountMapAnswer \/ CountReduceAnswer
             \/ CreditClient \/ RegisterFiles \/ NotifyMain \/ NoNotify \/ TakeFlagBack
             \/ UNCHANGED vars
    <2> USE DEF PushReady, LookUpClient, CountMapAnswer, CountReduceAnswer, CreditClient,
                RegisterFiles, NotifyMain, WakeMain, NoNotify, TakeFlagBack, vars
    <2>1. UNCHANGED healthvars
      BY <1>1, Zenon DEF healthvars
    <2>2. pm' # "crashed" /\ pn' = pn
      BY <1>1 DEF Healthy
    <2> QED
      BY <2>1, <2>2, HealthyFrame DEF Healthy
  <1>2. CASE TakeCall
    <2>1. PICK c \in calls :
             /\ calls' = calls \ {c}
             /\ num_dropped_map_jobs' =
                  num_dropped_map_jobs + (IF c.status = "error" /\ c.is_map_job THEN 1 ELSE 0)
             /\ num_dropped_reduce_jobs' =
                  num_dropped_reduce_jobs + (IF c.status = "error" /\ ~c.is_map_job THEN 1 ELSE 0)
      BY <1>2 DEF TakeCall
    <2>2. c.status # "error"
      BY DEF Healthy
    <2>3. UNCHANGED <<alive, late, worker_ips, unfinished_shards, num_dropped_workers, pm, pn>>
      BY <1>2 DEF TakeCall
    <2> QED
      BY <2>1, <2>2, <2>3 DEF Healthy
  <1>3. CASE MonitorStep
    <2> USE DEF MonitorBegin, SendPings, ReceivePong, EndInitialRound, EndRound, MonitorExit
    <2>1. \/ MonitorBegin \/ SendPings \/ ReceivePong
          \/ EndInitialRound \/ EndRound \/ MonitorExit
      BY <1>3, MonitorOnlyCounts
    <2>2. UNCHANGED healthvars
      BY <2>1, Zenon DEF healthvars
    <2>3. pm' # "crashed" /\ pn' \notin {"drop_map", "drop_reduce"}
      BY <2>1 DEF Healthy
    <2> QED
      BY <2>2, <2>3, HealthyFrame
  <1>4. CASE WorkerStep
    <2>1. PICK w \in Workers : Proceed(w)
      BY <1>4, WorkersOnlyAnswer
    <2>2. PICK c \in calls : /\ calls' = (calls \ {c}) \cup {[c EXCEPT !.status = "ok"]}
                             /\ UNCHANGED <<alive, late>>
      BY <2>1 DEF Proceed
    <2>3. [c EXCEPT !.status = "ok"].status = "ok"
      BY DEF TypeOK, WorkerTypeOK, Call
    <2>4. UNCHANGED <<worker_ips, unfinished_shards, num_dropped_workers,
                      num_dropped_map_jobs, num_dropped_reduce_jobs, pm, pn>>
      BY <1>4 DEF WorkerStep
    <2> QED
      BY <2>2, <2>3, <2>4 DEF Healthy
  <1> QED
    BY <1>1, <1>2, <1>3, <1>4 DEF PollStep

handvars == <<pm, pp, phase, is_map, map_reduce_flag, map_complete, reduce_complete>>

\* What touches none of that leaves the flag where it is.
LEMMA HandoverFrame == ASSUME Handover, UNCHANGED handvars PROVE Handover'
  BY Zenon DEF Handover, Over, Ended, handvars

\* The poll thread tells main that a phase is over only when it is.
LEMMA NotifiedInTime ==
    ASSUME TypeOK, Healthy, Handover, Counting, NotifyMain
    PROVE  pm = "asleep" /\ ~Over /\ Answered = Expected
  <1>1. pp = "eval" /\ map_reduce_flag /\ notify_master
    BY DEF NotifyMain
  <1>2. pm \in MainLabels /\ phase \in {"map", "reduce"}
    BY DEF TypeOK, MasterTypeOK, MainVarsTypeOK
  <1>3. ~Over /\ pm = "asleep"
    BY <1>1, <1>2 DEF Handover, Over, Ended, MainLabels
  <1>4. /\ num_map_msgs \in Nat /\ num_reduce_msgs \in Nat
        /\ num_dropped_workers = 0 /\ num_dropped_map_jobs = 0 /\ num_dropped_reduce_jobs = 0
    BY DEF TypeOK, MasterTypeOK, CountersTypeOK, Healthy
  <1>5. map_complete <=> phase = "reduce"
    BY <1>3 DEF Handover
  <1>6. CASE phase = "map"
    BY <1>1, <1>3, <1>4, <1>5, <1>6, SizesAssumption
       DEF notify_master, Counting, Answered, Expected
  <1>7. CASE phase = "reduce"
    BY <1>1, <1>3, <1>4, <1>5, <1>7 DEF notify_master, Answered, Expected
  <1> QED
    BY <1>2, <1>6, <1>7

\* The main thread keeps its side of the hand-over.
LEMMA MainHandover ==
    ASSUME TypeOK, Healthy, Handover, Counting, MainStep
    PROVE  Handover'
  <1> USE DEF flags, pollvars, mainvars
  <1>1. phase \in {"map", "reduce"}
    BY DEF TypeOK, MasterTypeOK, MainVarsTypeOK
  <1>2. CASE RequestInitialRound \/ AwaitInitialRound \/ PickWorker \/ GetClient
             \/ send_mapper_job \/ send_reducer_job
    <2>1. /\ pm \in {"start", "init_wait", "pick", "call", "send"}
          /\ pm' \in {"start", "init_wait", "pick", "call", "send"}
          /\ UNCHANGED <<pp, phase, is_map, map_reduce_flag, map_complete, reduce_complete>>
      BY <1>2 DEF RequestInitialRound, AwaitInitialRound, PickWorker, GetClient,
                  send_mapper_job, send_reducer_job
    <2> QED
      BY <2>1 DEF Handover, Over, Ended
  <1>3. CASE RaiseFlagAndSleep
    BY <1>3 DEF RaiseFlagAndSleep, Handover, Over, Ended
  <1>4. CASE TriggerMonitoring
    BY <1>4 DEF TriggerMonitoring, Handover, Over, Ended
  <1>5. CASE TestUnfinished \/ RaiseFlag
    <2>1. /\ \/ pm = "triggered" /\ pm' = "counting" /\ UNCHANGED map_reduce_flag
             \/ pm = "raising" /\ pm' = "check" /\ map_reduce_flag' = TRUE
          /\ UNCHANGED <<pp, phase, is_map, map_complete, reduce_complete>>
      BY <1>5 DEF TestUnfinished, RaiseFlag, Healthy
    <2> QED
      BY <2>1 DEF Handover, Over, Ended
  <1>6. CASE UpdateComplete
    <2>1. /\ pm = "counting" /\ pm' = "raising"
          /\ map_complete' <=> map_complete \/ MapCounted
          /\ reduce_complete' <=> reduce_complete \/ (map_complete /\ ReduceDone)
          /\ UNCHANGED <<pp, phase, is_map, map_reduce_flag>>
      BY <1>6 DEF UpdateComplete
    <2>2. ~map_reduce_flag /\ pp = "wait" /\ (is_map <=> phase = "map")
      BY <2>1 DEF Handover
    <2>3. Answered = Expected /\ output_files = num_reduce_msgs
      BY <2>1, <2>2 DEF Counting, Over, Answering, TypeOK, MasterTypeOK, BooksTypeOK
    <2>4. CASE phase = "map"
      <3>1. MapCounted /\ ~map_complete /\ ~reduce_complete
        <4>1. num_map_msgs = NumShards /\ num_dropped_map_jobs = 0 /\ num_map_msgs \in Nat
          BY <2>3, <2>4
             DEF Answered, Expected, Healthy, TypeOK, MasterTypeOK, CountersTypeOK
        <4>2. MapCounted
          BY <4>1 DEF MapCounted
        <4> QED
          BY <2>1, <2>4, <4>2 DEF Handover
      <3> QED
        BY <2>1, <2>2, <2>4, <3>1 DEF Handover, Over, Ended
    <2>5. CASE phase = "reduce"
      <3>1. ReduceDone /\ map_complete
        BY <2>3, <2>5 DEF Answered, Expected, ReduceDone, unfinished_partitions, Handover
      <3> QED
        BY <2>1, <2>2, <2>5, <3>1 DEF Handover, Over, Ended
    <2> QED
      BY <1>1, <2>4, <2>5
  <1>7. CASE CheckShards \/ RefillShards \/ CheckPartitions
    <2>1. /\ pm \in {"check", "leave"} /\ pm' \in {"leave", "join"}
          /\ UNCHANGED <<pp, phase, is_map, map_reduce_flag, map_complete, reduce_complete>>
      <3>1. pm \in {"check", "leave"}
        BY <1>7 DEF CheckShards, RefillShards, CheckPartitions, Handover
      <3>2. map_complete /\ (phase = "reduce" => reduce_complete)
        BY <3>1 DEF Handover
      <3> QED
        BY <1>7, <3>1, <3>2
           DEF CheckShards, RefillShards, CheckPartitions, Healthy, unfinished_partitions
    <2> QED
      BY <2>1 DEF Handover, Over, Ended
  <1>8. CASE JoinMapPoll
    BY <1>8 DEF JoinMapPoll, Handover, Over, Ended
  <1>9. CASE JoinReducePoll \/ Cleanup
    BY <1>9 DEF JoinReducePoll, Cleanup, Handover, Over, Ended
  <1> QED
    BY <1>2, <1>3, <1>4, <1>5, <1>6, <1>7, <1>8, <1>9, NoCallDropped DEF MainStep

\* The poll thread keeps its side of the hand-over.
LEMMA PollHandover ==
    ASSUME TypeOK, Healthy, Handover, Counting, PollStep
    PROVE  Handover'
  <1> USE DEF flags, mainvars
  <1>1. pm \in MainLabels /\ phase \in {"map", "reduce"}
    BY DEF TypeOK, MasterTypeOK, MainVarsTypeOK
  <1>2. CASE TakeCall \/ PushReady \/ LookUpClient \/ CountMapAnswer \/ CountReduceAnswer
             \/ CreditClient \/ RegisterFiles \/ NoNotify
    <2>1. /\ pp \in {"next", "push", "look", "bump", "credit", "register", "eval"}
          /\ UNCHANGED <<pm, phase, is_map, map_reduce_flag, map_complete, reduce_complete>>
      BY <1>2 DEF TakeCall, PushReady, LookUpClient, CountMapAnswer, CountReduceAnswer,
                  CreditClient, RegisterFiles, NoNotify
    <2>2. ~Over
      BY <1>1, <2>1 DEF Handover, Over, Ended
    <2>3. ~reduce_complete
      BY <2>2 DEF Handover, Over, Ended
    <2>4. pp' \in {"next", "push", "look", "bump", "credit", "register", "eval"}
      BY <1>2, <2>3 DEF TakeCall, PushReady, LookUpClient, CountMapAnswer,
                        CountReduceAnswer, CreditClient, RegisterFiles, NoNotify
    <2> QED
      BY <2>1, <2>2, <2>4 DEF Handover, Over, Ended
  <1>3. CASE NotifyMain
    <2>1. pm = "asleep" /\ ~Over
      BY <1>3, NotifiedInTime
    <2>2. /\ pm' = "woken" /\ ~map_reduce_flag' /\ pp' = "wait"
          /\ is_map' <=> ~map_complete
          /\ UNCHANGED <<phase, map_complete, reduce_complete>>
      BY <1>3, <2>1 DEF NotifyMain, WakeMain
    <2> QED
      BY <1>1, <2>1, <2>2 DEF Handover, Over, Ended
  <1>4. CASE TakeFlagBack
    <2>1. /\ pp = "wait" /\ map_reduce_flag /\ ~map_reduce_flag'
          /\ UNCHANGED <<pm, phase, map_complete, reduce_complete>>
      BY <1>4 DEF TakeFlagBack
    <2>2. pm \in {"check", "leave", "join"}
      BY <1>1, <2>1 DEF Handover, Over, Ended, MainLabels
    <2>3. (map_complete /\ is_map) \/ (reduce_complete /\ ~is_map)
      BY <1>1, <2>1, <2>2 DEF Handover
    <2>4. pp' = "exit"
      BY <1>4, <2>3 DEF TakeFlagBack
    <2> QED
      BY <2>1, <2>2, <2>4 DEF Handover, Over, Ended
  <1> QED
    BY <1>2, <1>3, <1>4 DEF PollStep

\* Monitor and workers have no part in it.
LEMMA OthersHandover ==
    ASSUME NoFaults, TypeOK, Healthy, Handover, MonitorStep \/ WorkerStep \/ UNCHANGED vars
    PROVE  Handover'
  <1>1. UNCHANGED handvars
    <2>1. CASE MonitorStep
      BY <2>1, MonitorOnlyCounts, Zenon DEF MonitorBegin, SendPings, ReceivePong,
         EndInitialRound, EndRound, MonitorExit, handvars, mainvars, pollvars, flags
    <2>2. CASE WorkerStep \/ UNCHANGED vars
      BY <2>2, Zenon DEF WorkerStep, handvars, mainvars, pollvars, flags, vars
    <2> QED
      BY <2>1, <2>2
  <1> QED
    BY <1>1, HandoverFrame

-----------------------------------------------------------------------------
(* Jobs, answers and files                                                   *)

datavars == <<phase, calls, num_map_msgs, num_reduce_msgs, output_files, inter_file,
              intermediate_files, output_file, idx2files>>

Data == Counting /\ JobsOnce /\ Mapped /\ Reduced

\* Steps that move a thread without giving, doing or counting a job.
LEMMA DataFrame ==
    ASSUME Data, UNCHANGED datavars, Over' <=> Over, Over \/ UNCHANGED <<jobs, i>>,
           Ended' <=> Ended, Answering' <=> Answering, Uncounted' <=> Uncounted,
           Answering => UNCHANGED pcall, pp' = "eval" => pp = "eval"
    PROVE  Data'
  <1>1. /\ UNCHANGED <<phase, calls, num_map_msgs, num_reduce_msgs, output_files, inter_file,
                       intermediate_files, output_file, idx2files>>
        /\ Answered' = Answered /\ Expected' = Expected
    BY DEF datavars, Answered, Expected
  <1>2. Counting'
    <2>0. pp' \in {"credit", "register", "eval"} => pp \in {"credit", "register", "eval"}
      BY DEF Answering, Uncounted
    <2>1. CASE Over
      BY <1>1, <2>0, <2>1 DEF Data, Counting
    <2>2. CASE ~Over
      BY <1>1, <2>0, <2>2 DEF Data, Counting
    <2> QED
      BY <2>1, <2>2
  <1>3. ASSUME NEW j PROVE /\ SentJob(j)' <=> SentJob(j)
                           /\ ~Over => (Given(j)' <=> Given(j))
    BY <1>1 DEF SentJob, Given
  <1>4. JobsOnce'
    BY <1>1, <1>3 DEF Data, JobsOnce, InSeq
  <1>5. ASSUME NEW w PROVE /\ Registered(w)' <=> Registered(w)
                           /\ ToRegister(w)' <=> ToRegister(w)
    BY <1>1 DEF Registered, ToRegister
  <1>6. ASSUME NEW s PROVE /\ Nowhere(s)' <=> Nowhere(s)
                           /\ \A w : Holds(w, s)' <=> Holds(w, s)
    BY <1>1 DEF Nowhere, Holds
  <1>7. Mapped'
    BY <1>1, <1>3, <1>5, <1>6 DEF Data, Mapped
  <1>8. ASSUME NEW p PROVE Complete(p)' <=> Complete(p)
    BY <1>1 DEF Complete
  <1>9. Reduced'
    BY <1>1, <1>3, <1>8 DEF Data, Reduced
  <1> QED
    BY <1>2, <1>4, <1>7, <1>9 DEF Data

\* Giving a job out: it is under way from now on.
LEMMA SendKeepsData ==
    ASSUME TypeOK, Data, send_mapper_job \/ send_reducer_job
    PROVE  Data'
  <1>1. PICK c0 \in Call :
           /\ c0.job = jobs[i] /\ c0.status = "sent" /\ (c0.is_map_job <=> phase = "map")
           /\ phase = "reduce" => c0.files = idx2files[jobs[i]]
           /\ calls' = calls \cup {c0}
    <2> DEFINE m == [worker |-> hand, is_map_job |-> TRUE, job |-> jobs[i],
                     files |-> {}, status |-> "sent"]
               r == [worker |-> hand, is_map_job |-> FALSE, job |-> jobs[i],
                     files |-> idx2files[jobs[i]], status |-> "sent"]
    <2>1. CASE send_mapper_job
      <3>1. jobs \in Seq(Shards) /\ hand \in Workers /\ i \in 1 .. Len(jobs)
        BY <2>1 DEF send_mapper_job, TypeOK, MasterTypeOK, MainVarsTypeOK
      <3>2. jobs[i] \in Shards
        BY <3>1
      <3>3. m \in Call
        BY <3>1, <3>2 DEF Call
      <3> QED
        BY <2>1, <3>3 DEF send_mapper_job
    <2>2. CASE send_reducer_job
      <3>1. jobs \in Seq(Partitions) /\ hand \in Workers /\ i \in 1 .. Len(jobs)
        BY <2>2 DEF send_reducer_job, TypeOK, MasterTypeOK, MainVarsTypeOK
      <3>2. jobs[i] \in Partitions
        BY <3>1
      <3>3. idx2files[jobs[i]] \in SUBSET Workers
        BY <3>2 DEF TypeOK, MasterTypeOK, MainVarsTypeOK
      <3>4. r \in Call
        BY <3>1, <3>2, <3>3 DEF Call
      <3> QED
        BY <2>2, <3>4 DEF send_reducer_job
    <2> QED
      BY <2>1, <2>2
  <1>2. /\ pm = "send" /\ pm' = "pick" /\ i' = i + 1 /\ i \in 1 .. Len(jobs)
        /\ Len(jobs) \in Nat
        /\ UNCHANGED <<jobs, pp, pcall, phase, num_map_msgs, num_reduce_msgs, output_files,
                       inter_file, intermediate_files, output_file, idx2files>>
    BY DEF send_mapper_job, send_reducer_job, books, counters, pollvars,
           TypeOK, MasterTypeOK, MainVarsTypeOK
  <1>3. ~Over /\ ~Over' /\ ~Ended /\ ~Ended' /\ (Answering' <=> Answering)
        /\ (Uncounted' <=> Uncounted) /\ Answered' = Answered /\ Expected' = Expected
    BY <1>2 DEF Over, Ended, Answering, Uncounted, Answered, Expected
  <1>4. ~Given(jobs[i])
    BY <1>2, <1>3 DEF Data, JobsOnce, Given
  <1>5. ASSUME NEW j PROVE Given(j)' <=> Given(j) \/ j = jobs[i]
    BY <1>2 DEF Given
  <1>6. ASSUME NEW j PROVE SentJob(j)' <=> SentJob(j) \/ j = jobs[i]
    BY <1>1 DEF SentJob
  <1>7. c0 \notin calls
    BY <1>1, <1>3, <1>4 DEF Data, JobsOnce
  <1>8. Counting'
    <2>1. /\ IsFiniteSet(calls') /\ Cardinality(calls') = Cardinality(calls) + 1
          /\ Cardinality(calls) \in Nat
      <3>1. IsFiniteSet(calls)
        BY <1>3 DEF Data, Counting
      <3> QED
        BY <1>1, <1>7, <3>1, FS_AddElement, FS_CardinalityType
    <2>2. \A c \in calls' : c.is_map_job <=> (phase = "map")'
      BY <1>1, <1>2 DEF Data, Counting
    <2>3. Answered \in Nat
      BY DEF TypeOK, MasterTypeOK, CountersTypeOK, Answered
    <2>4. Answered' + Cardinality(calls') + (IF Uncounted' THEN 1 ELSE 0) = i' - 1
      BY <1>2, <1>3, <2>1, <2>3 DEF Data, Counting
    <2> QED
      BY <1>2, <1>3, <2>1, <2>2, <2>4 DEF Data, Counting
  <1>9. JobsOnce'
    <2>1. \A c, d \in calls' : c.job = d.job => c = d
      BY <1>1, <1>3, <1>4 DEF Data, JobsOnce
    <2>2. \A c \in calls' : Given(c.job)'
      BY <1>1, <1>3, <1>5 DEF Data, JobsOnce
    <2> QED
      BY <1>2, <1>3, <2>1, <2>2 DEF Data, JobsOnce, InSeq
  <1>10. Mapped'
    <2>1. ASSUME NEW w PROVE /\ Registered(w)' <=> Registered(w)
                             /\ ToRegister(w) => ToRegister(w)'
      BY <1>1, <1>2, <1>3 DEF Registered, ToRegister
    <2>2. ASSUME NEW s PROVE /\ Nowhere(s)' <=> Nowhere(s)
                             /\ \A w : Holds(w, s)' <=> Holds(w, s)
      BY <1>2 DEF Nowhere, Holds
    <2> QED
      BY <1>2, <1>3, <1>4, <1>5, <1>6, <2>1, <2>2 DEF Data, Mapped
  <1>11. Reduced'
    <2>1. ASSUME NEW p PROVE Complete(p)' <=> Complete(p)
      BY <1>2 DEF Complete
    <2>2. phase = "reduce" => \A c \in calls' : c.files = idx2files'[c.job]
      BY <1>1, <1>2 DEF Data, Reduced
    <2> QED
      BY <1>2, <1>3, <1>4, <1>5, <1>6, <2>1, <2>2 DEF Data, Reduced
  <1> QED
    BY <1>8, <1>9, <1>10, <1>11 DEF Data

\* Taking an answer from the queue: the poll thread has it now.
LEMMA TakeKeepsData ==
    ASSUME TypeOK, Healthy, Handover, Data, TakeCall
    PROVE  Data'
  <1>1. PICK c0 \in calls :
           /\ c0.status # "sent" /\ calls' = calls \ {c0}
           /\ IF c0.status = "ok" /\ c0.worker \in worker_ips
                THEN pp' = "push" /\ pcall' = c0
                ELSE pp' = "eval" /\ UNCHANGED pcall
    BY DEF TakeCall
  <1>2. c0 \in Call
    BY DEF TypeOK, WorkerTypeOK
  <1>3. pp' = "push" /\ pcall' = c0 /\ c0.status = "ok"
    BY <1>1, <1>2 DEF Healthy, Call
  <1>4. /\ pp = "next"
        /\ UNCHANGED <<pm, jobs, i, phase, num_map_msgs, num_reduce_msgs, output_files,
                       inter_file, intermediate_files, output_file, idx2files>>
    BY DEF TakeCall, mainvars, books
  <1>5. ~Over /\ ~Over' /\ ~Ended /\ ~Ended' /\ ~Answering /\ Answering'
        /\ ~Uncounted /\ Uncounted' /\ Answered' = Answered /\ Expected' = Expected
    BY <1>1, <1>3, <1>4
       DEF Data, Counting, Over, Ended, Answering, Uncounted, Answered, Expected
  <1>6. ASSUME NEW j PROVE Given(j)' <=> Given(j)
    BY <1>4 DEF Given
  <1>7. ASSUME NEW j PROVE SentJob(j)' <=> SentJob(j)
    BY <1>1 DEF SentJob
  <1>8. Counting'
    <2>1. /\ IsFiniteSet(calls') /\ Cardinality(calls') = Cardinality(calls) - 1
          /\ Cardinality(calls) \in Nat
      <3>1. IsFiniteSet(calls)
        BY <1>5 DEF Data, Counting
      <3> QED
        BY <1>1, <3>1, FS_RemoveElement, FS_CardinalityType
    <2>2. Answered \in Nat
      BY DEF TypeOK, MasterTypeOK, CountersTypeOK, Answered
    <2>3. Answered' + Cardinality(calls') + (IF Uncounted' THEN 1 ELSE 0) = i' - 1
      BY <1>4, <1>5, <2>1, <2>2 DEF Data, Counting
    <2>4. pcall'.is_map_job <=> phase' = "map"
      BY <1>3, <1>4 DEF Data, Counting
    <2> QED
      BY <1>1, <1>3, <1>4, <1>5, <2>1, <2>3, <2>4 DEF Data, Counting
  <1>9. JobsOnce'
    BY <1>1, <1>4, <1>5, <1>6 DEF Data, JobsOnce, InSeq
  <1>10. Mapped'
    <2>1. ASSUME NEW w PROVE /\ Registered(w)' <=> Registered(w)
                             /\ ToRegister(w) => ToRegister(w)'
      BY <1>1, <1>3, <1>4, <1>5 DEF Registered, ToRegister
    <2>2. ASSUME NEW s PROVE /\ Nowhere(s)' <=> Nowhere(s)
                             /\ \A w : Holds(w, s)' <=> Holds(w, s)
      BY <1>4 DEF Nowhere, Holds
    <2> QED
      BY <1>4, <1>5, <1>6, <1>7, <2>1, <2>2 DEF Data, Mapped
  <1>11. Reduced'
    <2>1. ASSUME NEW p PROVE Complete(p)' <=> Complete(p)
      BY <1>4 DEF Complete
    <2> QED
      BY <1>1, <1>4, <1>5, <1>6, <1>7, <2>1 DEF Data, Reduced
  <1> QED
    BY <1>8, <1>9, <1>10, <1>11 DEF Data

\* Counting an answer.
LEMMA CountKeepsData ==
    ASSUME TypeOK, Handover, Data, CountMapAnswer \/ CountReduceAnswer
    PROVE  Data'
  <1>1. /\ pp = "bump" /\ pp' = "credit"
        /\ UNCHANGED <<pm, pcall, jobs, i, phase, calls, output_files, inter_file,
                       intermediate_files, output_file, idx2files>>
    BY DEF CountMapAnswer, CountReduceAnswer, mainvars, wvars, books
  <1>2. /\ ~Over /\ ~Over' /\ ~Ended /\ ~Ended' /\ Answering /\ Answering'
        /\ Uncounted /\ ~Uncounted' /\ Expected' = Expected
    BY <1>1 DEF Handover, Over, Ended, Answering, Uncounted, Expected
  <1>3. num_map_msgs \in Nat /\ num_reduce_msgs \in Nat /\ phase \in {"map", "reduce"}
    BY DEF TypeOK, MasterTypeOK, CountersTypeOK, MainVarsTypeOK
  <1>4. \/ /\ phase = "map"
           /\ num_map_msgs' = num_map_msgs + 1 /\ UNCHANGED num_reduce_msgs
        \/ /\ phase = "reduce"
           /\ num_reduce_msgs' = num_reduce_msgs + 1 /\ UNCHANGED num_map_msgs
    BY <1>2, <1>3 DEF CountMapAnswer, CountReduceAnswer, Data, Counting
  <1>5. Answered' = Answered + 1 /\ Answered \in Nat
    BY <1>1, <1>3, <1>4 DEF Answered
  <1>6. Counting'
    <2>1. IsFiniteSet(calls) /\ Cardinality(calls) \in Nat
      BY <1>2, FS_CardinalityType DEF Data, Counting
    <2>2. Answered' + Cardinality(calls') + (IF Uncounted' THEN 1 ELSE 0) = i' - 1
      BY <1>1, <1>2, <1>5, <2>1 DEF Data, Counting
    <2>3. num_reduce_msgs' = output_files'
            + (IF phase' = "reduce" /\ Answering' /\ ~Uncounted' THEN 1 ELSE 0)
      BY <1>1, <1>2, <1>3, <1>4 DEF Data, Counting, TypeOK, MasterTypeOK, BooksTypeOK
    <2> QED
      BY <1>1, <1>2, <1>3, <1>4, <2>1, <2>2, <2>3 DEF Data, Counting
  <1>7. ASSUME NEW j PROVE (Given(j)' <=> Given(j)) /\ (SentJob(j)' <=> SentJob(j))
    BY <1>1 DEF Given, SentJob
  <1>8. JobsOnce'
    BY <1>1, <1>2, <1>7 DEF Data, JobsOnce, InSeq
  <1>9. Mapped'
    <2>1. ASSUME NEW w PROVE /\ Registered(w)' <=> Registered(w)
                             /\ ToRegister(w)' <=> ToRegister(w)
      BY <1>1, <1>2 DEF Registered, ToRegister
    <2>2. ASSUME NEW s PROVE /\ Nowhere(s)' <=> Nowhere(s)
                             /\ \A w : Holds(w, s)' <=> Holds(w, s)
      BY <1>1 DEF Nowhere, Holds
    <2> QED
      BY <1>1, <1>2, <1>7, <2>1, <2>2 DEF Data, Mapped
  <1>10. Reduced'
    <2>1. ASSUME NEW p PROVE Complete(p)' <=> Complete(p)
      BY <1>1 DEF Complete
    <2> QED
      BY <1>1, <1>2, <1>7, <2>1 DEF Data, Reduced
  <1> QED
    BY <1>6, <1>8, <1>9, <1>10 DEF Data

\* Registering the files of an answer.
LEMMA RegisterKeepsData ==
    ASSUME TypeOK, Handover, Data, RegisterFiles
    PROVE  Data'
  <1>1. /\ pp = "register" /\ pp' = "eval"
        /\ UNCHANGED <<pm, jobs, i, phase, calls, num_map_msgs, num_reduce_msgs, inter_file,
                       output_file, idx2files>>
    BY DEF RegisterFiles, mainvars, wvars, counters
  <1>2. /\ ~Over /\ ~Over' /\ ~Ended /\ ~Ended' /\ Answering /\ ~Answering'
        /\ ~Uncounted /\ ~Uncounted' /\ Expected' = Expected /\ Answered' = Answered
    BY <1>1 DEF Handover, Over, Ended, Answering, Uncounted, Expected, Answered
  <1>3. phase \in {"map", "reduce"} /\ output_files \in Nat /\ num_reduce_msgs \in Nat
    BY DEF TypeOK, MasterTypeOK, MainVarsTypeOK, CountersTypeOK, BooksTypeOK
  <1>4. \/ /\ phase = "map"
           /\ intermediate_files' = intermediate_files \cup (Partitions \X {pcall.worker})
           /\ UNCHANGED output_files
        \/ /\ phase = "reduce"
           /\ output_files' = output_files + 1
           /\ UNCHANGED intermediate_files
    BY <1>2, <1>3 DEF RegisterFiles, AnswerFiles, Data, Counting
  <1>5. Counting'
    <2>1. num_reduce_msgs' = output_files'
            + (IF phase' = "reduce" /\ Answering' /\ ~Uncounted' THEN 1 ELSE 0)
      BY <1>1, <1>2, <1>3, <1>4 DEF Data, Counting
    <2> QED
      BY <1>1, <1>2, <2>1 DEF Data, Counting
  <1>6. ASSUME NEW j PROVE (Given(j)' <=> Given(j)) /\ (SentJob(j)' <=> SentJob(j))
    BY <1>1 DEF Given, SentJob
  <1>7. JobsOnce'
    BY <1>1, <1>2, <1>6 DEF Data, JobsOnce, InSeq
  <1>8. Mapped'
    <2>1. ASSUME NEW w \in Workers
          PROVE  /\ Registered(w) => Registered(w)'
                 /\ phase = "map" /\ ToRegister(w) => Registered(w)' \/ ToRegister(w)'
      <3>1. Registered(w) => Registered(w)'
        BY <1>4 DEF Registered
      <3>2. CASE phase = "map" /\ pcall.worker = w
        BY <1>4, <3>1, <3>2 DEF Registered
      <3>3. CASE phase = "map" /\ \E c \in calls : c.worker = w /\ c.status = "ok"
        BY <1>1, <3>1, <3>3 DEF ToRegister
      <3> QED
        BY <3>1, <3>2, <3>3 DEF ToRegister
    <2>2. ASSUME NEW s PROVE /\ Nowhere(s)' <=> Nowhere(s)
                             /\ \A w : Holds(w, s)' <=> Holds(w, s)
      BY <1>1 DEF Nowhere, Holds
    <2> QED
      BY <1>1, <1>2, <1>6, <2>1, <2>2 DEF Data, Mapped
  <1>9. Reduced'
    <2>1. ASSUME NEW p PROVE Complete(p)' <=> Complete(p)
      BY <1>1 DEF Complete
    <2>2. phase = "reduce" => intermediate_files' = intermediate_files
      BY <1>4
    <2> QED
      BY <1>1, <1>2, <1>6, <2>1, <2>2 DEF Data, Reduced
  <1> QED
    BY <1>5, <1>7, <1>8, <1>9 DEF Data

\* The poll thread tells main when nothing is under way any more: all the
\* jobs of the phase have been given out, done and counted.
LEMMA NotifyKeepsData ==
    ASSUME TypeOK, Healthy, Handover, Data, NotifyMain
    PROVE  Data'
  <1>1. pm = "asleep" /\ ~Over /\ Answered = Expected
    BY NotifiedInTime DEF Data
  <1>2. /\ pm' = "woken" /\ pp = "eval" /\ pp' = "wait"
        /\ UNCHANGED <<jobs, i, phase, calls, num_map_msgs, num_reduce_msgs, output_files,
                       inter_file, intermediate_files, output_file, idx2files>>
    BY <1>1 DEF NotifyMain, WakeMain, wvars, books, counters
  <1>3. Over' /\ ~Ended' /\ ~Answering /\ ~Answering' /\ ~Uncounted /\ ~Uncounted'
        /\ Answered' = Answered /\ Expected' = Expected
    BY <1>2 DEF Over, Ended, Answering, Uncounted, Answered, Expected
  <1>4. /\ Answered \in Nat /\ i \in Nat \ {0} /\ Len(jobs) \in Nat
        /\ phase \in {"map", "reduce"}
    BY DEF TypeOK, MasterTypeOK, CountersTypeOK, MainVarsTypeOK, Answered
  <1>5. IsFiniteSet(calls) /\ Cardinality(calls) \in Nat
    BY <1>1, FS_CardinalityType DEF Data, Counting
  <1>6. Cardinality(calls) = 0 /\ i - 1 = Len(jobs) /\ Len(jobs) = Expected
    BY <1>1, <1>3, <1>4, <1>5 DEF Data, Counting
  <1>7. calls = {}
    BY <1>5, <1>6, FS_EmptySet
  <1>8. \A j \in 1 .. Expected : Given(j) /\ ~SentJob(j)
    BY <1>1, <1>6, <1>7 DEF Data, JobsOnce, InSeq, Given, SentJob
  <1>9. Counting'
    <2>1. phase = "map" \/ phase = "reduce" => NumShards > 0
      <3>1. CASE phase = "map"
        BY <1>1, <1>2, <3>1 DEF Data, Counting, Answered, Expected
      <3>2. CASE phase = "reduce"
        BY <3>2 DEF Data, Counting
      <3> QED
        BY <3>1, <3>2
    <2> QED
      BY <1>1, <1>2, <1>3, <1>4, <1>7, <2>1 DEF Data, Counting
  <1>10. JobsOnce'
    BY <1>3 DEF JobsOnce
  <1>11. Mapped'
    <2>1. \A s \in Shards : \E w \in Workers : Holds(w, s) /\ Registered(w)
      <3>1. CASE phase = "map"
        <4>1. \A w \in Workers : ~ToRegister(w)
          BY <1>3, <1>7 DEF ToRegister
        <4>2. Shards = 1 .. Expected
          BY <3>1 DEF Shards, Expected
        <4> QED
          BY <1>1, <1>8, <3>1, <4>1, <4>2 DEF Data, Mapped
      <3>2. CASE phase = "reduce"
        BY <1>1, <3>2 DEF Data, Mapped, Ended
      <3> QED
        BY <1>4, <3>1, <3>2
    <2>2. \A s : \A w : (Holds(w, s)' <=> Holds(w, s)) /\ (Registered(w)' <=> Registered(w))
      BY <1>2 DEF Holds, Registered
    <2> QED
      BY <1>3, <2>1, <2>2 DEF Mapped
  <1>12. Reduced'
    <2>1. ASSUME NEW p PROVE Complete(p)' <=> Complete(p)
      BY <1>2 DEF Complete
    <2>2. phase = "reduce" => \A p \in Partitions : Complete(p)
      <3>1. phase = "reduce" => Partitions = 1 .. Expected
        BY DEF Partitions, Expected
      <3> QED
        BY <1>1, <1>8, <3>1 DEF Data, Reduced
    <2> QED
      BY <1>2, <1>3, <2>1, <2>2 DEF Data, Reduced
  <1> QED
    BY <1>9, <1>10, <1>11, <1>12 DEF Data

\* A sequence of n different numbers of 1 .. n has all of them.
LEMMA AllListed ==
    ASSUME NEW n \in Nat, NEW q \in [1 .. n -> 1 .. n], IsInjective(q)
    PROVE  \A j \in 1 .. n : \E k \in 1 .. n : q[k] = j
  <1> DEFINE img == {q[k] : k \in 1 .. n}
  <1>1. IsFiniteSet(1 .. n) /\ Cardinality(1 .. n) = n
    BY FS_Interval
  <1>2. q \in Bijection(1 .. n, img)
    BY DEF IsInjective, Bijection, Injection, Surjection
  <1>3. IsFiniteSet(img) /\ Cardinality(img) = n
    <2> HIDE DEF img
    <2>1. ExistsBijection(1 .. n, img)
      BY <1>2 DEF ExistsBijection
    <2> QED
      BY <1>1, <2>1, FS_Bijection
  <1>4. img \subseteq 1 .. n
    OBVIOUS
  <1>5. img = 1 .. n
    <2> HIDE DEF img
    <2> QED
      BY <1>1, <1>3, <1>4, FS_Subset
  <1> QED
    BY <1>5

\* The reduce phase starts with every partition in the vector, since every
\* shard, and there is one, has been mapped to all of them.
LEMMA JoinKeepsData ==
    ASSUME TypeOK, Healthy, Handover, Data, JoinMapPoll
    PROVE  Data'
  <1> DEFINE found == {p \in Partitions : \E w \in Workers : <<p, w>> \in intermediate_files}
  <1>1. /\ pm = "join" /\ pm' = "pick" /\ phase = "map" /\ phase' = "reduce"
        /\ pp' = "next" /\ i' = 1
        /\ UNCHANGED <<calls, num_map_msgs, num_reduce_msgs, output_files, inter_file,
                       intermediate_files, output_file>>
        /\ idx2files' = [p \in Partitions |->
                            {w \in Workers : <<p, w>> \in intermediate_files}]
    BY DEF JoinMapPoll, wvars, books, counters
  <1>2. /\ Over /\ ~Over' /\ ~Ended /\ ~Ended' /\ ~Answering /\ ~Answering'
        /\ ~Uncounted'
    BY <1>1 DEF JoinMapPoll, Over, Ended, Answering, Uncounted
  <1>3. calls = {} /\ NumShards > 0 /\ num_reduce_msgs = 0 /\ output_files = 0
    BY <1>1, <1>2 DEF Data, Counting, TypeOK, MasterTypeOK, BooksTypeOK
  <1>4. \A s \in Shards : \E w \in Workers : Holds(w, s) /\ Registered(w)
    BY <1>1, <1>2 DEF Data, Mapped
  <1>5. found = Partitions
    <2>1. 1 \in Shards
      BY <1>3, SizesAssumption DEF Shards
    <2>2. PICK w \in Workers : Registered(w)
      BY <1>4, <2>1
    <2> QED
      BY <2>2 DEF Registered
  <1>6. PICK q \in [1 .. Cardinality(found) -> found] : IsInjective(q) /\ jobs' = q
    BY DEF JoinMapPoll
  <1>7. Cardinality(found) = NumPartitions /\ NumPartitions \in Nat
    <2>1. Cardinality(Partitions) = NumPartitions
      BY SizesAssumption, FS_Interval DEF Partitions
    <2> HIDE DEF found
    <2> QED
      BY <1>5, <2>1, SizesAssumption
  <1> HIDE DEF found
  <1>8. /\ jobs' \in [1 .. NumPartitions -> 1 .. NumPartitions] /\ IsInjective(jobs')
        /\ Len(jobs') = NumPartitions
    BY <1>5, <1>6, <1>7 DEF Partitions
  <1>9. Expected' = NumPartitions /\ Answered' = 0
    BY <1>1, <1>3 DEF Expected, Answered
  <1>10. Counting'
    <2>1. IsFiniteSet(calls') /\ Cardinality(calls') = 0
      BY <1>1, <1>3, FS_EmptySet
    <2> QED
      BY <1>1, <1>2, <1>3, <1>7, <1>8, <1>9, <2>1 DEF Counting
  <1>11. JobsOnce'
    <2>1. \A k, l \in 1 .. Len(jobs') : jobs'[k] = jobs'[l] => k = l
      BY <1>8 DEF IsInjective
    <2>2. \A j \in 1 .. Expected' : InSeq(j, jobs)'
      <3>1. \A j \in 1 .. NumPartitions : \E k \in 1 .. NumPartitions : jobs'[k] = j
        BY <1>7, <1>8, AllListed
      <3> QED
        BY <1>8, <1>9, <3>1 DEF InSeq
    <2> QED
      BY <1>1, <1>3, <2>1, <2>2 DEF JobsOnce
  <1>12. Mapped'
    <2>1. \A s : \A w : (Holds(w, s)' <=> Holds(w, s)) /\ (Registered(w)' <=> Registered(w))
      BY <1>1 DEF Holds, Registered
    <2> QED
      BY <1>1, <1>2, <1>4, <2>1 DEF Mapped
  <1>13. Reduced'
    <2>1. \A p \in Partitions : output_file'[p] = <<>>
      BY <1>1 DEF Data, Reduced
    <2>2. \A j : ~Given(j)'
      BY <1>1 DEF Given
    <2> QED
      BY <1>1, <1>2, <1>3, <2>1, <2>2 DEF Reduced
  <1> QED
    BY <1>10, <1>11, <1>12, <1>13 DEF Data

\* run removes the files it knows, and there are no others.
LEMMA CleanupKeepsData ==
    ASSUME TypeOK, Handover, Data, Cleanup
    PROVE  Data'
  <1>1. /\ pm = "stopping" /\ pm' \in {"done", "failed"} /\ phase = "reduce"
        /\ inter_file' = FilesRemoved
        /\ UNCHANGED <<phase, calls, num_map_msgs, num_reduce_msgs, output_files, pp, pcall,
                       intermediate_files, output_file, idx2files>>
    BY DEF Cleanup, Handover, books, counters, pollvars
  <1>2. Over /\ Over' /\ ~Ended /\ Ended' /\ (Answering' <=> Answering)
        /\ (Uncounted' <=> Uncounted) /\ Answered' = Answered /\ Expected' = Expected
    BY <1>1 DEF Over, Ended, Answering, Uncounted, Answered, Expected
  <1>3. Counting'
    BY <1>1, <1>2 DEF Data, Counting
  <1>4. Mapped'
    <2>1. \A s \in Shards : \E w \in Workers : Holds(w, s) /\ Registered(w)
      BY <1>1, <1>2 DEF Data, Mapped
    <2>2. ASSUME NEW w \in Workers, NEW p \in Partitions PROVE inter_file'[w][p] = NoShard
      <3>1. CASE <<p, w>> \in intermediate_files
        BY <1>1, <3>1 DEF FilesRemoved
      <3>2. CASE <<p, w>> \notin intermediate_files
        <4>1. inter_file'[w][p] = inter_file[w][p]
          BY <1>1, <3>2 DEF FilesRemoved
        <4>2. inter_file[w][p] \in [Shards -> Nat]
          BY DEF TypeOK, WorkerTypeOK, FileContent
        <4>3. \A s \in Shards : inter_file[w][p][s] = 0
          BY <2>1, <3>2 DEF Holds, Registered
        <4> QED
          BY <4>1, <4>2, <4>3 DEF NoShard
      <3> QED
        BY <3>1, <3>2
    <2> QED
      BY <1>1, <1>2, <2>2 DEF Mapped
  <1>5. Reduced'
    <2>1. ASSUME NEW p PROVE Complete(p)' <=> Complete(p)
      BY <1>1 DEF Complete
    <2> QED
      BY <1>1, <1>2, <2>1 DEF Data, Reduced
  <1> QED
    BY <1>2, <1>3, <1>4, <1>5 DEF Data, JobsOnce

\* A worker does its job: a shard is in its files, or a partition in its
\* output file.
LEMMA ProceedKeepsData ==
    ASSUME TypeOK, Healthy, Data, NEW w0 \in Workers, Proceed(w0), WorkerStep
    PROVE  Data'
  <1>1. PICK c0 \in calls :
           /\ c0.worker = w0 /\ c0.status = "sent" /\ HandleJob(JobOf(c0))
           /\ calls' = (calls \ {c0}) \cup {[c0 EXCEPT !.status = "ok"]}
    BY DEF Proceed
  <1> DEFINE d0 == [c0 EXCEPT !.status = "ok"]
  <1>2. c0 \in Call /\ IsFiniteSet(calls)
    BY <1>1 DEF TypeOK, WorkerTypeOK, Data, Counting, Over
  <1>3. /\ d0 \in Call /\ d0.worker = w0 /\ d0.status = "ok" /\ d0.job = c0.job
        /\ d0.is_map_job = c0.is_map_job /\ d0.files = c0.files
    BY <1>1, <1>2 DEF Call
  <1> HIDE DEF d0
  <1>4. calls' = (calls \ {c0}) \cup {d0}
    BY <1>1 DEF d0
  <1>5. UNCHANGED <<pm, pp, pcall, jobs, i, phase, num_map_msgs, num_reduce_msgs,
                    output_files, intermediate_files, idx2files>>
    BY DEF WorkerStep, mainvars, pollvars, counters, books
  <1>6. ~Over /\ ~Over' /\ ~Ended /\ ~Ended' /\ (Answering' <=> Answering)
        /\ (Uncounted' <=> Uncounted) /\ Answered' = Answered /\ Expected' = Expected
    BY <1>1, <1>5 DEF Data, Counting, Over, Ended, Answering, Uncounted, Answered, Expected
  <1>7. ASSUME NEW j PROVE Given(j)' <=> Given(j)
    BY <1>5 DEF Given
  <1>8. \A c, d \in calls : c.job = d.job => c = d
    BY <1>6 DEF Data, JobsOnce
  <1>9. SentJob(c0.job) /\ Given(c0.job) /\ ~SentJob(c0.job)'
    <2>1. SentJob(c0.job) /\ Given(c0.job)
      BY <1>1, <1>6 DEF SentJob, Data, JobsOnce
    <2>2. ~SentJob(c0.job)'
      BY <1>3, <1>4, <1>8 DEF SentJob
    <2> QED
      BY <2>1, <2>2
  <1>10. ASSUME NEW j, j # c0.job PROVE SentJob(j)' <=> SentJob(j)
    BY <1>3, <1>4, <1>10 DEF SentJob
  <1>11. d0 \notin calls
    BY <1>1, <1>3, <1>8
  <1>12. Counting'
    <2>1. IsFiniteSet(calls') /\ Cardinality(calls') = Cardinality(calls)
      <3>1. IsFiniteSet(calls \ {c0}) /\ Cardinality(calls \ {c0}) = Cardinality(calls) - 1
        BY <1>1, <1>2, FS_RemoveElement
      <3>2. d0 \notin calls \ {c0}
        BY <1>11
      <3>3. IsFiniteSet(calls') /\ Cardinality(calls') = Cardinality(calls \ {c0}) + 1
        BY <1>4, <3>1, <3>2, FS_AddElement
      <3>4. Cardinality(calls) \in Nat
        BY <1>2, FS_CardinalityType
      <3> QED
        BY <3>1, <3>3, <3>4
    <2>2. \A c \in calls' : c.is_map_job <=> phase' = "map"
      BY <1>3, <1>4, <1>5 DEF Data, Counting
    <2> QED
      BY <1>5, <1>6, <2>1, <2>2 DEF Data, Counting
  <1>13. JobsOnce'
    <2>1. \A c, d \in calls' : c.job = d.job => c = d
      BY <1>3, <1>4, <1>8
    <2>2. \A c \in calls' : Given(c.job)'
      BY <1>3, <1>4, <1>6, <1>7, <1>9 DEF Data, JobsOnce
    <2> QED
      BY <1>5, <1>6, <2>1, <2>2 DEF Data, JobsOnce, InSeq
  <1>14. ASSUME NEW w PROVE /\ Registered(w)' <=> Registered(w)
                            /\ ToRegister(w) => ToRegister(w)'
    BY <1>1, <1>3, <1>4, <1>5, <1>6 DEF Registered, ToRegister
  <1>15. ToRegister(w0)'
    BY <1>3, <1>4 DEF ToRegister
  <1>16. JobOf(c0).worker = w0 /\ JobOf(c0).job = c0.job /\ JobOf(c0).files = c0.files
         /\ JobOf(c0).is_map_job = c0.is_map_job
    BY <1>1 DEF JobOf
  <1>17. CASE phase = "map"
    <2>1. inter_file' = Dump(w0, c0.job, Partitions) /\ UNCHANGED output_file
      BY <1>1, <1>16, <1>17 DEF HandleJob, handle_map_job, Data, Counting
    <2>2. inter_file \in [Workers -> [Partitions -> [Shards -> Nat]]]
      BY DEF TypeOK, WorkerTypeOK, FileContent
    <2>3. ASSUME NEW w \in Workers, NEW p \in Partitions, NEW s \in Shards
          PROVE  inter_file'[w][p][s] =
                   inter_file[w][p][s] + (IF w = w0 /\ s = c0.job THEN 1 ELSE 0)
      <3>1. CASE w = w0
        BY <2>1, <2>2, <3>1 DEF Dump
      <3>2. CASE w # w0
        <4>1. inter_file'[w] = inter_file[w]
          BY <2>1, <2>2, <3>2 DEF Dump
        <4>2. inter_file[w][p][s] \in Nat
          BY <2>2
        <4> QED
          BY <3>2, <4>1, <4>2
      <3> QED
        BY <3>1, <3>2
    <2>4. ASSUME NEW s \in Shards, s # c0.job
          PROVE  (Nowhere(s) => Nowhere(s)') /\ \A w \in Workers : Holds(w, s) => Holds(w, s)'
      <3>1. \A w \in Workers, p \in Partitions : inter_file'[w][p][s] = inter_file[w][p][s]
        <4> SUFFICES ASSUME NEW w \in Workers, NEW p \in Partitions
                     PROVE  inter_file'[w][p][s] = inter_file[w][p][s]
          OBVIOUS
        <4>1. inter_file[w][p][s] \in Nat
          BY <2>2
        <4> QED
          BY <2>3, <2>4, <4>1
      <3> QED
        BY <3>1 DEF Nowhere, Holds
    <2>5. ASSUME NEW s \in Shards, s = c0.job, Nowhere(s) PROVE Holds(w0, s)'
      BY <2>3, <2>5 DEF Nowhere, Holds
    <2>6. Mapped'
      <3> SUFFICES ASSUME NEW s \in Shards
                   PROVE  /\ SentJob(s)' \/ ~Given(s)' => Nowhere(s)'
                          /\ ~SentJob(s)' /\ Given(s)' =>
                               \E w \in Workers : Holds(w, s)' /\ (Registered(w)' \/ ToRegister(w)')
        BY <1>5, <1>6, <1>17 DEF Mapped
      <3>1. /\ SentJob(s) \/ ~Given(s) => Nowhere(s)
            /\ ~SentJob(s) /\ Given(s) =>
                 \E w \in Workers : Holds(w, s) /\ (Registered(w) \/ ToRegister(w))
        BY <1>6, <1>17 DEF Data, Mapped
      <3>2. CASE s = c0.job
        <4>1. Holds(w0, s)'
          BY <1>9, <2>5, <3>1, <3>2
        <4> QED
          BY <1>7, <1>9, <1>15, <3>2, <4>1
      <3>3. CASE s # c0.job
        BY <1>7, <1>10, <1>14, <2>4, <3>1, <3>3
      <3> QED
        BY <3>2, <3>3
    <2>7. Reduced'
      BY <1>5, <1>17, <2>1 DEF Data, Reduced
    <2> QED
      BY <1>12, <1>13, <2>6, <2>7 DEF Data
  <1>18. CASE phase = "reduce"
    <2>1. /\ UNCHANGED inter_file
          /\ output_file' = [output_file EXCEPT ![c0.job] = Append(@,
                [w \in Workers |-> IF w \in c0.files THEN inter_file[w][c0.job] ELSE NoShard])]
      BY <1>1, <1>16, <1>18 DEF HandleJob, handle_reduce_job, Data, Counting
    <2>2. c0.job \in Partitions
      <3>1. jobs \in Seq(Partitions) /\ i \in Nat /\ i - 1 <= Len(jobs)
        BY <1>6, <1>18 DEF TypeOK, MasterTypeOK, MainVarsTypeOK, Data, Counting
      <3>2. PICK k \in 1 .. i - 1 : jobs[k] = c0.job
        BY <1>9 DEF Given
      <3>3. k \in 1 .. Len(jobs)
        BY <3>1, <3>2
      <3> QED
        BY <3>1, <3>2, <3>3
    <2>3. \A s \in Shards : \E w \in Workers : Holds(w, s) /\ Registered(w)
      BY <1>6, <1>18 DEF Data, Mapped
    <2>4. Mapped'
      <3>1. \A s : \A w : Holds(w, s)' <=> Holds(w, s)
        BY <2>1 DEF Holds
      <3> QED
        BY <1>5, <1>6, <1>14, <1>18, <2>3, <3>1 DEF Mapped
    <2> DEFINE chunk == [w \in Workers |->
                           IF w \in c0.files THEN inter_file[w][c0.job] ELSE NoShard]
    <2>5. output_file[c0.job] = <<>>
      BY <1>6, <1>9, <1>18, <2>2 DEF Data, Reduced
    <2>6. output_file \in [Partitions -> Seq(Chunk)]
      BY DEF TypeOK, WorkerTypeOK
    <2>7. output_file'[c0.job] = <<chunk>>
      BY <2>1, <2>2, <2>5, <2>6
    <2>8. c0.files = {w \in Workers : <<c0.job, w>> \in intermediate_files}
      BY <1>1, <1>18, <2>2 DEF Data, Reduced
    <2>9. Complete(c0.job)'
      <3>1. ASSUME NEW s \in Shards
            PROVE  \E w \in Workers : chunk[w][s] = 1 /\ \A v \in Workers \ {w} : chunk[v][s] = 0
        <4>1. PICK w \in Workers : Holds(w, s) /\ Registered(w)
          BY <2>3
        <4>2. chunk[w][s] = 1
          BY <2>2, <2>8, <4>1 DEF Holds, Registered
        <4>3. ASSUME NEW v \in Workers \ {w} PROVE chunk[v][s] = 0
          BY <2>2, <4>1 DEF Holds, NoShard
        <4> QED
          BY <4>2, <4>3
      <3> HIDE DEF chunk
      <3> QED
        BY <2>7, <3>1 DEF Complete
    <2>10. ASSUME NEW p \in Partitions, p # c0.job
           PROVE  output_file'[p] = output_file[p] /\ (Complete(p)' <=> Complete(p))
      <3>1. output_file'[p] = output_file[p]
        BY <2>1, <2>6, <2>10
      <3> QED
        BY <3>1 DEF Complete
    <2>11. Reduced'
      <3>1. \A c \in calls' : c.files = idx2files'[c.job]
        BY <1>1, <1>3, <1>4, <1>5, <1>18 DEF Data, Reduced
      <3>2. ASSUME NEW p \in Partitions
            PROVE  /\ SentJob(p)' \/ ~Given(p)' => output_file'[p] = <<>>
                   /\ ~SentJob(p)' /\ Given(p)' => Complete(p)'
        <4>1. CASE p = c0.job
          BY <1>7, <1>9, <2>9, <4>1
        <4>2. CASE p # c0.job
          BY <1>6, <1>7, <1>10, <1>18, <2>10, <4>2 DEF Data, Reduced
        <4> QED
          BY <4>1, <4>2
      <3> QED
        BY <1>5, <1>6, <1>18, <3>1, <3>2 DEF Data, Reduced
    <2> QED
      BY <1>12, <1>13, <2>4, <2>11 DEF Data
  <1> QED
    BY <1>17, <1>18 DEF TypeOK, MasterTypeOK, MainVarsTypeOK

-----------------------------------------------------------------------------
(* All together                                                              *)

\* Every step keeps what is said about jobs, answers and files.
LEMMA StepKeepsData ==
    ASSUME NoFaults, TypeOK, Healthy, Handover, Data, [Next]_vars
    PROVE  Data'
  <1>1. pm \in MainLabels /\ pp \in PollLabels
    BY DEF TypeOK, MasterTypeOK, MainVarsTypeOK, PollVarsTypeOK
  <1>2. CASE RequestInitialRound \/ AwaitInitialRound \/ PickWorker \/ GetClient
             \/ RaiseFlagAndSleep \/ TriggerMonitoring \/ TestUnfinished \/ UpdateComplete
             \/ RaiseFlag \/ JoinReducePoll
    <2> USE DEF RequestInitialRound, AwaitInitialRound, PickWorker, GetClient,
                RaiseFlagAndSleep, TriggerMonitoring, TestUnfinished, UpdateComplete,
                RaiseFlag, JoinReducePoll, wvars, books, counters, pollvars
    <2>1. UNCHANGED datavars
      BY <1>2, Zenon DEF datavars
    <2>2. UNCHANGED <<jobs, i, pp, pcall>>
      BY <1>2, Zenon
    <2>3. (Over' <=> Over) /\ (Ended' <=> Ended)
      BY <1>2 DEF Over, Ended
    <2> QED
      BY <2>1, <2>2, <2>3, DataFrame DEF Answering, Uncounted
  <1>3. CASE CheckShards \/ RefillShards \/ CheckPartitions
    <2> USE DEF CheckShards, RefillShards, CheckPartitions, wvars, books, counters, pollvars
    <2>1. UNCHANGED datavars /\ UNCHANGED <<pp, pcall>>
      BY <1>3, Zenon DEF datavars
    <2>2. pm \in {"check", "leave"} /\ pm' \in {"leave", "join"}
      <3>1. pm \in {"check", "leave"}
        BY <1>3 DEF Handover
      <3>2. map_complete /\ (phase = "reduce" => reduce_complete)
        BY <3>1 DEF Handover
      <3> QED
        BY <1>3, <3>1, <3>2 DEF Healthy, unfinished_partitions
    <2> QED
      BY <2>1, <2>2, DataFrame DEF Answering, Uncounted, Over, Ended
  <1>4. CASE PushReady \/ LookUpClient \/ CreditClient \/ NoNotify \/ TakeFlagBack
    <2> USE DEF PushReady, LookUpClient, CreditClient, NoNotify, TakeFlagBack, wvars, books,
                counters, mainvars
    <2>1. UNCHANGED datavars /\ UNCHANGED <<jobs, i, pm>>
      BY <1>4, Zenon DEF datavars
    <2>2. pp = "look" => pcall.worker \in worker_ips
      BY DEF TypeOK, MasterTypeOK, PollVarsTypeOK, Call, Healthy
    <2>3. /\ Answering' <=> Answering
          /\ Uncounted' <=> Uncounted
          /\ Answering => UNCHANGED pcall
          /\ pp' # "eval"
      BY <1>4, <2>2 DEF Answering, Uncounted
    <2> QED
      BY <2>1, <2>3, DataFrame DEF Over, Ended
  <1>5. CASE MonitorStep \/ UNCHANGED vars
    <2> USE DEF MonitorBegin, SendPings, ReceivePong, EndInitialRound, EndRound, MonitorExit,
                wvars, books, counters, mainvars, pollvars, vars
    <2>1. \/ MonitorBegin \/ SendPings \/ ReceivePong
          \/ EndInitialRound \/ EndRound \/ MonitorExit \/ UNCHANGED vars
      BY <1>5, MonitorOnlyCounts
    <2>2. UNCHANGED datavars /\ UNCHANGED <<jobs, i, pm, pp, pcall>>
      BY <2>1, Zenon DEF datavars
    <2> QED
      BY <2>2, DataFrame DEF Over, Ended, Answering, Uncounted
  <1>6. CASE WorkerStep
    BY <1>6, WorkersOnlyAnswer, ProceedKeepsData
  <1> QED
    BY <1>2, <1>3, <1>4, <1>5, <1>6, NoCallDropped, NotSpurious, SendKeepsData,
       TakeKeepsData, CountKeepsData, RegisterKeepsData, NotifyKeepsData, JoinKeepsData, CleanupKeepsData
       DEF Next, MainStep, PollStep, Terminated

\* What the invariant says holds at the start.
LEMMA NoFaultInit == ASSUME NoFaults, Init PROVE NoFaultInv
  <1> USE DEF Init, WorkerInit, MasterInit
  <1>1. Healthy
    BY DEF Healthy, NoFaults
  <1>2. ~Over /\ ~Ended /\ ~Answering /\ ~Uncounted /\ pm # "asleep" /\ calls = {}
    BY DEF Over, Ended, Answering, Uncounted
  <1>3. Handover
    BY <1>2 DEF Handover
  <1>4. Len(jobs) = NumShards /\ Expected = NumShards /\ Answered = 0
    BY SizesAssumption DEF Expected, Answered, Shards
  <1>5. Counting
    BY <1>2, <1>4, FS_EmptySet, SizesAssumption DEF Counting
  <1>6. \A j : ~Given(j)
    BY DEF Given
  <1>7. JobsOnce
    <2>1. \A k \in 1 .. NumShards : jobs[k] = k
      BY DEF Shards
    <2> QED
      BY <1>2, <1>4, <2>1 DEF JobsOnce, InSeq
  <1>8. Mapped
    BY <1>2, <1>6 DEF Mapped, Nowhere, NoShard
  <1>9. Reduced
    BY <1>2 DEF Reduced
  <1> QED
    BY <1>1, <1>3, <1>5, <1>7, <1>8, <1>9 DEF NoFaultInv

\* Without faults the invariant holds: nobody is dropped, the flag goes round,
\* every job is given, done and counted once, every shard is in the files of
\* one worker once it is mapped.
THEOREM NoFaultInvariance == ASSUME NoFaults PROVE Spec => []NoFaultInv
  <1>1. Init => NoFaultInv
    BY NoFaultInit
  <1>2. ASSUME TypeOK, NoFaultInv, [Next]_vars PROVE NoFaultInv'
    <2>1. Healthy /\ Handover /\ Data
      BY <1>2 DEF NoFaultInv, Data
    <2>2. Data'
      BY <1>2, <2>1, StepKeepsData
    <2>3. Healthy' /\ Handover'
      BY <1>2, <2>1, MainHealthy, OthersHealthy, MainHandover, PollHandover, OthersHandover,
         NotSpurious DEF Next, Terminated, Data
    <2> QED
      BY <2>2, <2>3 DEF NoFaultInv, Data
  <1> QED
    BY <1>1, <1>2, TypeCorrect, PTL DEF Spec

\* Without faults the poll thread lowers map_reduce_flag and waits for it only
\* while the main thread is on its way to raise it again.
THEOREM FlagReturns == ASSUME NoFaults PROVE Spec => []FlagComesBack
  <1>1. TypeOK /\ NoFaultInv => FlagComesBack
    <2> SUFFICES ASSUME TypeOK, Handover, pp = "wait", ~map_reduce_flag
                 PROVE  pm \in {"woken", "triggered", "counting", "raising"}
      BY DEF FlagComesBack, NoFaultInv
    <2> QED
      BY DEF TypeOK, MasterTypeOK, MainVarsTypeOK, MainLabels, Handover, Over, Ended
  <1> QED
    BY <1>1, NoFaultInvariance, TypeCorrect, PTL

\* Without faults the files that reduce jobs are told to read hold every shard
\* exactly once, for every partition, from the first reduce job to the last.
THEOREM ReduceSeesAll == ASSUME NoFaults PROVE Spec => []ReduceSeesAllShards
  <1>1. NoFaultInv => ReduceSeesAllShards
    <2> SUFFICES ASSUME Mapped, Reduced, phase = "reduce",
                        pm \notin {"done", "failed", "crashed"},
                        NEW p \in Partitions, NEW s \in Shards
                 PROVE  OneCopy(idx2files[p], p, s)
      BY DEF NoFaultInv, ReduceSeesAllShards
    <2>1. PICK w \in Workers : Holds(w, s) /\ Registered(w)
      BY DEF Mapped, Ended
    <2>2. idx2files[p] = {v \in Workers : <<p, v>> \in intermediate_files}
      BY DEF Reduced
    <2>3. w \in idx2files[p] /\ inter_file[w][p][s] = 1
      BY <2>1, <2>2 DEF Holds, Registered
    <2>4. \A v \in idx2files[p] \ {w} : inter_file[v][p][s] = 0
      BY <2>1, <2>2 DEF Holds
    <2> QED
      BY <2>3, <2>4 DEF OneCopy
  <1> QED
    BY <1>1, NoFaultInvariance, PTL

\* Without faults, when run returns every output file has been written once
\* and holds every shard once, and no intermediate file is left.
THEOREM OutputIsCorrect == ASSUME NoFaults PROVE Spec => []OutputCorrect
  <1>1. NoFaultInv => OutputCorrect
    <2> SUFFICES ASSUME Handover, Mapped, Reduced, Ended
                 PROVE  /\ \A p \in Partitions : Complete(p)
                        /\ \A w \in Workers, p \in Partitions : inter_file[w][p] = NoShard
      BY DEF NoFaultInv, OutputCorrect, Complete, Ended
    <2>1. phase = "reduce" /\ Over
      BY DEF Handover, Over, Ended
    <2> QED
      BY <2>1 DEF Mapped, Reduced
  <1> QED
    BY <1>1, NoFaultInvariance, PTL

=============================================================================
