------------------------------- MODULE Master -------------------------------
(***************************************************************************)
(* The master of project4 (master.h, master.cc, worker_client.cc): its     *)
(* main thread (run, schedule_monitor), its poll thread (poll_workers) and *)
(* its monitor thread (monitor, handle_worker_failure), which share the    *)
(* fields of class Master.  One action is one critical section, or one     *)
(* access to shared fields made outside of any.                            *)
(*                                                                         *)
(* Not kept: worker2job (written, never read); dropped_worker_ips, which   *)
(* is always the workers that are no longer in worker_ips; ip_addr2worker, *)
(* which holds a client exactly for the workers in worker_ips; num_workers,*)
(* always the size of worker_ips; reduce_partitions of a client, which no  *)
(* code ever fills, and so unfinished_partitions, which stays empty.       *)
(***************************************************************************)
EXTENDS Worker, Functions

VARIABLES
    \* the fields of class Master
    worker_ips, ready_queue, unfinished_shards, intermediate_files,
    output_files,              \* output_files.size()
    num_dropped_workers, num_map_msgs, num_reduce_msgs,
    num_dropped_map_jobs, num_dropped_reduce_jobs,
    map_complete, reduce_complete, map_reduce_flag,
    initial_monitor_job, stop_monitoring, trigger_monitoring,
    \* the fields of each WorkerClient
    map_shards, completed_map_jobs, completed_reduce_jobs,
    freed_shards,  \* the shards pushed into map_shards of a destroyed client
    \* locals of run: its position, the phase, the vector it walks (shards or
    \* partitions) with its index, the worker it popped, idx2files
    pm, phase, jobs, i, hand, idx2files,
    \* locals of poll_workers: its position, the call it took, is_map
    pp, pcall, is_map,
    \* locals of monitor: its position, pongs received in this round, the
    \* worker it drops, pings[w, a]: pings to w without an answer yet that
    \* were sent while w was alive (a) or dead
    pn, pongs, failed, pings

counters == <<num_dropped_workers, num_map_msgs, num_reduce_msgs,
              num_dropped_map_jobs, num_dropped_reduce_jobs>>
clients == <<map_shards, completed_map_jobs, completed_reduce_jobs, freed_shards>>
flags == <<map_complete, reduce_complete, map_reduce_flag, initial_monitor_job,
           stop_monitoring, trigger_monitoring>>
books == <<worker_ips, unfinished_shards, intermediate_files, output_files>>
mainvars == <<pm, phase, jobs, i, hand, idx2files>>
pollvars == <<pp, pcall, is_map>>
monvars == <<pn, pongs, failed, pings>>

dropped_worker_ips == Workers \ worker_ips
num_workers == Cardinality(worker_ips)
unfinished_partitions == <<>>

\* A local variable out of its scope.
None == "none"
NoCall == [worker |-> None, is_map_job |-> FALSE, job |-> 0, files |-> {}, status |-> None]

MainLabels == {"start", "init_wait", "pick", "call", "send", "asleep", "woken", "triggered",
               "counting", "raising", "check", "again", "leave", "join", "stopping",
               "done", "failed", "crashed"}
PollLabels == {"next", "push", "look", "bump", "credit", "register", "eval", "wait", "exit"}
MonitorLabels == {"begin", "top", "recv", "drop_map", "drop_reduce", "over",
                  "exit"}

BooksTypeOK ==
    /\ worker_ips \in SUBSET Workers
    /\ unfinished_shards \in Seq(Shards)
    /\ intermediate_files \in SUBSET (Partitions \X Workers)
    /\ output_files \in Nat

CountersTypeOK ==
    /\ num_dropped_workers \in Nat
    /\ num_map_msgs \in Nat
    /\ num_reduce_msgs \in Nat
    /\ num_dropped_map_jobs \in Nat
    /\ num_dropped_reduce_jobs \in Nat

FlagsTypeOK ==
    /\ map_complete \in BOOLEAN
    /\ reduce_complete \in BOOLEAN
    /\ map_reduce_flag \in BOOLEAN
    /\ initial_monitor_job \in BOOLEAN
    /\ stop_monitoring \in BOOLEAN
    /\ trigger_monitoring \in BOOLEAN

ClientsTypeOK ==
    /\ map_shards \in [Workers -> Seq(Shards)]
    /\ completed_map_jobs \in [Workers -> Nat]
    /\ completed_reduce_jobs \in [Workers -> Nat]
    /\ freed_shards \in SUBSET Shards

\* A worker is in hand only while a job is left to give to it.
MainVarsTypeOK ==
    /\ pm \in MainLabels
    /\ phase \in {"map", "reduce"}
    /\ phase = "map" => jobs \in Seq(Shards)
    /\ phase = "reduce" => jobs \in Seq(Partitions)
    /\ i \in Nat \ {0}
    /\ hand \in Workers \cup {None}
    /\ pm \in {"call", "send"} => hand \in Workers /\ i <= Len(jobs)
    /\ idx2files \in [Partitions -> SUBSET Workers]

PollVarsTypeOK ==
    /\ pp \in PollLabels
    /\ pcall \in Call \cup {NoCall}
    /\ pp \in {"push", "look", "bump", "credit", "register"} => pcall \in Call
    /\ is_map \in BOOLEAN

MonitorVarsTypeOK ==
    /\ pn \in MonitorLabels
    /\ pongs \in Nat
    /\ failed \in Workers \cup {None}
    /\ pings \in [Workers \X BOOLEAN -> Nat]

MasterTypeOK ==
    /\ ready_queue \in Seq(Workers)
    /\ BooksTypeOK
    /\ CountersTypeOK
    /\ FlagsTypeOK
    /\ ClientsTypeOK
    /\ MainVarsTypeOK
    /\ PollVarsTypeOK
    /\ MonitorVarsTypeOK

\* Master::Master; initial_monitor_job has no initial value.  ready_queue
\* lists the workers in the order of the configuration file, whichever it is.
MasterInit ==
    /\ worker_ips = Workers
    /\ ready_queue \in {q \in [1 .. Cardinality(Workers) -> Workers] : IsInjective(q)}
    /\ unfinished_shards = <<>>
    /\ intermediate_files = {}
    /\ output_files = 0
    /\ num_dropped_workers = 0
    /\ num_map_msgs = 0
    /\ num_reduce_msgs = 0
    /\ num_dropped_map_jobs = 0
    /\ num_dropped_reduce_jobs = 0
    /\ map_complete = FALSE
    /\ reduce_complete = FALSE
    /\ map_reduce_flag = FALSE
    /\ initial_monitor_job \in BOOLEAN
    /\ stop_monitoring = FALSE
    /\ trigger_monitoring = FALSE
    /\ map_shards = [w \in Workers |-> <<>>]
    /\ completed_map_jobs = [w \in Workers |-> 0]
    /\ completed_reduce_jobs = [w \in Workers |-> 0]
    /\ freed_shards = {}
    /\ pm = "start"
    /\ phase = "map"
    /\ jobs = [s \in Shards |-> s]
    /\ i = 1
    /\ hand = None
    /\ idx2files = [p \in Partitions |-> {}]
    /\ pp = "next"
    /\ pcall = NoCall
    /\ is_map = FALSE
    /\ pn = "begin"
    /\ pongs = 0
    /\ failed = None
    /\ pings = [x \in Workers \X BOOLEAN |-> 0]

-----------------------------------------------------------------------------
(* Main thread: run and schedule_monitor *)

\* run asks for the first monitoring round.
RequestInitialRound ==
    /\ pm = "start"
    /\ initial_monitor_job' = TRUE
    /\ pm' = "init_wait"
    /\ UNCHANGED <<map_complete, reduce_complete, map_reduce_flag, stop_monitoring,
                   trigger_monitoring, phase, jobs, i, hand, idx2files, ready_queue,
                   wvars, books, counters, clients, pollvars, monvars>>

\* run goes on when that round is over, and forgets the workers it dropped.
AwaitInitialRound ==
    /\ pm = "init_wait"
    /\ ~initial_monitor_job
    /\ num_dropped_workers' = 0
    /\ pm' = "pick"
    /\ UNCHANGED <<num_map_msgs, num_reduce_msgs, num_dropped_map_jobs,
                   num_dropped_reduce_jobs, phase, jobs, i, hand, idx2files, ready_queue,
                   wvars, flags, books, clients, pollvars, monvars>>

\* ready_queue.pop(), and a pop that is forgotten.
PopForgotten == ready_queue
PopReady == Tail(ready_queue)

\* The critical section of the dispatch loops: wait for a ready worker, pop
\* it, pass over it if it has been dropped.
PickWorker ==
    /\ pm = "pick"
    /\ i <= Len(jobs)
    /\ ready_queue # <<>>
    /\ ready_queue' = PopReady
    /\ IF Head(ready_queue) \in dropped_worker_ips
         THEN UNCHANGED <<pm, hand>>
         ELSE pm' = "call" /\ hand' = Head(ready_queue)
    /\ UNCHANGED <<phase, jobs, i, idx2files, wvars, flags, books, counters, clients,
                   pollvars, monvars>>

\* The client of the worker in hand is looked up, after the lock was released.
GetClient ==
    /\ pm = "call"
    /\ hand \in worker_ips
    /\ pm' = "send"
    /\ UNCHANGED <<phase, jobs, i, hand, idx2files, ready_queue, wvars, flags, books,
                   counters, clients, pollvars, monvars>>

\* The monitor dropped the worker in hand before the look-up (its client is
\* null) or after it (its client is freed memory): the call through the
\* pointer may end the process.
CallDroppedClient ==
    /\ pm \in {"call", "send"}
    /\ hand \in dropped_worker_ips
    /\ pm' = "crashed"
    /\ UNCHANGED <<phase, jobs, i, hand, idx2files, ready_queue, wvars, flags, books,
                   counters, clients, pollvars, monvars>>

\* map_shards.push_back(shard), and one that is off by one.
AssignNext(w) == [map_shards EXCEPT ![w] = Append(@, i + 1)]
Assign(w) == [map_shards EXCEPT ![w] = Append(@, jobs[i])]

\* send_mapper_job.  Freed memory may also work as before: then the job goes
\* out, but the client that remembers it is not one the master knows.
send_mapper_job ==
    /\ pm = "send"
    /\ phase = "map"
    /\ IF hand \in worker_ips
         THEN map_shards' = Assign(hand) /\ UNCHANGED freed_shards
         ELSE freed_shards' = freed_shards \cup {jobs[i]} /\ UNCHANGED map_shards
    /\ calls' = calls \cup {[worker |-> hand, is_map_job |-> TRUE, job |-> jobs[i],
                             files |-> {}, status |-> "sent"]}
    /\ i' = i + 1
    /\ hand' = None
    /\ pm' = "pick"
    /\ UNCHANGED <<completed_map_jobs, completed_reduce_jobs, phase, jobs, idx2files, ready_queue,
                   alive, late, inter_file, output_file, crashes, timeouts,
                   flags, books, counters, pollvars, monvars>>

\* send_reducer_job with the files idx2files lists for the partition.
send_reducer_job ==
    /\ pm = "send"
    /\ phase = "reduce"
    /\ calls' = calls \cup {[worker |-> hand, is_map_job |-> FALSE, job |-> jobs[i],
                             files |-> idx2files[jobs[i]], status |-> "sent"]}
    /\ i' = i + 1
    /\ hand' = None
    /\ pm' = "pick"
    /\ UNCHANGED <<phase, jobs, idx2files, ready_queue, alive, late, inter_file,
                   output_file, crashes, timeouts, flags, books, counters, clients,
                   pollvars, monvars>>

\* schedule_monitor, first section: raise the flag and sleep on cv_map_reduce
\* (the predicate !map_reduce_flag was just made false).
RaiseFlagAndSleep ==
    /\ pm = "pick"
    /\ i > Len(jobs)
    /\ map_reduce_flag' = TRUE
    /\ pm' = "asleep"
    /\ UNCHANGED <<map_complete, reduce_complete, initial_monitor_job, stop_monitoring,
                   trigger_monitoring, phase, jobs, i, hand, idx2files, ready_queue,
                   wvars, books, counters, clients, pollvars, monvars>>

\* A condition variable may wake up without a notify; if the predicate holds
\* the wait is over.
SpuriousWakeup ==
    /\ pm = "asleep"
    /\ ~map_reduce_flag
    /\ pm' = "woken"
    /\ UNCHANGED <<phase, jobs, i, hand, idx2files, ready_queue, wvars, flags, books,
                   counters, clients, pollvars, monvars>>

\* schedule_monitor, second section: ask for a monitoring round.
TriggerMonitoring ==
    /\ pm = "woken"
    /\ ~map_reduce_flag
    /\ trigger_monitoring' = TRUE
    /\ pm' = "triggered"
    /\ UNCHANGED <<map_complete, reduce_complete, map_reduce_flag, initial_monitor_job,
                   stop_monitoring, phase, jobs, i, hand, idx2files, ready_queue, wvars,
                   books, counters, clients, pollvars, monvars>>

MapCounted == num_map_msgs - num_dropped_map_jobs = NumShards
ReduceDone == unfinished_partitions = <<>> /\ output_files = NumPartitions

\* schedule_monitor, third section, once that round is over: under
\* m_map_reduce, which keeps the poll thread out but not the monitor, look
\* whether anything is unfinished,
TestUnfinished ==
    /\ pm = "triggered"
    /\ ~trigger_monitoring
    /\ pm' = IF map_complete \/ unfinished_shards = <<>> THEN "counting" ELSE "raising"
    /\ UNCHANGED <<phase, jobs, i, hand, idx2files, ready_queue, wvars, flags, books,
                   counters, clients, pollvars, monvars>>

\* compare the counters and decide whether the phase is complete,
UpdateComplete ==
    /\ pm = "counting"
    /\ map_complete' = (map_complete \/ MapCounted)
    /\ reduce_complete' = (reduce_complete \/ (map_complete /\ ReduceDone))
    /\ pm' = "raising"
    /\ UNCHANGED <<map_reduce_flag, initial_monitor_job, stop_monitoring,
                   trigger_monitoring, phase, jobs, i, hand, idx2files, ready_queue, wvars,
                   books, counters, clients, pollvars, monvars>>

\* and hand the flag back to the poll thread.
RaiseFlag ==
    /\ pm = "raising"
    /\ map_reduce_flag' = TRUE
    /\ num_dropped_workers' = 0
    /\ pm' = "check"
    /\ UNCHANGED <<map_complete, reduce_complete, initial_monitor_job, stop_monitoring,
                   trigger_monitoring, num_map_msgs, num_reduce_msgs, num_dropped_map_jobs,
                   num_dropped_reduce_jobs, phase, jobs, i, hand, idx2files, ready_queue,
                   wvars, books, clients, pollvars, monvars>>

\* The main thread is inside that section and holds m_map_reduce.
MainHoldsLock == pm \in {"counting", "raising"}

\* run after schedule_monitor in the map phase, without a lock: leave the loop
\* or go round it again.
CheckShards ==
    /\ pm = "check"
    /\ phase = "map"
    /\ IF unfinished_shards = <<>> /\ map_complete
         THEN pm' = "leave" /\ jobs' = <<>>
         ELSE pm' = "again" /\ UNCHANGED jobs
    /\ UNCHANGED <<phase, i, hand, idx2files, ready_queue, wvars, flags, books, counters,
                   clients, pollvars, monvars>>

\* Either way a second look: the shards to dispatch are the unfinished ones,
\* or, when there are none, all the shards again.
RefillShards ==
    /\ pm \in {"again", "leave"}
    /\ phase = "map"
    /\ jobs' = IF unfinished_shards # <<>> THEN unfinished_shards ELSE jobs
    /\ unfinished_shards' = <<>>
    /\ i' = 1
    /\ pm' = IF pm = "leave" THEN "join" ELSE "pick"
    /\ UNCHANGED <<worker_ips, intermediate_files, output_files, phase, hand, idx2files,
                   ready_queue, wvars, flags, counters, clients, pollvars, monvars>>

\* The same in the reduce phase.
CheckPartitions ==
    /\ pm = "check"
    /\ phase = "reduce"
    /\ IF unfinished_partitions = <<>> /\ reduce_complete
         THEN pm' = "join" /\ jobs' = <<>>
         ELSE pm' = "pick" /\ UNCHANGED jobs
    /\ i' = 1
    /\ UNCHANGED <<phase, hand, idx2files, ready_queue, wvars, flags, books, counters,
                   clients, pollvars, monvars>>

\* spawn_map_jobs.join(), the grouping of the intermediate files, and the
\* start of spawn_reduce_jobs.  The order of the partitions is that of an
\* unordered_map.
JoinMapPoll ==
    LET found == {p \in Partitions : \E w \in Workers : <<p, w>> \in intermediate_files}
    IN  /\ pm = "join"
        /\ phase = "map"
        /\ pp = "exit"
        /\ idx2files' = [p \in Partitions |->
                            {w \in Workers : <<p, w>> \in intermediate_files}]
        /\ \E q \in [1 .. Cardinality(found) -> found] : IsInjective(q) /\ jobs' = q
        /\ i' = 1
        /\ phase' = "reduce"
        /\ pp' = "next"
        /\ pm' = "pick"
        /\ UNCHANGED <<hand, pcall, is_map, ready_queue, wvars, flags, books, counters,
                       clients, monvars>>

\* A run that triggers the monitor without telling it to stop.
JoinReducePollNoStop ==
    /\ pm = "join"
    /\ phase = "reduce"
    /\ pp = "exit"
    /\ trigger_monitoring' = TRUE
    /\ pm' = "stopping"
    /\ UNCHANGED <<map_complete, reduce_complete, map_reduce_flag, initial_monitor_job,
                   stop_monitoring, phase, jobs, i, hand, idx2files, ready_queue, wvars,
                   books, counters, clients, pollvars, monvars>>

\* spawn_reduce_jobs.join(), then the monitor is told to stop.
JoinReducePoll ==
    /\ pm = "join"
    /\ phase = "reduce"
    /\ pp = "exit"
    /\ stop_monitoring' = TRUE
    /\ trigger_monitoring' = TRUE
    /\ pm' = "stopping"
    /\ UNCHANGED <<map_complete, reduce_complete, map_reduce_flag, initial_monitor_job,
                   phase, jobs, i, hand, idx2files, ready_queue, wvars, books, counters,
                   clients, pollvars, monvars>>

\* The registered intermediate files are removed; or only the first of each
\* worker.
FirstFilesRemoved ==
    [w \in Workers |-> [p \in Partitions |->
        IF p = 1 /\ <<p, w>> \in intermediate_files THEN NoShard ELSE inter_file[w][p]]]
FilesRemoved ==
    [w \in Workers |-> [p \in Partitions |->
        IF <<p, w>> \in intermediate_files THEN NoShard ELSE inter_file[w][p]]]

\* monitoring_thread.join(), removal of the registered intermediate files and
\* of their directory.  If rmdir fails for another reason than files left in
\* it, run returns false.
Cleanup ==
    /\ pm = "stopping"
    /\ pn = "exit"
    /\ inter_file' = FilesRemoved
    /\ pm' \in {"done", "failed"}
    /\ UNCHANGED <<phase, jobs, i, hand, idx2files, ready_queue, alive, calls, late,
                   output_file, crashes, timeouts, flags, books, counters, clients,
                   pollvars, monvars>>

MainStep ==
    \/ RequestInitialRound \/ AwaitInitialRound \/ PickWorker
    \/ GetClient \/ CallDroppedClient \/ send_mapper_job \/ send_reducer_job
    \/ RaiseFlagAndSleep \/ TriggerMonitoring \/ TestUnfinished \/ UpdateComplete
    \/ RaiseFlag \/ CheckShards \/ RefillShards \/ CheckPartitions
    \/ JoinMapPoll \/ JoinReducePoll \/ Cleanup

-----------------------------------------------------------------------------
(* Poll thread: poll_workers *)

\* A completed call is taken from cq_map_reduce_jobs.  An answer of a worker
\* that is still listed is processed, one of a dropped worker is discarded, an
\* error only counts as a dropped job.
TakeCall ==
    /\ pm # "crashed"
    /\ pp = "next"
    /\ \E c \in calls :
         /\ c.status # "sent"
         /\ calls' = calls \ {c}
         /\ IF c.status = "ok" /\ c.worker \in worker_ips
              THEN pp' = "push" /\ pcall' = c
              ELSE pp' = "eval" /\ UNCHANGED pcall
         /\ num_dropped_map_jobs' =
                num_dropped_map_jobs + (IF c.status = "error" /\ c.is_map_job THEN 1 ELSE 0)
         /\ num_dropped_reduce_jobs' =
                num_dropped_reduce_jobs + (IF c.status = "error" /\ ~c.is_map_job THEN 1 ELSE 0)
    /\ UNCHANGED <<is_map, num_dropped_workers, num_map_msgs, num_reduce_msgs, alive, late,
                   inter_file, output_file, crashes, timeouts, ready_queue, flags, books,
                   clients, mainvars, monvars>>

\* ready_queue.push, and one that is forgotten.
PushForgotten(w) == ready_queue
Push(w) == Append(ready_queue, w)

\* Under m: the worker is ready again.
PushReady ==
    /\ pm # "crashed"
    /\ pp = "push"
    /\ ready_queue' = Push(pcall.worker)
    /\ pp' = "look"
    /\ UNCHANGED <<pcall, is_map, wvars, flags, books, counters, clients, mainvars, monvars>>

\* The client is looked up without the lock; it may be gone by now.
LookUpClient ==
    /\ pm # "crashed"
    /\ pp = "look"
    /\ IF pcall.worker \in worker_ips
         THEN pp' = "bump" /\ UNCHANGED pcall
         ELSE pp' = "eval" /\ pcall' = NoCall
    /\ UNCHANGED <<is_map, ready_queue, wvars, flags, books, counters, clients,
                   mainvars, monvars>>

\* The answer is counted, without a lock.
CountMapAnswer ==
    /\ pm # "crashed"
    /\ pp = "bump"
    /\ pcall.is_map_job
    /\ num_map_msgs' = num_map_msgs + 1
    /\ pp' = "credit"
    /\ UNCHANGED <<pcall, is_map, num_dropped_workers, num_reduce_msgs, num_dropped_map_jobs,
                   num_dropped_reduce_jobs, ready_queue, wvars, flags, books, clients,
                   mainvars, monvars>>

CountReduceAnswer ==
    /\ pm # "crashed"
    /\ pp = "bump"
    /\ ~pcall.is_map_job
    /\ num_reduce_msgs' = num_reduce_msgs + 1
    /\ pp' = "credit"
    /\ UNCHANGED <<pcall, is_map, num_dropped_workers, num_map_msgs, num_dropped_map_jobs,
                   num_dropped_reduce_jobs, ready_queue, wvars, flags, books, clients,
                   mainvars, monvars>>

\* It is credited to its client.  If the monitor dropped the client after the
\* look-up, the client's counter is freed memory.
Bump(count) ==
    IF pcall.worker \in worker_ips THEN [count EXCEPT ![pcall.worker] = @ + 1] ELSE count
CreditClient ==
    /\ pm # "crashed"
    /\ pp = "credit"
    /\ IF pcall.is_map_job
         THEN /\ completed_map_jobs' = Bump(completed_map_jobs)
              /\ UNCHANGED completed_reduce_jobs
         ELSE /\ completed_reduce_jobs' = Bump(completed_reduce_jobs)
              /\ UNCHANGED completed_map_jobs
    /\ pp' = "register"
    /\ UNCHANGED <<pcall, is_map, map_shards, freed_shards, ready_queue, wvars, flags, books,
                   counters, mainvars, monvars>>

\* The files a map answer lists: one for each partition; or only the first.
FirstFile(w) == {1} \X {w}
AnswerFiles(w) == Partitions \X {w}

\* Its files are registered.
RegisterFiles ==
    /\ pm # "crashed"
    /\ pp = "register"
    /\ IF pcall.is_map_job
         THEN /\ intermediate_files' = intermediate_files \cup AnswerFiles(pcall.worker)
              /\ UNCHANGED output_files
         ELSE /\ output_files' = output_files + 1
              /\ UNCHANGED intermediate_files
    /\ pp' = "eval"
    /\ pcall' = NoCall
    /\ UNCHANGED <<is_map, worker_ips, unfinished_shards, ready_queue, wvars, flags, counters,
                   clients, mainvars, monvars>>

\* When the poll thread wants the main thread to act.
notify_master ==
    \/ /\ num_dropped_workers = 0
       /\ num_map_msgs - num_dropped_map_jobs = NumShards
       /\ ~map_complete
    \/ /\ num_dropped_workers = 0
       /\ num_reduce_msgs - num_dropped_reduce_jobs = NumPartitions
       /\ ~reduce_complete
    \/ num_dropped_workers > 0

\* Faults of the hand-over: no look at the flag, and no notify.
NotifyWithoutFlag ==
    /\ pm # "crashed"
    /\ ~MainHoldsLock
    /\ pp = "eval"
    /\ notify_master
    /\ map_reduce_flag' = FALSE
    /\ pm' = IF pm = "asleep" THEN "woken" ELSE pm
    /\ is_map' = ~map_complete
    /\ pp' = "wait"
    /\ UNCHANGED <<map_complete, reduce_complete, initial_monitor_job, stop_monitoring,
                   trigger_monitoring, phase, jobs, i, hand, idx2files, pcall, ready_queue,
                   wvars, books, counters, clients, monvars>>
NoWakeup == pm

\* cv_map_reduce.notify_one()
WakeMain == IF pm = "asleep" THEN "woken" ELSE pm

\* Under m_map_reduce: if the main thread waits for it, lower the flag, wake
\* the main thread up and wait for the flag to be raised again.
NotifyMain ==
    /\ pm # "crashed"
    /\ ~MainHoldsLock
    /\ pp = "eval"
    /\ map_reduce_flag
    /\ notify_master
    /\ map_reduce_flag' = FALSE
    /\ pm' = WakeMain
    /\ is_map' = ~map_complete
    /\ pp' = "wait"
    /\ UNCHANGED <<map_complete, reduce_complete, initial_monitor_job, stop_monitoring,
                   trigger_monitoring, phase, jobs, i, hand, idx2files, pcall, ready_queue,
                   wvars, books, counters, clients, monvars>>

\* Otherwise take the next call, or return when the reduce phase is complete.
NoNotify ==
    /\ pm # "crashed"
    /\ ~MainHoldsLock
    /\ pp = "eval"
    /\ ~(map_reduce_flag /\ notify_master)
    /\ pp' = IF reduce_complete THEN "exit" ELSE "next"
    /\ UNCHANGED <<pcall, is_map, ready_queue, wvars, flags, books, counters, clients, mainvars,
                   monvars>>

\* The flag is raised: lower it, and return if the phase is complete.
TakeFlagBack ==
    /\ pm # "crashed"
    /\ ~MainHoldsLock
    /\ pp = "wait"
    /\ map_reduce_flag
    /\ map_reduce_flag' = FALSE
    /\ pp' = IF (map_complete /\ is_map) \/ (reduce_complete /\ ~is_map)
               THEN "exit" ELSE "next"
    /\ is_map' = FALSE
    /\ UNCHANGED <<map_complete, reduce_complete, initial_monitor_job, stop_monitoring,
                   trigger_monitoring, pcall, ready_queue, wvars, books, counters,
                   clients, mainvars, monvars>>

PollStep ==
    \/ TakeCall \/ PushReady \/ LookUpClient \/ CountMapAnswer \/ CountReduceAnswer
    \/ CreditClient \/ RegisterFiles \/ NotifyMain \/ NoNotify \/ TakeFlagBack

-----------------------------------------------------------------------------
(* Monitor thread: monitor and handle_worker_failure *)

\* The thread starts.
MonitorBegin ==
    /\ pm # "crashed"
    /\ pn = "begin"
    /\ initial_monitor_job' = TRUE
    /\ stop_monitoring' = FALSE
    /\ pn' = "top"
    /\ UNCHANGED <<map_complete, reduce_complete, map_reduce_flag, trigger_monitoring,
                   pongs, failed, pings, ready_queue, wvars, books, counters, clients,
                   mainvars, pollvars>>

\* Who is pinged: every listed worker; or only those without a job.
IdleWorkers == {w \in worker_ips : \A c \in calls : c.worker # w}
PingTargets == worker_ips

\* A round starts: every listed worker is sent a ping.
SendPings ==
    /\ pm # "crashed"
    /\ pn = "top"
    /\ ~stop_monitoring
    /\ pings' = [x \in Workers \X BOOLEAN |->
                    pings[x] + (IF x[1] \in PingTargets /\ x[2] = alive[x[1]] THEN 1 ELSE 0)]
    /\ pn' = "recv"
    /\ UNCHANGED <<pongs, failed, ready_queue, wvars, flags, books, counters, clients, mainvars,
                   pollvars>>

\* receive_monitor_pong returns an answer: only a worker that was alive when
\* the ping was sent can have given one.
ReceivePong ==
    /\ pm # "crashed"
    /\ pn = "recv"
    /\ pongs < num_workers
    /\ \E w \in Workers :
         /\ pings[<<w, TRUE>>] > 0
         /\ pings' = [pings EXCEPT ![<<w, TRUE>>] = @ - 1]
    /\ pongs' = pongs + 1
    /\ UNCHANGED <<pn, failed, ready_queue, wvars, flags, books, counters, clients,
                   mainvars, pollvars>>

\* receive_monitor_pong returns an error, because the worker is dead or slow;
\* handle_worker_failure chooses its branch before it takes the lock.
ReceiveError ==
    /\ pm # "crashed"
    /\ pn = "recv"
    /\ pongs < num_workers
    /\ \E x \in Workers \X BOOLEAN :
         /\ pings[x] > 0
         /\ pings' = [pings EXCEPT ![x] = @ - 1]
         /\ failed' = x[1]
         /\ IF alive[x[1]]
              THEN timeouts < MaxTimeout /\ timeouts' = timeouts + 1
              ELSE UNCHANGED timeouts
    /\ pongs' = pongs + 1
    /\ pn' = IF map_complete THEN "drop_reduce" ELSE "drop_map"
    /\ UNCHANGED <<alive, calls, late, inter_file, output_file, crashes, ready_queue,
                   flags, books, counters, clients, mainvars, pollvars>>

\* The partitions of which w has registered a file.
RegisteredOf(w) == {p \in Partitions : <<p, w>> \in intermediate_files}

\* remove_worker_ip of handle_worker_failure, and the client with its fields.
RemoveWorker(w) ==
    /\ worker_ips' = worker_ips \ {w}
    /\ map_shards' = [map_shards EXCEPT ![w] = <<>>]
    /\ completed_map_jobs' = [completed_map_jobs EXCEPT ![w] = 0]
    /\ completed_reduce_jobs' = [completed_reduce_jobs EXCEPT ![w] = 0]
    /\ UNCHANGED freed_shards

\* The loop over intermediate_files removes the first file whose name holds
\* the worker's port, and breaks.  Which one comes first is a matter of the
\* order of the names.
RemoveIntermediate(w) ==
    \/ /\ RegisteredOf(w) = {}
       /\ UNCHANGED <<intermediate_files, inter_file>>
    \/ \E p \in RegisteredOf(w) :
         /\ intermediate_files' = intermediate_files \ {<<p, w>>}
         /\ inter_file' = [inter_file EXCEPT ![w] = [@ EXCEPT ![p] = NoShard]]

\* The shards sent to w are unfinished again; or are forgotten with it.
ForgetShards(w) == unfinished_shards
GiveBack(w) == unfinished_shards \o map_shards[w]

\* The answers w gave no longer count; or still do.
KeepAnswers(w) == num_dropped_map_jobs
TakeBackAnswers(w) == num_dropped_map_jobs + completed_map_jobs[w]

\* handle_worker_failure in the map phase: the shards sent to the worker are
\* unfinished again, and the answers it gave no longer count.
DropMapWorker ==
    /\ pm # "crashed"
    /\ pn = "drop_map"
    /\ failed \in worker_ips
    /\ unfinished_shards' = GiveBack(failed)
    /\ num_dropped_map_jobs' = TakeBackAnswers(failed)
    /\ RemoveWorker(failed)
    /\ RemoveIntermediate(failed)
    /\ num_dropped_workers' = num_dropped_workers + 1
    /\ failed' = None
    /\ pn' = "recv"
    /\ UNCHANGED <<output_files, num_map_msgs, num_reduce_msgs, num_dropped_reduce_jobs,
                   pongs, pings, ready_queue, alive, calls, late, output_file,
                   crashes, timeouts, flags, mainvars, pollvars>>

\* A second error for the same worker returns early in the map phase.
DropMapWorkerAgain ==
    /\ pm # "crashed"
    /\ pn = "drop_map"
    /\ failed \in dropped_worker_ips
    /\ failed' = None
    /\ pn' = "recv"
    /\ UNCHANGED <<pongs, pings, ready_queue, wvars, flags, books, counters, clients,
                   mainvars, pollvars>>

\* handle_worker_failure in the reduce phase.
DropReduceWorker ==
    /\ pm # "crashed"
    /\ pn = "drop_reduce"
    /\ failed \in worker_ips
    /\ num_dropped_reduce_jobs' = num_dropped_reduce_jobs + completed_reduce_jobs[failed]
    /\ RemoveWorker(failed)
    /\ num_dropped_workers' = num_dropped_workers + 1
    /\ failed' = None
    /\ pn' = "recv"
    /\ UNCHANGED <<unfinished_shards, intermediate_files, output_files, num_map_msgs,
                   num_reduce_msgs, num_dropped_map_jobs, pongs, pings, ready_queue,
                   wvars, flags, mainvars, pollvars>>

\* There the client is not checked: a second error for the same worker goes
\* through a null pointer and ends the process.
DropReduceWorkerAgain ==
    /\ pm # "crashed"
    /\ pn = "drop_reduce"
    /\ failed \in dropped_worker_ips
    /\ pm' = "crashed"
    /\ UNCHANGED <<phase, jobs, i, hand, idx2files, ready_queue, wvars, flags, books,
                   counters, clients, pollvars, monvars>>

\* The round is over when as many pongs came in as workers are left; run may
\* go on after the first one.
EndInitialRound ==
    /\ pm # "crashed"
    /\ pn = "recv"
    /\ pongs >= num_workers
    /\ initial_monitor_job' = FALSE
    /\ pongs' = 0
    /\ pn' = "over"
    /\ UNCHANGED <<map_complete, reduce_complete, map_reduce_flag, stop_monitoring,
                   trigger_monitoring, failed, pings, ready_queue, wvars, books, counters,
                   clients, mainvars, pollvars>>

\* A round that does not tell the main thread.
EndRoundSilently ==
    /\ pm # "crashed"
    /\ pn = "over"
    /\ pn' = "top"
    /\ UNCHANGED <<pongs, failed, pings, ready_queue, wvars, flags, books, counters,
                   clients, mainvars, pollvars>>

\* A main thread that asked for the round is told.
EndRound ==
    /\ pm # "crashed"
    /\ pn = "over"
    /\ trigger_monitoring' = FALSE
    /\ pn' = "top"
    /\ UNCHANGED <<map_complete, reduce_complete, map_reduce_flag, initial_monitor_job,
                   stop_monitoring, pongs, failed, pings, ready_queue, wvars, books,
                   counters, clients, mainvars, pollvars>>

\* while (!stop_monitoring) ends.
MonitorExit ==
    /\ pm # "crashed"
    /\ pn = "top"
    /\ stop_monitoring
    /\ trigger_monitoring' = FALSE
    /\ pn' = "exit"
    /\ UNCHANGED <<map_complete, reduce_complete, map_reduce_flag, initial_monitor_job,
                   stop_monitoring, pongs, failed, pings, ready_queue, wvars, books,
                   counters, clients, mainvars, pollvars>>

MonitorStep ==
    \/ MonitorBegin \/ SendPings \/ ReceivePong \/ ReceiveError
    \/ DropMapWorker \/ DropMapWorkerAgain \/ DropReduceWorker \/ DropReduceWorkerAgain
    \/ EndInitialRound \/ EndRound \/ MonitorExit

=============================================================================
