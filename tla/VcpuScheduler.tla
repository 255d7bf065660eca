--------------------------- MODULE VcpuScheduler ---------------------------
(***************************************************************************)
(* project1-1/cpu/src/vcpu_scheduler.c: every interval CPUScheduler lists  *)
(* the VMs (one vCPU each), reads how much CPU time each has used so far,  *)
(* takes the difference to the previous interval for its load, and, if the *)
(* loads of the pCPUs differ too much, pins VMs one after the other.  VMs  *)
(* start and stop between any two of these steps.  A VM is known by its    *)
(* position in the list, from 0, as in the code; loads are percentages of  *)
(* an interval, and CPU times are counted in the same unit (interval must  *)
(* be 1 or 2: from 3 on, interval * 1000000000 overflows an int).          *)
(***************************************************************************)
EXTENDS Hypervisor, SequencesExt

CONSTANTS HostCpus,     \* the numbers of pCPUs a host may have
          Amounts,      \* bound: the CPU time a VM may use in an interval
          MaxIntervals  \* bound: how often CPUScheduler runs

BALANCE_THRESHOLD == 5

VARIABLES
    n_host_cpus, \* what virNodeGetInfo told main
    time,        \* CPU time each VM has used since it started
    allowed,     \* the pCPUs each VM may run on
    pc,          \* where main and CPUScheduler are
    intervals,   \* how often CPUScheduler has run
    cpu_times,   \* the times of the previous interval, by position
    read_of,     \* the VM cpu_times[i] was read from, 0 if it is gone or i was not listed
    doms,        \* the array domains
    usages,      \* the load of each VM, by position
    mapping,     \* the pCPU each VM was found on, by position
    unplaced,    \* the VMs that come at turn or later in usages after qsort
    new_mapping, \* the VM given to each pCPU; 0 means free and is also the first VM
    workloads,   \* the load given to each pCPU so far
    turn         \* the i of the loops that place the VMs

PCpus == 0 .. n_host_cpus - 1

hostvars == <<n_host_cpus, domains, changes, time, allowed>>
placement == <<mapping, unplaced, new_mapping, workloads, turn>>
locals == <<doms, usages, placement>>
vars == <<hostvars, pc, intervals, cpu_times, read_of, locals>>

n_vms == Len(doms)
ManyVMs == n_vms > n_host_cpus
Positions == 0 .. n_vms - 1
Slots == 0 .. NumVMs - 1  \* MAX_VM, which the list never outgrows here

TypeOK ==
    /\ n_host_cpus \in HostCpus
    /\ domains \in Seq(VMs) /\ changes \in 0 .. MaxChanges
    /\ time \in [VMs -> Nat]
    /\ allowed \in [VMs -> (SUBSET PCpus) \ {{}}]
    /\ pc \in {"loop", "times", "mapping", "place", "exit", "returned"}
    /\ intervals \in 0 .. MaxIntervals
    /\ cpu_times \in [Slots -> Nat]
    /\ read_of \in [Slots -> VMs \cup {0}]
    /\ doms \in Seq(VMs)
    /\ DOMAIN usages \subseteq Positions
    /\ pc = "place" =>
         /\ mapping \in [Positions -> PCpus]
         /\ unplaced \subseteq Positions
         /\ new_mapping \in [PCpus -> Positions \cup {0}]
         /\ workloads \in [PCpus -> Nat]
         /\ turn \in 0 .. n_vms

\* main: cpu_times is allocated and cleared.
Init ==
    /\ HypervisorInit
    /\ n_host_cpus \in HostCpus
    /\ time = [v \in VMs |-> 0]
    /\ allowed = [v \in VMs |-> PCpus]
    /\ pc = "loop"
    /\ intervals = 0
    /\ cpu_times = [i \in Slots |-> 0]
    /\ read_of = [i \in Slots |-> 0]
    /\ doms = <<>> /\ usages = <<>>
    /\ mapping = <<>> /\ unplaced = {} /\ new_mapping = <<>> /\ workloads = <<>> /\ turn = 0

-----------------------------------------------------------------------------
(* External: VMs start and stop *)

Start(v) ==
    /\ StartVM(v)
    /\ UNCHANGED <<n_host_cpus, time, allowed, pc, intervals, cpu_times, read_of, locals>>

\* When it starts again it may run anywhere and has used no time.
Stop(v) ==
    /\ StopVM(v)
    /\ time' = [time EXCEPT ![v] = 0]
    /\ allowed' = [allowed EXCEPT ![v] = PCpus]
    /\ read_of' = [i \in Slots |-> IF read_of[i] = v THEN 0 ELSE read_of[i]]
    /\ UNCHANGED <<n_host_cpus, pc, intervals, cpu_times, locals>>

-----------------------------------------------------------------------------
(* main and CPUScheduler *)

\* CPUScheduler returns, and main sleeps until the next interval.
Sleep ==
    /\ pc' = "loop"
    /\ doms' = <<>> /\ usages' = <<>>
    /\ mapping' = <<>> /\ unplaced' = {} /\ new_mapping' = <<>> /\ workloads' = <<>> /\ turn' = 0
    /\ UNCHANGED <<n_host_cpus, domains, changes, allowed, intervals>>

Exit ==
    /\ pc' = "exit"
    /\ UNCHANGED <<hostvars, intervals, cpu_times, read_of, locals>>

\* SIGINT has set is_exit.
Return ==
    /\ pc = "loop"
    /\ pc' = "returned"
    /\ UNCHANGED <<hostvars, intervals, cpu_times, read_of, locals>>

get_active_vm ==
    /\ pc = "loop"
    /\ intervals < MaxIntervals
    /\ intervals' = intervals + 1
    /\ doms' = domains
    /\ pc' = "times"
    /\ UNCHANGED <<hostvars, cpu_times, read_of, usages, placement>>

AllListedRun == \A i \in 1 .. n_vms : doms[i] \in Running

VM(i) == doms[i + 1]

\* External: the VMs have run since their times were last read.
VMsRan ==
    \E used \in [Running -> Amounts] :
        time' = [v \in VMs |-> IF v \in Running THEN time[v] + used[v] ELSE 0]

\* A bug: the last VM of the list is left out.
StoreTimesButLast(now) ==
    /\ cpu_times' = [i \in Slots |-> IF i < n_vms - 1 THEN now[VM(i)] ELSE cpu_times[i]]
    /\ read_of' = [i \in Slots |-> IF i < n_vms THEN VM(i) ELSE 0]

\* The loops that copy current_cpu_times to cpu_times.
StoreTimes(now) ==
    /\ cpu_times' = [i \in Slots |-> IF i < n_vms THEN now[VM(i)] ELSE cpu_times[i]]
    /\ read_of' = [i \in Slots |-> IF i < n_vms THEN VM(i) ELSE 0]

\* calculate_vm_cpu_usages, in unsigned arithmetic.
UsageAt(now, i) == (now[VM(i)] - cpu_times[i]) % ULLRange

\* A query for a VM that has stopped fails: exit(1).
GetTimesFails == pc = "times" /\ ~AllListedRun /\ Exit

\* get_vm_cpu_times, where cpu_times[0] == 0 is taken for "not initialised yet".
GetFirstTimes ==
    /\ pc = "times"
    /\ AllListedRun
    /\ cpu_times[0] = 0
    /\ VMsRan
    /\ StoreTimes(time')
    /\ Sleep

GetTimes ==
    /\ pc = "times"
    /\ AllListedRun
    /\ cpu_times[0] # 0
    /\ VMsRan
    /\ usages' = [i \in Positions |-> UsageAt(time', i)]
    /\ StoreTimes(time')
    /\ pc' = "mapping"
    /\ UNCHANGED <<n_host_cpus, domains, changes, allowed, intervals, doms, placement>>

\* calculate_pcpu_workload: the load of each VM is added where it is.
TotalUsage(S) ==
    LET upto[k \in 0 .. n_vms] ==
            IF k = 0 THEN 0 ELSE upto[k - 1] + (IF k - 1 \in S THEN usages[k - 1] ELSE 0)
    IN  upto[n_vms]
Workload(map, p) == TotalUsage({i \in Positions : map[i] = p})

\* calculate_std_dev is above the threshold, squared and multiplied out.
Unbalanced(map) ==
    LET workload(p) == Workload(map, p)
        total == MapThenSumSet(workload, PCpus)
        squares == MapThenSumSet(LAMBDA p : workload(p) * workload(p), PCpus)
    IN  n_host_cpus * squares - total * total
          > BALANCE_THRESHOLD * BALANCE_THRESHOLD * n_host_cpus * n_host_cpus

GetMappingFails == pc = "mapping" /\ ~AllListedRun /\ Exit

\* get_cpu_mapping: a VM that is not pinned may be on any pCPU.
Mappings == {m \in [Positions -> PCpus] : \A i \in Positions : m[i] \in allowed[VM(i)]}

Balanced ==
    /\ pc = "mapping"
    /\ AllListedRun
    /\ \E m \in Mappings : ~Unbalanced(m)
    /\ Sleep
    /\ UNCHANGED <<time, cpu_times, read_of>>

\* The loads differ too much: the VMs are sorted by load and placed anew.
Rebalance ==
    /\ pc = "mapping"
    /\ AllListedRun
    /\ \E m \in Mappings : Unbalanced(m) /\ mapping' = m
    /\ unplaced' = Positions
    /\ new_mapping' = [p \in PCpus |-> 0] /\ workloads' = [p \in PCpus |-> 0]
    /\ turn' = 0
    /\ pc' = "place"
    /\ UNCHANGED <<hostvars, intervals, cpu_times, read_of, doms, usages>>

Free == {p \in PCpus : new_mapping[p] = 0}
placing == <<n_host_cpus, domains, changes, time, pc, intervals, cpu_times, read_of, doms,
             usages, mapping>>

pin_vm_to_pcpu(i, p) ==
    /\ VM(i) \in Running
    /\ allowed' = [allowed EXCEPT ![VM(i)] = {p}]

\* No more VMs than pCPUs: a VM stays where it is if that pCPU is free, ...
StaysAlone ==
    /\ pc = "place" /\ ~ManyVMs /\ turn < n_vms
    /\ mapping[turn] \in Free
    /\ new_mapping' = [new_mapping EXCEPT ![mapping[turn]] = turn]
    /\ turn' = turn + 1
    /\ UNCHANGED <<placing, allowed, unplaced, workloads>>

MovesAlone == pc = "place" /\ ~ManyVMs /\ turn < n_vms /\ mapping[turn] \notin Free

\* ... and otherwise is pinned to every free pCPU in turn, for the inner loop
\* does not stop at the first one.
PinsAlone ==
    /\ MovesAlone
    /\ Free # {}
    /\ LET p == Min(Free) IN
         /\ pin_vm_to_pcpu(turn, p)
         /\ new_mapping' = [new_mapping EXCEPT ![p] = turn]
    /\ UNCHANGED <<placing, unplaced, workloads, turn>>

LeavesAlone ==
    /\ MovesAlone
    /\ Free = {}
    /\ turn' = turn + 1
    /\ UNCHANGED <<placing, allowed, unplaced, new_mapping, workloads>>

\* cmp_vm_usage: the VM at turn is one of the busiest left; qsort may have put
\* equal loads in any order.
NextByUsage == {i \in unplaced : \A j \in unplaced : usages[i] >= usages[j]}
PlacesBusy == pc = "place" /\ ManyVMs /\ turn < n_host_cpus
PlacesRest == pc = "place" /\ ManyVMs /\ turn \in n_host_cpus .. n_vms - 1
Advance(i) == unplaced' = unplaced \ {i} /\ turn' = turn + 1

\* A bug: new_mapping is not set for a VM that is moved.
PlaceBusyUnmarked(i) ==
    /\ PlacesBusy
    /\ LET p == IF mapping[i] \in Free THEN mapping[i] ELSE Min(Free) IN
         /\ pin_vm_to_pcpu(i, p)
         /\ new_mapping' = IF p = mapping[i] THEN [new_mapping EXCEPT ![p] = i] ELSE new_mapping
         /\ workloads' = [workloads EXCEPT ![p] = usages[i]]
    /\ Advance(i)
    /\ UNCHANGED placing

\* More VMs than pCPUs, the busiest: each stays, or goes to the first free pCPU.
PlaceBusy(i) ==
    /\ PlacesBusy
    /\ LET p == IF mapping[i] \in Free THEN mapping[i] ELSE Min(Free) IN
         /\ pin_vm_to_pcpu(i, p)
         /\ new_mapping' = [new_mapping EXCEPT ![p] = i]
         /\ workloads' = [workloads EXCEPT ![p] = usages[i]]
    /\ Advance(i)
    /\ UNCHANGED placing

LeastLoaded == {q \in PCpus : \A r \in PCpus : workloads[q] <= workloads[r]}

\* A bug: the load of a VM is not added where it goes.
PlaceRestUncounted(i) ==
    /\ PlacesRest
    /\ pin_vm_to_pcpu(i, Min(LeastLoaded))
    /\ Advance(i)
    /\ UNCHANGED <<placing, new_mapping, workloads>>

\* The others: each to the first of the least loaded pCPUs.
PlaceRest(i) ==
    /\ PlacesRest
    /\ LET p == Min(LeastLoaded) IN
         /\ pin_vm_to_pcpu(i, p)
         /\ workloads' = [workloads EXCEPT ![p] = @ + usages[i]]
    /\ Advance(i)
    /\ UNCHANGED <<placing, new_mapping>>

\* The VM to pin has stopped: exit(1).
PinFails ==
    /\ \/ MovesAlone /\ Free # {} /\ VM(turn) \notin Running
       \/ (PlacesBusy \/ PlacesRest) /\ \E i \in NextByUsage : VM(i) \notin Running
    /\ Exit

Finished ==
    /\ pc = "place"
    /\ turn = n_vms
    /\ Sleep
    /\ UNCHANGED <<time, cpu_times, read_of>>

Scheduler ==
    \/ Return \/ get_active_vm \/ GetTimesFails \/ GetFirstTimes \/ GetTimes
    \/ GetMappingFails \/ Balanced \/ Rebalance
    \/ StaysAlone \/ PinsAlone \/ LeavesAlone
    \/ (\E i \in NextByUsage : PlaceBusy(i) \/ PlaceRest(i))
    \/ PinFails \/ Finished

Next == Scheduler \/ \E v \in VMs : Start(v) \/ Stop(v)

Spec == Init /\ [][Next]_vars

-----------------------------------------------------------------------------
(* Properties *)

\* All VMs are placed, and nobody has stopped since its time was read.
Pinned == pc = "place" /\ turn = n_vms /\ \A i \in Positions : read_of[i] = VM(i)

\* The VMs that are busier than all but fewer than n_host_cpus others, and so
\* placed first whatever qsort does with equal loads.
Busiest ==
    {i \in Positions : Cardinality({j \in Positions : usages[j] >= usages[i]}) <= n_host_cpus}

\* With more VMs than pCPUs the busiest end up on different pCPUs, except that
\* the first VM of the list may have to share: its number is the mark of a
\* free pCPU, so the one it got looks free to the others.
BusiestApart ==
    Pinned /\ ManyVMs =>
        \A i, j \in Busiest : i # j /\ allowed[VM(i)] = allowed[VM(j)] => 0 \in {i, j}

\* With more VMs than pCPUs the new placement cannot be improved by moving the
\* lightest VM of a shared pCPU elsewhere: without it no pCPU is more loaded
\* than any other.  (Unless the first VM of the list may be among those placed
\* first, whose load the code may overwrite.)
GreedyBalanced ==
    /\ Pinned /\ ManyVMs
    /\ Cardinality({i \in Positions : usages[i] > usages[0]}) >= n_host_cpus
    => LET here(p) == {i \in Positions : allowed[VM(i)] = {p}}
           load(p) == TotalUsage(here(p))
       IN  \A p, q \in PCpus :
               Cardinality(here(p)) > 1 =>
                   load(p) - Min({usages[i] : i \in here(p)}) <= load(q)

\* The load of a VM that has kept its position since the previous interval is
\* the CPU time it has used since, although times are kept by position and
\* VMs come and go.
UsageTrue ==
    [][GetTimes => \A i \in Positions :
            read_of[i] = VM(i) => usages'[i] = time'[VM(i)] - time[VM(i)]]_vars

=============================================================================
