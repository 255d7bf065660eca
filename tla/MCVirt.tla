------------------------------- MODULE MCVirt -------------------------------
(***************************************************************************)
(* The two programs of project1-1 on a host with the same VMs: one of them *)
(* runs, the variables of the other keep their first value.                *)
(***************************************************************************)
EXTENDS MemoryCoordinator

CONSTANTS HostCpus, Amounts, MaxIntervals

\* No interval is so long that a time wraps.
ASSUME SchedulerAssumption ==
    /\ HostCpus \subseteq Nat \ {0}
    /\ Amounts \subseteq 0 .. ULLRange - 1
    /\ MaxIntervals \in Nat

VARIABLES program,
          n_host_cpus, time, allowed, cpu_pc, intervals, cpu_times, read_of, cpu_doms,
          usages, mapping, unplaced, new_mapping, workloads, turn

Cpu == INSTANCE VcpuScheduler WITH pc <- cpu_pc, doms <- cpu_doms

cpuvars == <<n_host_cpus, time, allowed, cpu_pc, intervals, cpu_times, read_of, cpu_doms,
             usages, mapping, unplaced, new_mapping, workloads, turn>>
memvars == <<balloon, used, host_free, pc, is_exit, doms, readings, plan, next>>

Coordinates == program = "memory_coordinator"
Schedules == program = "vcpu_scheduler"

InitMemory ==
    /\ Coordinates
    /\ Init
    /\ n_host_cpus = 0 /\ time = <<>> /\ allowed = <<>>
    /\ cpu_pc = "loop" /\ intervals = 0 /\ cpu_times = <<>> /\ read_of = <<>>
    /\ cpu_doms = <<>> /\ usages = <<>>
    /\ mapping = <<>> /\ unplaced = {} /\ new_mapping = <<>> /\ workloads = <<>> /\ turn = 0

InitCpu ==
    /\ Schedules
    /\ Cpu!Init
    /\ balloon = <<>> /\ used = <<>> /\ host_free = 0
    /\ pc = "loop" /\ is_exit = FALSE /\ doms = <<>>
    /\ unused_mems = <<>> /\ balloon_mems = <<>> /\ host_mem_avail = 0
    /\ plan = <<>> /\ next = 1

VirtNext ==
    \/ Coordinates /\ Next /\ UNCHANGED <<program, cpuvars>>
    \/ Schedules /\ Cpu!Next /\ UNCHANGED <<program, memvars>>

VirtSpec ==
    /\ InitMemory \/ InitCpu
    /\ [][VirtNext]_<<program, vars, cpuvars>>
    /\ WF_<<program, vars, cpuvars>>(Coordinates /\ Coordinator /\ UNCHANGED <<program, cpuvars>>)

-----------------------------------------------------------------------------
(* Properties *)

\* The state of the program that runs has its type.
VirtTypeOK == (Coordinates => TypeOK) /\ (Schedules => Cpu!TypeOK)

\* memory_coordinator.c ends up with no VM it could serve once the load stops
\* changing.
CoordinatorSettles == <>[](Coordinates => AtRest)

\* CPUScheduler puts the busiest VMs on different pCPUs, but for the first of
\* the list.
BusiestApart == Cpu!BusiestApart

\* CPUScheduler leaves no pCPU whose lightest VM would be better off elsewhere.
GreedyBalanced == Cpu!GreedyBalanced

\* CPUScheduler uses the load of the VM it was measured for.
UsageTrue == Cpu!UsageTrue
=============================================================================
