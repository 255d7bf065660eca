------------------------- MODULE MemoryCoordinator -------------------------
(***************************************************************************)
(* project1-1/memory/src/memory_coordinator.c: every interval              *)
(* MemoryScheduler lists the VMs, reads their memory statistics and the    *)
(* free memory of the host, decides who gives and who gets one unit of     *)
(* memory, and sets the new sizes one VM after the other.  VMs start, stop *)
(* and change what they use between any two of these steps.  All sizes are *)
(* in megabytes, as after the divisions of the code.                       *)
(***************************************************************************)
EXTENDS Hypervisor

CONSTANTS BootMem,   \* memory of a VM that starts
          MaxMem,    \* virDomainGetMaxMemory, the same for all VMs
          HostFree,  \* bound: free memory the host may have at first
          Grain      \* bound: by how much the load of a VM or of the host changes

ASSUME MemoryAssumption ==
    /\ BootMem \in Nat /\ MaxMem \in Nat /\ BootMem <= MaxMem
    /\ HostFree \subseteq Nat
    /\ Grain \in Nat \ {0}

unused_mem_low == 100
unused_mem_high == 300
mem_alloc_unit == 100
host_mem_low == 200

VARIABLES
    balloon, used,   \* memory each VM has, and what its programs use of it
    host_free,       \* free memory of the host; below 0 it is overcommitted
    pc,              \* where main and MemoryScheduler are
    is_exit,         \* SIGINT has been caught
    doms,            \* the array domains
    unused_mems, balloon_mems, host_mem_avail,  \* what was read
    plan,            \* plan[i]: the size virDomainSetMemory is called with for doms[i]
    next             \* the VM the last loop is at

vmvars == <<domains, changes, balloon, used, host_free>>
readings == <<unused_mems, balloon_mems, host_mem_avail>>
vars == <<vmvars, pc, is_exit, doms, readings, plan, next>>

Nothing == [v \in {} |-> 0]

TypeOK ==
    /\ domains \in Seq(VMs) /\ changes \in 0 .. MaxChanges
    /\ balloon \in [VMs -> 0 .. MaxMem]
    /\ used \in [VMs -> 0 .. MaxMem] /\ \A v \in VMs : used[v] <= balloon[v]
    /\ host_free \in Int
    /\ pc \in {"loop", "stats", "decide", "set", "exit", "returned"}
    /\ is_exit \in BOOLEAN
    /\ doms \in Seq(VMs)
    /\ host_mem_avail \in Nat
    /\ DOMAIN plan \subseteq 1 .. Len(doms)
    /\ next \in 1 .. Len(doms) + 1

Init ==
    /\ HypervisorInit
    /\ balloon = [v \in VMs |-> IF v \in Running THEN BootMem ELSE 0]
    /\ used \in {u \in [VMs -> {Grain * k : k \in 0 .. BootMem \div Grain}] :
                    \A v \in VMs \ Running : u[v] = 0}
    /\ host_free \in HostFree
    /\ pc = "loop"
    /\ is_exit = FALSE
    /\ doms = <<>>
    /\ unused_mems = Nothing /\ balloon_mems = Nothing /\ host_mem_avail = 0
    /\ plan = Nothing /\ next = 1

-----------------------------------------------------------------------------
(* External: the VMs, the host and the user *)

Start(v) ==
    /\ StartVM(v)
    /\ balloon' = [balloon EXCEPT ![v] = BootMem]
    /\ host_free' = host_free - BootMem
    /\ UNCHANGED <<used, pc, is_exit, doms, readings, plan, next>>

Stop(v) ==
    /\ StopVM(v)
    /\ balloon' = [balloon EXCEPT ![v] = 0]
    /\ used' = [used EXCEPT ![v] = 0]
    /\ host_free' = host_free + balloon[v]
    /\ UNCHANGED <<pc, is_exit, doms, readings, plan, next>>

\* The programs of a VM take or free memory.
GuestUses(v) ==
    /\ v \in Running
    /\ Change
    /\ \E u \in {used[v] - Grain, used[v] + Grain} :
         u \in 0 .. balloon[v] /\ used' = [used EXCEPT ![v] = u]
    /\ UNCHANGED <<domains, balloon, host_free, pc, is_exit, doms, readings, plan, next>>

Interrupt ==
    /\ ~is_exit
    /\ is_exit' = TRUE
    /\ UNCHANGED <<vmvars, pc, doms, readings, plan, next>>

\* virDomainSetMemory: fails for a VM that is gone or a size above its
\* maximum; a VM gives back only what it does not use.
SetMemory(v, size) ==
    LET new == IF size > used[v] THEN size ELSE used[v]
    IN  IF v \in Running /\ size <= MaxMem
          THEN /\ balloon' = [balloon EXCEPT ![v] = new]
               /\ host_free' = host_free - (new - balloon[v])
          ELSE UNCHANGED <<balloon, host_free>>

-----------------------------------------------------------------------------
(* main and MemoryScheduler *)

Return ==
    /\ pc = "loop"
    /\ is_exit
    /\ pc' = "returned"
    /\ UNCHANGED <<vmvars, is_exit, doms, readings, plan, next>>

get_active_vm ==
    /\ pc = "loop"
    /\ ~is_exit
    /\ doms' = domains
    /\ pc' = "stats"
    /\ UNCHANGED <<vmvars, is_exit, readings, plan, next>>

AllListedRun == \A i \in 1 .. Len(doms) : doms[i] \in Running

\* A VM that has stopped since it was listed cannot be queried: exit(1).
MemStatsFail ==
    /\ pc = "stats"
    /\ ~AllListedRun
    /\ pc' = "exit"
    /\ UNCHANGED <<vmvars, is_exit, doms, readings, plan, next>>

get_mem_stats ==
    /\ pc = "stats"
    /\ AllListedRun
    /\ unused_mems' = [i \in 1 .. Len(doms) |-> balloon[doms[i]] - used[doms[i]]]
    /\ balloon_mems' = [i \in 1 .. Len(doms) |-> balloon[doms[i]]]
    /\ pc' = "decide"
    /\ UNCHANGED <<vmvars, is_exit, doms, host_mem_avail, plan, next>>

\* virDomainGetMaxMemory gives 0 for a VM that is gone.
max_mem(i) == IF doms[i] \in Running THEN MaxMem ELSE 0

\* A bug: a VM may not reach its maximum.
LackingBelowMax == {i \in 1 .. Len(doms) : /\ unused_mems[i] < unused_mem_low
                                           /\ max_mem(i) > balloon_mems[i] + mem_alloc_unit}

\* The VMs with vm_status 1 and with vm_status 0.
Lacking == {i \in 1 .. Len(doms) : /\ unused_mems[i] < unused_mem_low
                                   /\ max_mem(i) >= balloon_mems[i] + mem_alloc_unit}
Spare == {i \in 1 .. Len(doms) : unused_mems[i] > unused_mem_high}

mem_needed == mem_alloc_unit * Cardinality(Lacking)
mem_avail == mem_alloc_unit * Cardinality(Spare)

\* A bug: the host may be left with less than host_mem_low.
HostCoversIgnoresLow(host) == (host - (mem_needed - mem_avail)) % ULLRange >= 0

\* The check of the host, in unsigned arithmetic.
HostCovers(host) == (host - (mem_needed - mem_avail)) % ULLRange >= host_mem_low

\* Who gets memory: all that lack it, or the first ones in the list while
\* mem_avail lasts.
Served(host) ==
    IF mem_needed <= mem_avail \/ HostCovers(host)
      THEN Lacking
      ELSE {i \in Lacking :
              mem_alloc_unit * Cardinality({j \in Lacking : j < i}) < mem_avail}

\* 0 is taken for a failed query.
get_host_mem == IF host_free > 0 THEN host_free ELSE 0

HostMemFails ==
    /\ pc = "decide"
    /\ get_host_mem = 0
    /\ pc' = "exit"
    /\ UNCHANGED <<vmvars, is_exit, doms, readings, plan, next>>

Decide ==
    /\ pc = "decide"
    /\ get_host_mem # 0
    /\ host_mem_avail' = get_host_mem
    /\ plan' = [i \in Spare \cup Served(get_host_mem) |->
                  IF i \in Spare THEN balloon_mems[i] - mem_alloc_unit
                                 ELSE balloon_mems[i] + mem_alloc_unit]
    /\ pc' = "set"
    /\ UNCHANGED <<vmvars, is_exit, doms, unused_mems, balloon_mems, next>>

\* A bug: i <= n_vms.
SetPastEnd ==
    /\ pc = "set"
    /\ next <= Len(doms) + 1
    /\ IF next \in DOMAIN plan THEN SetMemory(doms[next], plan[next])
                               ELSE UNCHANGED <<balloon, host_free>>
    /\ next' = next + 1
    /\ UNCHANGED <<domains, changes, used, pc, is_exit, doms, readings, plan>>

\* One VM of the last loop; errors of virDomainSetMemory are not looked at.
Set ==
    /\ pc = "set"
    /\ next <= Len(doms)
    /\ IF next \in DOMAIN plan THEN SetMemory(doms[next], plan[next])
                               ELSE UNCHANGED <<balloon, host_free>>
    /\ next' = next + 1
    /\ UNCHANGED <<domains, changes, used, pc, is_exit, doms, readings, plan>>

\* The arrays are freed, and main sleeps until the next interval.
Finished ==
    /\ pc = "set"
    /\ next > Len(doms)
    /\ pc' = "loop"
    /\ doms' = <<>>
    /\ unused_mems' = Nothing /\ balloon_mems' = Nothing /\ host_mem_avail' = 0
    /\ plan' = Nothing /\ next' = 1
    /\ UNCHANGED <<vmvars, is_exit>>

Coordinator ==
    \/ Return \/ get_active_vm \/ MemStatsFail \/ get_mem_stats
    \/ HostMemFails \/ Decide \/ Set \/ Finished

Next ==
    \/ Coordinator
    \/ Interrupt
    \/ \E v \in VMs : Start(v) \/ Stop(v) \/ GuestUses(v)

\* The coordinator keeps being scheduled.
Spec == Init /\ [][Next]_vars /\ WF_vars(Coordinator)

-----------------------------------------------------------------------------
(* Properties *)

Grown == {i \in DOMAIN plan : plan[i] > balloon_mems[i]}
Shrunk == {i \in DOMAIN plan : plan[i] < balloon_mems[i]}

\* What an interval takes from the host over what it gets back from VMs
\* leaves the host its reserve, as read at the start of the interval.  The
\* exception is the code's: when the host has less than is taken, the unsigned
\* subtraction of memory_coordinator.c:160 wraps and the check passes.
HostReserve ==
    pc = "set" =>
        LET taken == mem_alloc_unit * (Cardinality(Grown) - Cardinality(Shrunk))
        IN  \/ taken <= 0
            \/ host_mem_avail - taken >= host_mem_low
            \/ host_mem_avail < taken

\* Nobody to serve: every VM that still lacks memory is at its maximum, or no VM
\* has memory to spare and the host cannot cover all that lack it.
Settled ==
    LET lacks == {v \in Running : /\ balloon[v] - used[v] < unused_mem_low
                                  /\ balloon[v] + mem_alloc_unit <= MaxMem}
        spares == {v \in Running : balloon[v] - used[v] > unused_mem_high}
    IN  \/ lacks = {}
        \/ /\ spares = {}
           /\ host_free - mem_alloc_unit * Cardinality(lacks) < host_mem_low

\* When the load stops changing, this is what the coordinator must end up with.
AtRest == Settled \/ pc \in {"exit", "returned"}

=============================================================================
