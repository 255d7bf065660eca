----------------------------- MODULE Hypervisor -----------------------------
(***************************************************************************)
(* What the two programs of project1-1 see of libvirt: the list of running *)
(* domains, which VMs join and leave while the programs look at it.        *)
(* External: modelled from how cpu/src/vcpu_scheduler.c and                *)
(* memory/src/memory_coordinator.c use it.                                 *)
(***************************************************************************)
EXTENDS Integers, Sequences, FiniteSets

CONSTANTS NumVMs,       \* VMs defined on the host
          NumBoot,      \* how many of them run at first
          ULLRange,     \* the values of an unsigned long long: 2^64 in the code
          MaxChanges    \* bound: how often VMs start, stop or change their load

ASSUME HypervisorAssumption ==
    /\ NumVMs \in Nat /\ NumBoot \in 0 .. NumVMs
    /\ ULLRange \in Nat \ {0}
    /\ MaxChanges \in Nat

VMs == 1 .. NumVMs

VARIABLES domains,  \* the running VMs in the order libvirt lists them
          changes   \* how much has changed so far

\* VMs are alike before the programs look at them: one order stands for all.
HypervisorInit == domains = [i \in 1 .. NumBoot |-> i] /\ changes = 0

Running == {domains[i] : i \in 1 .. Len(domains)}

Change == changes < MaxChanges /\ changes' = changes + 1

\* A VM appears anywhere in the list, which has no order to rely on.
StartVM(v) ==
    /\ v \notin Running
    /\ Change
    /\ \E k \in 0 .. Len(domains) :
         domains' = SubSeq(domains, 1, k) \o <<v>> \o SubSeq(domains, k + 1, Len(domains))

StopVM(v) ==
    /\ v \in Running
    /\ Change
    /\ \E k \in 1 .. Len(domains) :
         /\ domains[k] = v
         /\ domains' = SubSeq(domains, 1, k - 1) \o SubSeq(domains, k + 1, Len(domains))

=============================================================================
