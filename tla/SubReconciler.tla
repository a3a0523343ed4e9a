----------------------------- MODULE SubReconciler -----------------------------
(***************************************************************************)
(* How the sub-reconcilers of a host work (internal/controller/host:       *)
(* networking.go, storage.go, memory.go, processors.go, kernel.go).        *)
(*                                                                         *)
(* ReconcileDisabledHost and ReconcileEnabledHost call them one after the  *)
(* other.  Each compares the profile with its lists in hostInfo, sends one *)
(* request for every difference, and reads those lists again if it sent    *)
(* any.  The first error ends the pass; the next Reconcile starts over     *)
(* with lists that are read again (PopulateHostInfo).  hostInfo is not     *)
(* read again for what another sub-reconciler changes.                     *)
(***************************************************************************)
EXTENDS Naturals, Sequences, FiniteSets

CONSTANT MaxFaults    \* bounds how many requests fail for no reason

ASSUME FaultsAssumption == MaxFaults \in Nat

VARIABLES
  locked,   \* the host is locked and online, or unlocked and available
  stage,    \* the sub-reconciler at work
  done,     \* the requests it has sent
  refused,  \* the sub-reconcilers of which the system has refused a request
  faults,   \* how many requests have failed
  system    \* what the system does where the code has no say:
            \*   uppersFirst: it lists what uses something before what is used
            \*   collocates: an OSD without a journal gets one on its own disk
            \*   takesPaths: it takes the path of a journal for its identifier

passVars == <<locked, stage, done, refused, faults>>

ReconcileDisabledHost ==
  <<"populate", "attributes", "ptpInstances", "processors", "memory", "kernel", "labels",
    "staleRoutes", "staleAddresses", "staleInterfaces", "staleNetworks", "sriov", "vf",
    "ethernet", "bond", "vlan", "addresses", "routes", "monitor", "fileSystemTypes",
    "volumeGroups", "partitions", "physicalVolumes", "nextGroup", "staleOSDs",
    "journals", "osds", "power", "unlock">>

ReconcileEnabledHost ==
  <<"populate", "volumeGroups", "partitions", "physicalVolumes", "nextGroup",
    "journals", "osds", "staleRoutes", "routes", "fileSystemSizes", "end">>

After(s) ==
  LET calls == IF locked THEN ReconcileDisabledHost ELSE ReconcileEnabledHost
      i == CHOOSE i \in 1..Len(calls) : calls[i] = s IN
  calls[i + 1]

NoFault == UNCHANGED faults
Fault == faults < MaxFaults /\ faults' = faults + 1

Advance == stage' = After(stage) /\ done' = {} /\ UNCHANGED <<locked, refused>>
Abort == stage' = "populate" /\ done' = {} /\ UNCHANGED locked

\* It starts a monitor or asks for a retry, and ends the pass.
Waits == stage' = "populate" /\ done' = {} /\ UNCHANGED <<locked, refused, faults>>

\* A sub-reconciler that has `items` to request.  Apply changes the system if it
\* accepts the request; an answer may be lost after the request was served.
Work(items, Accepted(_), Apply(_), sysVars, Refresh, infoVars) ==
  \/ /\ UNCHANGED infoVars
     /\ \E i \in items \ done :
          \/ /\ NoFault /\ Accepted(i) /\ Apply(i)
             /\ done' = done \cup {i} /\ UNCHANGED <<locked, stage, refused>>
          \/ /\ NoFault /\ ~Accepted(i) /\ UNCHANGED sysVars /\ Abort
             /\ refused' = refused \cup {stage}
          \/ /\ Fault /\ Abort /\ UNCHANGED refused
             /\ UNCHANGED sysVars \/ (Accepted(i) /\ Apply(i))
  \/ /\ items \subseteq done /\ UNCHANGED sysVars
     /\ \/ NoFault /\ (IF done = {} THEN UNCHANGED infoVars ELSE Refresh) /\ Advance
        \/ Fault /\ done # {} /\ Abort /\ UNCHANGED <<infoVars, refused>>
====
