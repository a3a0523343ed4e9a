---------------------------- MODULE PlatformClient ----------------------------
(***************************************************************************)
(* The hand-shake between the System controller and the controllers that   *)
(* depend on it: the platform client and the ready flag of SystemNamespace *)
(* (internal/controller/manager), HandleReconcilerError (common/common.go) *)
(* and the first gates of every Reconcile.                                 *)
(*                                                                         *)
(* The System controller alone builds the platform client and declares the *)
(* system ready; any controller whose request failed resets the client and *)
(* notifies the System controller.  A dependent that finds no client is    *)
(* retried after 2 s; one that finds the system not ready is NOT retried   *)
(* (RetrySystemNotReady): it relies on NotifySystemDependencies.           *)
(*                                                                         *)
(* What a step is.  Each accessor of the manager takes its lock.           *)
(* ResetPlatformClient holds the lock over its update of the System, so it *)
(* is one step.  NotifySystemDependencies holds no lock: every update of a *)
(* dependent is a step.                                                    *)
(*                                                                         *)
(* Simplifications.  One dependent stands for a controller and its object. *)
(* Errors are grouped by what HandleReconcilerError does with them:        *)
(*   "reset"    url.Error, ErrUnableToReauthenticate, HTTPSClientRequired: *)
(*              reset the client and retry;                                *)
(*   "wait"     WaitForMonitor, ValidationError, ChangeAfterReconciled: no *)
(*              retry, a monitor or the user will cause the next event;    *)
(*   "requeue"  all others.                                                *)
(* A failed connection to the Kubernetes API is a url.Error too, so a      *)
(* "reset" error does not mean that the platform client is unusable.       *)
(***************************************************************************)
EXTENDS Naturals, FiniteSets

CONSTANTS
  Dependents,   \* resources of the kinds in systemDependencies
  System,       \* the System resource
  MaxFaults,    \* bounds the failed requests and the losses of the server
  MaxRestarts,  \* bounds the restarts of the Deployment Manager
  NotifyFaults  \* whether NotifySystemController can fail

ASSUME ConstantsAssumption ==
  /\ System \notin Dependents
  /\ MaxFaults \in Nat /\ MaxRestarts \in Nat
  /\ NotifyFaults \in BOOLEAN

VARIABLES
  client,    \* SystemNamespace.client: "nil", "good", or "broken" (in use but
             \* no longer accepted by the server)
  known,     \* m.systems has an entry for the namespace
  ready,     \* SystemNamespace.ready
  queued,    \* resources in their controllers' work queues, delayed ones too
  created,   \* dependents that exist
  parked,    \* dependents that returned RetrySystemNotReady
  done,      \* dependents whose last Reconcile succeeded
  pc,        \* where the Reconcile of each dependent is
  held,      \* platformClient, as each Reconcile read it
  sysPc,     \* where the Reconcile of the System is
  sysHeld,
  sysError,  \* what ReconcileResource will return
  todo,      \* dependents NotifySystemDependencies has still to update
  sysWaits,  \* the System's last Reconcile ended in a "wait" error
  faults,
  restarts

managerVars == <<client, known, ready>>
depVars     == <<created, parked, done, pc, held>>
sysVars     == <<sysPc, sysHeld, sysError, todo, sysWaits>>
boundVars   == <<faults, restarts>>
vars == <<managerVars, queued, depVars, sysVars, boundVars>>

Clients == {"nil", "good", "broken"}
Errors  == {"none", "reset", "wait", "requeue"}
DepPcs  == {"idle", "client", "ready", "body", "reset"}
SysPcs  == {"idle", "client", "build", "renotify", "body", "setReady",
            "notify", "revert", "finish"}

Init ==
  /\ client = "nil" /\ known = FALSE /\ ready = FALSE
  /\ created \in SUBSET Dependents
  /\ queued = created \cup {System}
  /\ parked = {} /\ done = {}
  /\ pc = [d \in Dependents |-> "idle"]
  /\ held = [d \in Dependents |-> "nil"]
  /\ sysPc = "idle" /\ sysHeld = "nil" /\ sysError = "none"
  /\ todo = {} /\ sysWaits = FALSE
  /\ faults = 0 /\ restarts = 0

\* A request fails.
Fault ==
  /\ faults < MaxFaults
  /\ faults' = faults + 1

NoFault == UNCHANGED faults

-----------------------------------------------------------------------------
(* The error handler.                                                      *)

\* Mutant of ResetPlatformClient: the System is not notified.
ResetWithoutNotify(also) ==
  /\ client' = "nil"
  /\ queued' = queued \cup also

\* ResetPlatformClient and its NotifySystemController: the entry loses its client
\* whether or not the System could be notified; `also` is queued as well.
ResetPlatformClient(also) ==
  \/ /\ client = "nil"
     /\ queued' = queued \cup also
     /\ UNCHANGED client
  \/ /\ client # "nil" /\ client' = "nil"
     /\ \/ queued' = queued \cup also \cup {System}
        \/ NotifyFaults /\ queued' = queued \cup also

\* HandleReconcilerError(request for x, error).  Its own failure to reset the
\* client is only logged.
HandleReconcilerError(x, error) ==
  \/ error \in {"none", "wait"} /\ UNCHANGED <<client, queued>>
  \/ error = "requeue" /\ queued' = queued \cup {x} /\ UNCHANGED client
  \/ error = "reset" /\ ResetPlatformClient({x})

-----------------------------------------------------------------------------
(* Reconcile of a dependent.                                               *)

Goto(d, from, to) == pc[d] = from /\ pc' = [pc EXCEPT ![d] = to]

DepTake(d) ==
  /\ d \in queued
  /\ Goto(d, "idle", "client")
  /\ queued' = queued \ {d}
  /\ parked' = parked \ {d}
  /\ done' = done \ {d}
  /\ UNCHANGED <<managerVars, created, held, sysVars, boundVars>>

\* Mutant of DepGetClient: the client is not tested.
DepSkipsClientTest(d) ==
  /\ Goto(d, "client", "ready")
  /\ held' = [held EXCEPT ![d] = client]
  /\ UNCHANGED <<managerVars, queued, created, parked, done, sysVars, boundVars>>

\* Mutant of DepGetClient: no retry, the System's notification is relied upon.
DepWaitsForClient(d) ==
  /\ \/ /\ client # "nil"
        /\ Goto(d, "client", "ready")
        /\ held' = [held EXCEPT ![d] = client]
     \/ /\ client = "nil"
        /\ Goto(d, "client", "idle")
        /\ UNCHANGED held
  /\ UNCHANGED <<managerVars, queued, created, parked, done, sysVars, boundVars>>

\* GetPlatformClient; RetryMissingClient when there is none.
DepGetClient(d) ==
  /\ \/ /\ client # "nil"
        /\ Goto(d, "client", "ready")
        /\ held' = [held EXCEPT ![d] = client]
        /\ UNCHANGED queued
     \/ /\ client = "nil"
        /\ Goto(d, "client", "idle")
        /\ queued' = queued \cup {d}
        /\ UNCHANGED held
  /\ UNCHANGED <<managerVars, created, parked, done, sysVars, boundVars>>

\* GetSystemReady; RetrySystemNotReady when it is not.
DepGetReady(d) ==
  /\ \/ ready /\ Goto(d, "ready", "body") /\ UNCHANGED <<held, parked>>
     \/ /\ ~ready
        /\ Goto(d, "ready", "idle")
        /\ held' = [held EXCEPT ![d] = "nil"]
        /\ parked' = parked \cup {d}
  /\ UNCHANGED <<managerVars, queued, created, done, sysVars, boundVars>>

\* ReconcileResource, and the errors that do not touch the client.
DepReconcile(d) ==
  /\ \/ /\ held[d] = "good" /\ NoFault
        /\ Goto(d, "body", "idle")
        /\ held' = [held EXCEPT ![d] = "nil"]
        /\ done' = done \cup {d}
        /\ UNCHANGED queued
     \/ /\ Fault
        /\ Goto(d, "body", "idle")
        /\ held' = [held EXCEPT ![d] = "nil"]
        /\ queued' = queued \cup {d}
        /\ UNCHANGED done
     \/ /\ Fault \/ (held[d] = "broken" /\ NoFault)
        /\ Goto(d, "body", "reset")
        /\ UNCHANGED <<held, queued, done>>
  /\ UNCHANGED <<managerVars, created, parked, sysVars, restarts>>

\* The client may have been rebuilt since this Reconcile read it.
DepReset(d) ==
  /\ Goto(d, "reset", "idle")
  /\ HandleReconcilerError(d, "reset")
  /\ held' = [held EXCEPT ![d] = "nil"]
  /\ UNCHANGED <<known, ready, created, parked, done, sysVars, boundVars>>

-----------------------------------------------------------------------------
(* Reconcile of the System.                                                *)

SysGoto(from, to) == sysPc = from /\ sysPc' = to

SysTake ==
  /\ System \in queued
  /\ SysGoto("idle", "client")
  /\ queued' = queued \ {System}
  /\ sysWaits' = FALSE
  /\ UNCHANGED <<managerVars, depVars, sysHeld, sysError, todo, boundVars>>

SysGetClient ==
  /\ sysHeld' = client
  /\ SysGoto("client", IF client = "nil" THEN "build" ELSE "body")
  /\ UNCHANGED <<managerVars, queued, depVars, sysError, todo, sysWaits,
                 boundVars>>

\* BuildPlatformClient, and the notification of the dependents if the system was
\* ready before; every error on the way to it, and of it, is retried.
SysBuild ==
  /\ \/ /\ NoFault
        /\ client' = "good" /\ sysHeld' = "good" /\ known' = TRUE
        /\ SysGoto("build", IF ready THEN "renotify" ELSE "body")
        /\ todo' = IF ready THEN Dependents ELSE {}
        /\ UNCHANGED <<queued, sysError>>
     \/ /\ Fault
        /\ SysGoto("build", "finish")
        /\ sysError' \in {"requeue", "reset"}
        /\ UNCHANGED <<client, sysHeld, known, queued, todo>>
  /\ UNCHANGED <<ready, depVars, sysWaits, restarts>>

\* Mutant of SysNotifyOne: a failed notification leaves the system ready.
SysNotifyKeepsReady(d) ==
  /\ sysPc \in {"renotify", "notify"}
  /\ d \in todo
  /\ \/ /\ NoFault
        /\ todo' = todo \ {d}
        /\ queued' = IF d \in created THEN queued \cup {d} ELSE queued
        /\ UNCHANGED <<sysPc, sysError>>
     \/ /\ Fault
        /\ todo' = {}
        /\ sysPc' = "finish"
        /\ sysError' \in {"requeue", "reset"}
        /\ UNCHANGED queued
  /\ UNCHANGED <<managerVars, depVars, sysHeld, sysWaits, restarts>>

\* One update of notifyControllers; kinds are listed one after the other, so that
\* a dependent created meanwhile may be found or not.  An error ends the loop.
SysNotifyOne(d) ==
  /\ sysPc \in {"renotify", "notify"}
  /\ d \in todo
  /\ \/ /\ NoFault
        /\ todo' = todo \ {d}
        /\ queued' = IF d \in created THEN queued \cup {d} ELSE queued
        /\ UNCHANGED <<sysPc, sysError>>
     \/ /\ Fault
        /\ todo' = {}
        /\ sysPc' = IF sysPc = "notify" THEN "revert" ELSE "finish"
        /\ sysError' \in {"requeue", "reset"}
        /\ UNCHANGED queued
  /\ UNCHANGED <<managerVars, depVars, sysHeld, sysWaits, restarts>>

SysNotifyDone ==
  /\ todo = {}
  /\ SysGoto("renotify", "body") \/ SysGoto("notify", "finish")
  /\ UNCHANGED <<managerVars, queued, depVars, sysHeld, sysError, todo, sysWaits,
                 boundVars>>

\* ReconcileSystem: whatever its error, the system may be ready for the others;
\* without an error it is.
SysReconcile ==
  /\ \E isReady \in BOOLEAN :
       /\ \/ sysHeld = "good" /\ NoFault /\ isReady /\ sysError' = "none"
          \/ Fault /\ sysError' \in Errors \ {"none"}
          \/ sysHeld = "broken" /\ NoFault /\ sysError' = "reset"
       /\ SysGoto("body", IF isReady /\ ~ready THEN "setReady" ELSE "finish")
  /\ UNCHANGED <<managerVars, queued, depVars, sysHeld, todo, sysWaits, restarts>>

\* SetSystemReady(true), then NotifySystemDependencies.
SysSetReady ==
  /\ SysGoto("setReady", "notify")
  /\ ready' = TRUE
  /\ todo' = Dependents
  /\ UNCHANGED <<client, known, queued, depVars, sysHeld, sysError, sysWaits,
                 boundVars>>

\* Mutant of SysRevert: the error of the notification is not returned.
SysRevertDropsError ==
  /\ SysGoto("revert", "finish")
  /\ ready' = FALSE
  /\ sysError' = "none"
  /\ UNCHANGED <<client, known, queued, depVars, sysHeld, todo, sysWaits,
                 boundVars>>

\* SetSystemReady(false): the notification failed and will be repeated.
SysRevert ==
  /\ SysGoto("revert", "finish")
  /\ ready' = FALSE
  /\ UNCHANGED <<client, known, queued, depVars, sysHeld, sysError, todo,
                 sysWaits, boundVars>>

\* The update of the status, whose error takes the place of ReconcileSystem's,
\* and HandleReconcilerError.
SysFinish ==
  /\ SysGoto("finish", "idle")
  /\ \E error \in Errors :
       /\ \/ error = sysError /\ NoFault
          \/ error = "requeue" /\ Fault
       /\ HandleReconcilerError(System, error)
       /\ sysWaits' = (error = "wait")
  /\ sysHeld' = "nil" /\ sysError' = "none"
  /\ UNCHANGED <<known, ready, depVars, todo, restarts>>

-----------------------------------------------------------------------------
(* The environment.                                                        *)

\* The user creates or changes a dependent.
DepEvent(d) ==
  /\ created' = created \cup {d}
  /\ queued' = queued \cup {d}
  /\ UNCHANGED <<managerVars, parked, done, pc, held, sysVars, boundVars>>

\* The user changes the System, or its monitor notifies it.
SysEvent ==
  /\ System \notin queued
  /\ queued' = queued \cup {System}
  /\ UNCHANGED <<managerVars, depVars, sysVars, boundVars>>

\* The active controller reboots or the credentials change: no client that was
\* built before works any more.
ServerLost ==
  /\ Fault
  /\ LET Broken(c) == IF c = "good" THEN "broken" ELSE c IN
       /\ client' = Broken(client)
       /\ sysHeld' = Broken(sysHeld)
       /\ held' = [d \in Dependents |-> Broken(held[d])]
  /\ UNCHANGED <<known, ready, queued, created, parked, done, pc, sysPc,
                 sysError, todo, sysWaits, restarts>>

Restart ==
  /\ restarts < MaxRestarts
  /\ restarts' = restarts + 1
  /\ client' = "nil" /\ known' = FALSE /\ ready' = FALSE
  /\ queued' = created \cup {System}
  /\ parked' = {} /\ done' = {}
  /\ pc' = [d \in Dependents |-> "idle"]
  /\ held' = [d \in Dependents |-> "nil"]
  /\ sysPc' = "idle" /\ sysHeld' = "nil" /\ sysError' = "none"
  /\ todo' = {} /\ sysWaits' = FALSE
  /\ UNCHANGED <<created, faults>>

-----------------------------------------------------------------------------
DepStep(d) ==
  \/ DepGetClient(d) \/ DepGetReady(d) \/ DepReconcile(d) \/ DepReset(d)

SysStep ==
  \/ SysGetClient \/ SysBuild
  \/ \E d \in Dependents : SysNotifyOne(d)
  \/ SysNotifyDone \/ SysReconcile \/ SysSetReady \/ SysRevert \/ SysFinish

Environment ==
  \/ \E d \in Dependents : DepEvent(d)
  \/ SysEvent \/ ServerLost \/ Restart

Next ==
  \/ \E d \in Dependents : DepTake(d) \/ DepStep(d)
  \/ SysTake \/ SysStep
  \/ Environment

Spec == Init /\ [][Next]_vars

\* Every controller has a worker of its own, which serves its queue.
Fairness ==
  /\ \A d \in Dependents : WF_vars(DepTake(d)) /\ WF_vars(DepStep(d))
  /\ WF_vars(SysTake) /\ WF_vars(SysStep)

FairSpec == Spec /\ Fairness

-----------------------------------------------------------------------------
(* Properties.                                                             *)

\* Every variable has a value its Go counterpart can have, and no Reconcile that
\* passed its gate uses a nil client, although the manager's client can be reset
\* at any time.
TypeOK ==
  /\ client \in Clients
  /\ known \in BOOLEAN /\ ready \in BOOLEAN /\ sysWaits \in BOOLEAN
  /\ queued \in SUBSET (Dependents \cup {System})
  /\ created \in SUBSET Dependents
  /\ parked \in SUBSET Dependents /\ done \in SUBSET Dependents
  /\ pc \in [Dependents -> DepPcs]
  /\ held \in [Dependents -> Clients]
  /\ sysPc \in SysPcs /\ sysHeld \in Clients /\ sysError \in Errors
  /\ \A d \in Dependents : pc[d] \in {"ready", "body", "reset"} => held[d] # "nil"
  /\ sysPc \in {"renotify", "body", "setReady", "notify", "revert"} => sysHeld # "nil"
  /\ todo \in SUBSET Dependents
  /\ faults \in Nat /\ restarts \in Nat

\* A dependent that gave up because the system was not ready, and that the queue
\* will not offer again, waits for a system that is not ready, or is about to be
\* notified, or the flag is about to be taken back.  So no dependent sleeps
\* through the moment the system becomes ready, whichever way its read of the
\* flag and the notifications interleave and whichever notification fails.
NoMissedReady ==
  \A d \in parked \ queued :
    \/ ~ready
    \/ sysPc = "notify" /\ d \in todo
    \/ sysPc = "revert"

\* While the system is not ready, the System controller is at work or will be, or
\* waits for its own monitor or user: a failed notification never leaves the flag
\* reverted with nobody to set it again.
UnreadyIsRetried ==
  ready \/ System \in queued \/ sysPc # "idle" \/ sysWaits

\* A platform client that was reset is built again.
ClientRecovers == (known /\ client = "nil") ~> (client # "nil")

\* When the system stays ready, every dependent is reconciled again and again
\* after whatever loss of the server, reset or stale reset of the client.
DependentsServed ==
  (<>[]ready) => \A d \in Dependents : []<>(d \in created => d \in done)

=============================================================================
