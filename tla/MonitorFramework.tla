--------------------------- MODULE MonitorFramework ---------------------------
(***************************************************************************)
(* The wait states of a reconciler: StartMonitor, CancelMonitor and the    *)
(* goroutine of a Monitor (internal/controller/manager/manager.go and      *)
(* monitor.go), together with the part of Reconcile that uses them.        *)
(*                                                                         *)
(* A Reconcile that cannot proceed starts a monitor and returns            *)
(* WaitForMonitor, which HandleReconcilerError turns into RetryNever: the  *)
(* work queue will not offer the object again.  From then on only the      *)
(* monitor's goroutine can wake the reconciler, by updating an annotation  *)
(* of the object.  It polls a condition of the target system through the   *)
(* platform client.                                                        *)
(*                                                                         *)
(* What a step is.  StartMonitor, CancelMonitor and GetPlatformClient take *)
(* the manager's lock and are one step each.  Run reads the system in one  *)
(* step and notify updates the object in a later one, so a monitor can be  *)
(* stopped between the two.  The reconciler reads the condition in one     *)
(* step and starts the monitor in a later one.                             *)
(*                                                                         *)
(* An object is a Kubernetes UID, as in BuildMonitorKey: it can be deleted *)
(* but not come back.  The work queue is controller-runtime's: an object   *)
(* that is added while it is reconciled is offered again afterwards, and   *)
(* one worker serves a controller's objects.  A delayed retry is a member  *)
(* of the queue whose turn comes later.                                    *)
(***************************************************************************)
EXTENDS Naturals, FiniteSets

CONSTANTS
  Objects,     \* UIDs of the resources of one controller
  Goroutines,  \* monitor goroutines that can be known at once (a bound)
  None,        \* no object, no goroutine
  MaxFaults,   \* bounds the requests that fail
  MaxRestarts  \* bounds the restarts of the Deployment Manager

ASSUME ConstantsAssumption ==
  /\ None \notin Objects /\ None \notin Goroutines
  /\ MaxFaults \in Nat /\ MaxRestarts \in Nat

VARIABLES
  life,      \* of each object: "new" (not yet created), "live", "deleted"
  queued,    \* objects in the controller's work queue
  worker,    \* the object being reconciled
  workerPc,
  parked,    \* objects whose last Reconcile returned RetryNever
  monitors,  \* m.monitors
  gpc,       \* where each goroutine is; "off" has exited or was not started
  object,    \* Monitor.Object
  stopped,   \* goroutines whose stop channel is closed
  met,       \* objects whose awaited condition holds in the system
  client,    \* GetPlatformClient(namespace) # nil
  faults,
  restarts

queueVars   == <<life, queued, worker, workerPc, parked>>
monitorVars == <<monitors, gpc, object, stopped>>
envVars     == <<met, client, faults, restarts>>
vars == <<queueVars, monitorVars, envVars>>

GPcs == {"off", "select", "run", "notify"}
WPcs == {"idle", "get", "cancel", "body", "start", "return"}

Live == {o \in Objects : life[o] = "live"}

Init ==
  /\ life \in [Objects -> {"new", "live"}]
  /\ queued = Live
  /\ worker = None /\ workerPc = "idle"
  /\ parked = {}
  /\ monitors = [o \in Objects |-> None]
  /\ gpc = [g \in Goroutines |-> "off"]
  /\ object = [g \in Goroutines |-> None]
  /\ stopped = {}
  /\ met \in SUBSET Objects
  /\ client \in BOOLEAN
  /\ faults = 0 /\ restarts = 0

\* A request fails.
Fault ==
  /\ faults < MaxFaults
  /\ faults' = faults + 1

-----------------------------------------------------------------------------
(* The environment.                                                        *)

\* The object is created or its spec changes, or the informer resyncs.
ObjectEvent(o) ==
  /\ life[o] # "deleted"
  /\ life' = [life EXCEPT ![o] = "live"]
  /\ queued' = queued \cup {o}
  /\ UNCHANGED <<worker, workerPc, parked, monitorVars, envVars>>

Delete(o) ==
  /\ life[o] = "live"
  /\ life' = [life EXCEPT ![o] = "deleted"]
  /\ queued' = queued \cup {o}
  /\ UNCHANGED <<worker, workerPc, parked, monitorVars, envVars>>

\* The target system changes.
ConditionChanges(o) ==
  /\ \/ o \in met /\ met' = met \ {o}
     \/ o \notin met /\ met' = met \cup {o}
  /\ UNCHANGED <<queueVars, monitorVars, client, faults, restarts>>

\* The System controller builds the client; any controller's error resets it.
ClientChanges ==
  /\ client' = ~client
  /\ UNCHANGED <<queueVars, monitorVars, met, faults, restarts>>

\* The process restarts: goroutines are gone and every object is offered again.
Restart ==
  /\ restarts < MaxRestarts
  /\ restarts' = restarts + 1
  /\ queued' = Live
  /\ worker' = None /\ workerPc' = "idle"
  /\ parked' = {}
  /\ monitors' = [o \in Objects |-> None]
  /\ gpc' = [g \in Goroutines |-> "off"]
  /\ object' = [g \in Goroutines |-> None]
  /\ stopped' = {}
  /\ client' = FALSE
  /\ UNCHANGED <<life, met, faults>>

-----------------------------------------------------------------------------
(* Reconcile.                                                              *)

WorkerGoto(from, to) == workerPc = from /\ workerPc' = to

\* Reconcile returns and nothing will offer the object again.
NoRetry ==
  /\ worker' = None /\ workerPc' = "idle"
  /\ UNCHANGED queued

\* Reconcile returns an error or a result that requeues the object.
Retry ==
  /\ worker' = None /\ workerPc' = "idle"
  /\ queued' = queued \cup {worker}

TakeRequest(o) ==
  /\ o \in queued
  /\ WorkerGoto("idle", "get")
  /\ worker' = o
  /\ queued' = queued \ {o}
  /\ parked' = parked \ {o}
  /\ UNCHANGED <<life, monitorVars, envVars>>

\* r.Get(...): an object that is gone needs no work, and its monitor, if it has
\* one, is left running.
FetchInstance ==
  /\ workerPc = "get"
  /\ \/ /\ life[worker] = "live"
        /\ WorkerGoto("get", "cancel")
        /\ UNCHANGED <<worker, queued, faults>>
     \/ life[worker] = "deleted" /\ NoRetry /\ UNCHANGED faults
     \/ Fault /\ Retry
  /\ UNCHANGED <<life, parked, monitorVars, met, client, restarts>>

\* Mutant of CancelMonitor: the entry is deleted, the goroutine not stopped.
CancelWithoutStop ==
  /\ WorkerGoto("cancel", "body")
  /\ monitors' = [monitors EXCEPT ![worker] = None]
  /\ UNCHANGED <<life, queued, worker, parked, gpc, object, stopped, envVars>>

\* Mutant of CancelMonitor: the missing entry is not tested for.
CancelUnchecked ==
  /\ WorkerGoto("cancel", "body")
  /\ stopped' = stopped \cup {monitors[worker]}
  /\ monitors' = [monitors EXCEPT ![worker] = None]
  /\ UNCHANGED <<life, queued, worker, parked, gpc, object, envVars>>

\* The entry's goroutine may have exited already.
CancelMonitor ==
  /\ WorkerGoto("cancel", "body")
  /\ stopped' = stopped \cup ({monitors[worker]} \ {None})
  /\ monitors' = [monitors EXCEPT ![worker] = None]
  /\ UNCHANGED <<life, queued, worker, parked, gpc, object, envVars>>

\* The reconciler reads the system.  It is done, or fails and is retried, as it
\* is without a client, or finds that it has to wait.
ReconcileResource ==
  /\ workerPc = "body"
  /\ \/ client /\ worker \in met /\ NoRetry /\ UNCHANGED faults
     \/ ~client /\ Retry /\ UNCHANGED faults
     \/ Fault /\ Retry
     \/ /\ client /\ worker \notin met
        /\ WorkerGoto("body", "start")
        /\ UNCHANGED <<worker, queued, faults>>
  /\ UNCHANGED <<life, parked, monitorVars, met, client, restarts>>

\* A Monitor that nobody refers to.
Unused(g) == gpc[g] = "off" /\ \A o \in Objects : monitors[o] # g

\* The map entry is overwritten; a goroutine it named would not be stopped.
StartMonitor(g) ==
  /\ Unused(g)
  /\ WorkerGoto("start", "return")
  /\ monitors' = [monitors EXCEPT ![worker] = g]
  /\ gpc' = [gpc EXCEPT ![g] = "select"]
  /\ object' = [object EXCEPT ![g] = worker]
  /\ stopped' = stopped \ {g}
  /\ UNCHANGED <<life, queued, worker, parked, envVars>>

\* HandleReconcilerError(WaitForMonitor); but an error of the status update that
\* comes before it is what ReconcileResource returns then.
ReturnWaiting ==
  /\ workerPc = "return"
  /\ \/ NoRetry /\ parked' = parked \cup {worker} /\ UNCHANGED faults
     \/ Fault /\ Retry /\ UNCHANGED parked
  /\ UNCHANGED <<life, monitorVars, met, client, restarts>>

-----------------------------------------------------------------------------
(* The goroutine of a monitor.                                             *)

Goto(g, from, to) == gpc[g] = from /\ gpc' = [gpc EXCEPT ![g] = to]

\* case <-stopCh
Terminate(g) ==
  /\ g \in stopped
  /\ Goto(g, "select", "off")
  /\ UNCHANGED <<queueVars, monitors, object, stopped, envVars>>

\* Mutant of Wake: without a client the goroutine returns.
WakeOrExit(g) ==
  /\ Goto(g, "select", IF client THEN "run" ELSE "off")
  /\ UNCHANGED <<queueVars, monitors, object, stopped, envVars>>

\* case <-time.After(interval): chosen at random when the channel is closed too.
\* Without a client the loop just goes round.
Wake(g) ==
  /\ client
  /\ Goto(g, "select", "run")
  /\ UNCHANGED <<queueVars, monitors, object, stopped, envVars>>

\* Run: stop, or an error, and notify the reconciler; otherwise keep polling.
Run(g) ==
  /\ \/ object[g] \in met /\ Goto(g, "run", "notify") /\ UNCHANGED faults
     \/ Fault /\ Goto(g, "run", "notify")
     \/ object[g] \notin met /\ Goto(g, "run", "select") /\ UNCHANGED faults
  /\ UNCHANGED <<queueVars, monitors, object, stopped, met, client, restarts>>

\* Mutant of Notify: the goroutine exits whether or not it could notify.
NotifyOnce(g) ==
  /\ gpc[g] = "notify"
  /\ Goto(g, "notify", "off")
  /\ \/ /\ life[object[g]] = "live"
        /\ queued' = queued \cup {object[g]}
        /\ UNCHANGED faults
     \/ Fault /\ UNCHANGED queued
  /\ UNCHANGED <<life, worker, workerPc, parked, monitors, object, stopped,
                 met, client, restarts>>

\* notify: exit if the object was updated or is not found; otherwise poll on.  An
\* update whose answer is lost may have been made.
Notify(g) ==
  /\ gpc[g] = "notify"
  /\ \/ /\ life[object[g]] = "live"
        /\ queued' = queued \cup {object[g]}
        /\ Goto(g, "notify", "off")
        /\ UNCHANGED faults
     \/ /\ life[object[g]] = "deleted"
        /\ Goto(g, "notify", "off")
        /\ UNCHANGED <<queued, faults>>
     \/ /\ Fault
        /\ Goto(g, "notify", "select")
        /\ \/ UNCHANGED queued
           \/ life[object[g]] = "live" /\ queued' = queued \cup {object[g]}
  /\ UNCHANGED <<life, worker, workerPc, parked, monitors, object, stopped,
                 met, client, restarts>>

-----------------------------------------------------------------------------
ReconcileStep ==
  \/ \E o \in Objects : TakeRequest(o)
  \/ FetchInstance \/ CancelMonitor \/ ReconcileResource
  \/ \E g \in Goroutines : StartMonitor(g)
  \/ ReturnWaiting

GoroutineStep(g) == Terminate(g) \/ Wake(g) \/ Run(g) \/ Notify(g)

Environment ==
  \/ \E o \in Objects : ObjectEvent(o) \/ Delete(o) \/ ConditionChanges(o)
  \/ ClientChanges
  \/ Restart

Next ==
  \/ ReconcileStep
  \/ \E g \in Goroutines : GoroutineStep(g)
  \/ Environment

Spec == Init /\ [][Next]_vars

\* The work queue offers every object it holds, whatever else is added, and its
\* worker runs; the runtime schedules every goroutine, and its timer fires as
\* often as the client comes and goes.
Fairness ==
  /\ \A o \in Objects : SF_vars(TakeRequest(o))
  /\ WF_vars(FetchInstance \/ CancelMonitor \/ ReconcileResource \/ ReturnWaiting)
  /\ WF_vars(\E g \in Goroutines : StartMonitor(g))
  /\ \A g \in Goroutines : /\ SF_vars(Terminate(g)) /\ SF_vars(Wake(g))
                           /\ WF_vars(Run(g)) /\ WF_vars(Notify(g))

FairSpec == Spec /\ Fairness

-----------------------------------------------------------------------------
(* Properties.                                                             *)

\* Every variable has a value its Go counterpart can have.
TypeOK ==
  /\ life \in [Objects -> {"new", "live", "deleted"}]
  /\ queued \in SUBSET Objects
  /\ workerPc \in WPcs
  /\ worker \in Objects \cup {None}
  /\ worker = None <=> workerPc = "idle"
  /\ parked \in SUBSET Objects
  /\ monitors \in [Objects -> Goroutines \cup {None}]
  /\ gpc \in [Goroutines -> GPcs]
  /\ object \in [Goroutines -> Objects \cup {None}]
  /\ \A g \in Goroutines : gpc[g] # "off" => object[g] # None
  /\ stopped \in SUBSET Goroutines
  /\ met \in SUBSET Objects
  /\ client \in BOOLEAN
  /\ faults \in Nat /\ restarts \in Nat

\* Goroutine g polls for object o and nobody told it to stop.
Watches(g, o) == gpc[g] # "off" /\ object[g] = o /\ g \notin stopped

\* An object whose reconciler waits, and will not be offered by the queue, has a
\* goroutine that will wake it.  No order of cancel, start, poll, notification
\* and failed update leaves it waiting for nobody.
NoLostWakeup ==
  \A o \in parked :
    life[o] = "live" => o \in queued \/ \E g \in Goroutines : Watches(g, o)

\* At most one goroutine that was not told to stop polls for an object, although
\* StartMonitor overwrites the map entry without a look at it: otherwise no one
\* could stop the older of the two.
SingleMonitor ==
  \A g, h \in Goroutines :
    \A o \in Objects : Watches(g, o) /\ Watches(h, o) => g = h

\* The wait states that an object goes through, as WaitStates has them.
WaitState(o) ==
  IF o \notin parked \/ life[o] # "live" THEN "none"
  ELSE IF o \in queued THEN "offered"
  ELSE IF \E g \in Goroutines : Watches(g, o) THEN "watched"
  ELSE "lost"

W == INSTANCE WaitStates WITH wait <- [o \in Objects |-> WaitState(o)],
                              gone <- {o \in Objects : life[o] = "deleted"}

\* The framework implements WaitStates: no order of StartMonitor, CancelMonitor,
\* polls, notifications, failed updates and events of the object ends a wait but
\* by an offer, a deletion or a restart.
ImplementsWaitStates == W!Spec

\* Once the awaited condition holds for good and the platform client is there, an
\* existing object does not stay in its wait state, whatever was lost before.
WaitEnds ==
  \A o \in Objects :
    (<>[](o \in met /\ client)) => <>[](o \notin parked \/ life[o] = "deleted")

=============================================================================
