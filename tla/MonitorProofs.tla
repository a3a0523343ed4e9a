----------------------------- MODULE MonitorProofs -----------------------------
(***************************************************************************)
(* For any set of objects, goroutines, failures and restarts: the monitor  *)
(* framework keeps its types, an object never waits for nobody, and never  *)
(* has two goroutines that were not told to stop.  Hence it implements     *)
(* WaitStates.                                                             *)
(***************************************************************************)
EXTENDS MonitorFramework, TLAPS

USE DEF GPcs, WPcs

\* Every step of the reconciler, the goroutines and their environment preserves
\* the types.
THEOREM TypeCorrect == Spec => []TypeOK
<1>1. Init => TypeOK
  BY ConstantsAssumption DEF Init, Live, TypeOK
<1>2. TypeOK /\ [Next]_vars => TypeOK'
  <2> SUFFICES ASSUME TypeOK, [Next]_vars PROVE TypeOK'
    OBVIOUS
  <2> USE ConstantsAssumption
      DEF TypeOK, WorkerGoto, Goto, Fault, Retry, NoRetry,
          queueVars, monitorVars, envVars
  <2>1. ASSUME NEW o \in Objects, TakeRequest(o) PROVE TypeOK'
    BY <2>1 DEF TakeRequest
  <2>2. CASE FetchInstance
    BY <2>2 DEF FetchInstance
  <2>3. CASE CancelMonitor
    BY <2>3 DEF CancelMonitor
  <2>4. CASE ReconcileResource
    BY <2>4 DEF ReconcileResource
  <2>5. ASSUME NEW g \in Goroutines, StartMonitor(g) PROVE TypeOK'
    BY <2>5 DEF StartMonitor
  <2>6. CASE ReturnWaiting
    BY <2>6 DEF ReturnWaiting
  <2>7. ASSUME NEW g \in Goroutines, Terminate(g) PROVE TypeOK'
    BY <2>7 DEF Terminate
  <2>8. ASSUME NEW g \in Goroutines, Wake(g) PROVE TypeOK'
    BY <2>8 DEF Wake
  <2>9. ASSUME NEW g \in Goroutines, Run(g) PROVE TypeOK'
    BY <2>9 DEF Run
  <2>10. ASSUME NEW g \in Goroutines, Notify(g) PROVE TypeOK'
    <3>1. queued' \in SUBSET Objects
      BY <2>10 DEF Notify
    <3>2. faults' \in Nat /\ gpc' \in [Goroutines -> GPcs]
      BY <2>10 DEF Notify
    <3> QED BY <2>10, <3>1, <3>2 DEF Notify
  <2>11. ASSUME NEW o \in Objects, ObjectEvent(o) PROVE TypeOK'
    BY <2>11 DEF ObjectEvent
  <2>12. ASSUME NEW o \in Objects, Delete(o) PROVE TypeOK'
    BY <2>12 DEF Delete
  <2>13. ASSUME NEW o \in Objects, ConditionChanges(o) PROVE TypeOK'
    BY <2>13 DEF ConditionChanges
  <2>14. CASE ClientChanges
    BY <2>14 DEF ClientChanges
  <2>15. CASE Restart
    <3>1. queued' \in SUBSET Objects /\ restarts' \in Nat /\ faults' \in Nat
      BY <2>15 DEF Restart, Live
    <3> QED BY <2>15, <3>1 DEF Restart
  <2>16. CASE UNCHANGED vars
    BY <2>16 DEF vars
  <2> QED
    BY <2>1, <2>2, <2>3, <2>4, <2>5, <2>6, <2>7, <2>8, <2>9, <2>10, <2>11,
       <2>12, <2>13, <2>14, <2>15, <2>16
    DEF Next, ReconcileStep, GoroutineStep, Environment
<1> QED
  BY <1>1, <1>2, PTL DEF Spec

-----------------------------------------------------------------------------
\* The map names the goroutine of every object that is watched, and only names
\* goroutines of the object itself; a Reconcile past CancelMonitor has no entry.
MapInv ==
  /\ \A g \in Goroutines : \A o \in Objects : Watches(g, o) => monitors[o] = g
  /\ \A o \in Objects : monitors[o] # None => object[monitors[o]] = o
  /\ workerPc \in {"body", "start"} => monitors[worker] = None

\* The object's reconciler waits, or is about to, with its monitor started.
Waiting(o) == o \in parked \/ (worker = o /\ workerPc = "return")

\* Something will offer the object to the reconciler again.
WakeupDue(o) == o \in queued \/ \E g \in Goroutines : Watches(g, o)

\* The part of the inductive invariant about wait states.
WaitInv ==
  /\ \A o \in parked : worker # o
  /\ \A o \in Objects : Waiting(o) /\ life[o] = "live" => WakeupDue(o)

\* No step breaks the correspondence of map and goroutines.
LEMMA MapStep == TypeOK /\ MapInv /\ [Next]_vars => MapInv'
<1> SUFFICES ASSUME TypeOK, MapInv, [Next]_vars PROVE MapInv'
  OBVIOUS
<1> USE ConstantsAssumption
    DEF TypeOK, MapInv, Watches, WorkerGoto, Goto, Retry, NoRetry,
        queueVars, monitorVars, envVars
<1>1. ASSUME NEW o \in Objects, TakeRequest(o) PROVE MapInv'
  BY <1>1 DEF TakeRequest
<1>2. CASE FetchInstance
  BY <1>2 DEF FetchInstance
<1>3. CASE CancelMonitor
  BY <1>3 DEF CancelMonitor
<1>4. CASE ReconcileResource
  BY <1>4 DEF ReconcileResource
<1>5. ASSUME NEW g \in Goroutines, StartMonitor(g) PROVE MapInv'
  BY <1>5 DEF StartMonitor, Unused
<1>6. CASE ReturnWaiting
  BY <1>6 DEF ReturnWaiting
<1>7. ASSUME NEW g \in Goroutines, Terminate(g) PROVE MapInv'
  BY <1>7 DEF Terminate
<1>8. ASSUME NEW g \in Goroutines, Wake(g) PROVE MapInv'
  BY <1>8 DEF Wake
<1>9. ASSUME NEW g \in Goroutines, Run(g) PROVE MapInv'
  BY <1>9 DEF Run
<1>10. ASSUME NEW g \in Goroutines, Notify(g) PROVE MapInv'
  BY <1>10 DEF Notify
<1>11. CASE Environment /\ ~Restart
  BY <1>11 DEF Environment, ObjectEvent, Delete, ConditionChanges, ClientChanges
<1>12. CASE Restart
  BY <1>12 DEF Restart
<1>13. CASE UNCHANGED vars
  BY <1>13 DEF vars
<1> QED
  BY <1>1, <1>2, <1>3, <1>4, <1>5, <1>6, <1>7, <1>8, <1>9, <1>10, <1>11,
     <1>12, <1>13
  DEF Next, ReconcileStep, GoroutineStep

\* No step leaves a waiting object with nobody to wake it.
LEMMA WaitStep == TypeOK /\ MapInv /\ WaitInv /\ [Next]_vars => WaitInv'
<1> SUFFICES ASSUME TypeOK, MapInv, WaitInv, [Next]_vars PROVE WaitInv'
  OBVIOUS
<1> USE ConstantsAssumption
    DEF TypeOK, WaitInv, Waiting, WakeupDue, Watches, WorkerGoto, Goto, Retry,
        NoRetry, queueVars, monitorVars, envVars
<1>1. ASSUME NEW o \in Objects, TakeRequest(o) PROVE WaitInv'
  BY <1>1 DEF TakeRequest
<1>2. CASE FetchInstance
  BY <1>2 DEF FetchInstance
<1>3. CASE CancelMonitor
  BY <1>3 DEF CancelMonitor, MapInv
<1>4. CASE ReconcileResource
  BY <1>4 DEF ReconcileResource
<1>5. ASSUME NEW g \in Goroutines, StartMonitor(g) PROVE WaitInv'
  BY <1>5 DEF StartMonitor, Unused, MapInv
<1>6. CASE ReturnWaiting
  BY <1>6 DEF ReturnWaiting
<1>7. ASSUME NEW g \in Goroutines, Terminate(g) PROVE WaitInv'
  BY <1>7 DEF Terminate
<1>8. ASSUME NEW g \in Goroutines, Wake(g) PROVE WaitInv'
  BY <1>8 DEF Wake
<1>9. ASSUME NEW g \in Goroutines, Run(g) PROVE WaitInv'
  BY <1>9 DEF Run
<1>10. ASSUME NEW g \in Goroutines, Notify(g) PROVE WaitInv'
  BY <1>10 DEF Notify
<1>11. CASE Environment /\ ~Restart
  BY <1>11 DEF Environment, ObjectEvent, Delete, ConditionChanges, ClientChanges
<1>12. CASE Restart
  BY <1>12 DEF Restart
<1>13. CASE UNCHANGED vars
  BY <1>13 DEF vars
<1> QED
  BY <1>1, <1>2, <1>3, <1>4, <1>5, <1>6, <1>7, <1>8, <1>9, <1>10, <1>11,
     <1>12, <1>13
  DEF Next, ReconcileStep, GoroutineStep

\* The inductive invariant holds throughout.
LEMMA FrameworkInv == Spec => [](MapInv /\ WaitInv)
<1>1. Init => MapInv /\ WaitInv
  BY ConstantsAssumption DEF Init, MapInv, WaitInv, Waiting, Watches
<1>2. TypeOK /\ (MapInv /\ WaitInv) /\ [Next]_vars => (MapInv /\ WaitInv)'
  BY MapStep, WaitStep
<1> QED
  BY <1>1, <1>2, TypeCorrect, PTL DEF Spec

\* An object whose reconciler returned WaitForMonitor, and that the queue will
\* not offer again, has a goroutine that will wake it: no wake-up is ever lost.
THEOREM WakeupNotLost == Spec => []NoLostWakeup
<1>1. TypeOK /\ WaitInv => NoLostWakeup
  BY DEF TypeOK, WaitInv, NoLostWakeup, Waiting, WakeupDue
<1> QED
  BY <1>1, TypeCorrect, FrameworkInv, PTL

\* StartMonitor never overwrites the map entry of a goroutine that still runs:
\* no object has two goroutines that were not told to stop.
THEOREM MonitorSingle == Spec => []SingleMonitor
<1>1. MapInv => SingleMonitor
  BY DEF MapInv, SingleMonitor
<1> QED
  BY <1>1, FrameworkInv, PTL

-----------------------------------------------------------------------------
(* The framework implements WaitStates.                                    *)

Waits == [o \in Objects |-> WaitState(o)]
Gone == {o \in Objects : life[o] = "deleted"}

\* A step that changes no object's wait state and deletes none is a stutter.
LEMMA StutterStep ==
  ASSUME \A p \in Objects : WaitState(p)' = WaitState(p), life' = life
  PROVE  UNCHANGED <<Waits, Gone>>
  BY DEF Waits, Gone

\* A step that changes one object's wait state, and how WaitStates allows it.
LEMMA ObjectStep ==
  ASSUME NEW o \in Objects, UNCHANGED Gone,
         \A p \in Objects : p # o => WaitState(p)' = WaitState(p),
         \/ WaitState(o)' = WaitState(o)
         \/ WaitState(o) = "none" /\ o \notin Gone /\ WaitState(o)' \in {"watched", "offered"}
         \/ WaitState(o) = "watched" /\ WaitState(o)' = "offered"
         \/ WaitState(o) = "offered" /\ WaitState(o)' = "none"
  PROVE  W!Next \/ UNCHANGED <<Waits, Gone>>
<1> DEFINE s == WaitState(o)'
<1>1. Waits' = [Waits EXCEPT ![o] = s] /\ Waits[o] = WaitState(o)
  BY DEF Waits
<1>2. CASE WaitState(o)' = WaitState(o)
  BY <1>2 DEF Waits
<1>3. CASE WaitState(o) = "none" /\ o \notin Gone /\ WaitState(o)' \in {"watched", "offered"}
  BY <1>1, <1>3 DEF W!Next, W!Park, Waits, Gone
<1>4. CASE WaitState(o) = "watched" /\ WaitState(o)' = "offered"
  BY <1>1, <1>4 DEF W!Next, W!Offer, Waits, Gone
<1>5. CASE WaitState(o) = "offered" /\ WaitState(o)' = "none"
  BY <1>1, <1>5 DEF W!Next, W!Resume, Waits, Gone
<1> QED
  BY <1>2, <1>3, <1>4, <1>5

\* A step that deletes an object ends its wait.
LEMMA DeleteStep ==
  ASSUME NEW o \in Objects, Gone' = Gone \cup {o}, WaitState(o)' = "none",
         \A p \in Objects : p # o => WaitState(p)' = WaitState(p)
  PROVE  W!Next
<1>1. Waits' = [Waits EXCEPT ![o] = "none"]
  BY DEF Waits
<1> QED
  BY <1>1 DEF W!Next, W!Delete, Waits, Gone

\* A restart ends every wait.
LEMMA RestartStep ==
  ASSUME UNCHANGED Gone, \A p \in Objects : WaitState(p)' = "none"
  PROVE  W!Next
<1>1. Waits' = [p \in Objects |-> "none"]
  BY DEF Waits
<1> QED
  BY <1>1 DEF W!Next, W!Restart, Waits, Gone

\* Every step of the framework is a step of WaitStates or changes no wait state.
LEMMA WaitStatesStep ==
  TypeOK /\ MapInv /\ WaitInv /\ WaitInv' /\ [Next]_vars
    => W!Next \/ UNCHANGED <<Waits, Gone>>
<1> SUFFICES ASSUME TypeOK, MapInv, WaitInv, WaitInv', [Next]_vars
             PROVE  W!Next \/ UNCHANGED <<Waits, Gone>>
  OBVIOUS
<1> USE ConstantsAssumption
    DEF WorkerGoto, Goto, Retry, NoRetry, queueVars, monitorVars, envVars
<1>1. ASSUME NEW o \in Objects, TakeRequest(o) PROVE W!Next \/ UNCHANGED <<Waits, Gone>>
  <2>1. \A p \in Objects : p # o => WaitState(p)' = WaitState(p)
    BY <1>1 DEF TakeRequest, WaitState, Watches, TypeOK
  <2>2. WaitState(o) \in {"none", "offered"} /\ WaitState(o)' = "none" /\ Gone' = Gone
    BY <1>1 DEF TakeRequest, WaitState, Gone
  <2> QED BY <2>1, <2>2, ObjectStep
<1>2. CASE FetchInstance
  <2>1. \A p \in Objects : WaitState(p)' = WaitState(p)
    BY <1>2 DEF FetchInstance, WaitState, Watches, TypeOK, WaitInv, Waiting
  <2> QED BY <1>2, <2>1, StutterStep DEF FetchInstance
<1>3. CASE CancelMonitor
  <2>1. worker \in Objects /\ worker \notin parked
    BY <1>3 DEF CancelMonitor, TypeOK, WaitInv
  <2>2. \A p \in Objects : p # worker =>
          \A g \in Goroutines : Watches(g, p)' <=> Watches(g, p)
    BY <1>3, <2>1 DEF CancelMonitor, Watches, TypeOK, MapInv
  <2>3. \A p \in Objects : WaitState(p)' = WaitState(p)
    BY <1>3, <2>1, <2>2 DEF CancelMonitor, WaitState
  <2> QED BY <1>3, <2>3, StutterStep DEF CancelMonitor
<1>4. CASE ReconcileResource
  <2>1. \A p \in Objects : WaitState(p)' = WaitState(p)
    BY <1>4 DEF ReconcileResource, WaitState, Watches, TypeOK, WaitInv
  <2> QED BY <1>4, <2>1, StutterStep DEF ReconcileResource
<1>5. ASSUME NEW g \in Goroutines, StartMonitor(g)
      PROVE  W!Next \/ UNCHANGED <<Waits, Gone>>
  <2>1. worker \in Objects /\ worker \notin parked
    BY <1>5 DEF StartMonitor, TypeOK, WaitInv
  <2>2. \A p \in Objects : p # worker =>
          \A h \in Goroutines : Watches(h, p)' <=> Watches(h, p)
    BY <1>5, <2>1 DEF StartMonitor, Unused, Watches, TypeOK
  <2>3. \A p \in Objects : WaitState(p)' = WaitState(p)
    BY <1>5, <2>1, <2>2 DEF StartMonitor, WaitState
  <2> QED BY <1>5, <2>3, StutterStep DEF StartMonitor
<1>6. CASE ReturnWaiting
  <2>1. PICK o \in Objects : o = worker
    BY <1>6 DEF ReturnWaiting, TypeOK
  <2>2. o \notin parked /\ WaitState(o) = "none"
    BY <2>1 DEF WaitInv, WaitState
  <2>3. \A p \in Objects : p # o => WaitState(p)' = WaitState(p)
    BY <1>6, <2>1 DEF ReturnWaiting, WaitState, Watches, TypeOK
  <2>4. \/ WaitState(o)' = WaitState(o)
        \/ o \notin Gone /\ WaitState(o)' \in {"watched", "offered"}
    <3>1. CASE life[o] # "live" \/ o \notin parked'
      BY <1>6, <2>2, <3>1 DEF ReturnWaiting, WaitState
    <3>2. CASE life[o] = "live" /\ o \in parked'
      <4>1. WakeupDue(o)' /\ o \notin Gone
        BY <1>6, <3>2 DEF ReturnWaiting, WaitInv, Waiting, Gone
      <4> QED BY <1>6, <3>2, <4>1 DEF ReturnWaiting, WaitState, WakeupDue
    <3> QED BY <3>1, <3>2
  <2>5. UNCHANGED Gone
    BY <1>6 DEF ReturnWaiting, Gone
  <2> QED BY <2>2, <2>3, <2>4, <2>5, ObjectStep
<1>7. ASSUME NEW g \in Goroutines, Terminate(g) \/ Wake(g) \/ Run(g)
      PROVE  W!Next \/ UNCHANGED <<Waits, Gone>>
  <2>1. \A h \in Goroutines : \A p \in Objects : Watches(h, p)' <=> Watches(h, p)
    BY <1>7 DEF Terminate, Wake, Run, Watches, TypeOK
  <2>2. \A p \in Objects : WaitState(p)' = WaitState(p)
    BY <1>7, <2>1 DEF Terminate, Wake, Run, WaitState
  <2> QED BY <1>7, <2>2, StutterStep DEF Terminate, Wake, Run
<1>8. ASSUME NEW g \in Goroutines, Notify(g) PROVE W!Next \/ UNCHANGED <<Waits, Gone>>
  <2>0. PICK o \in Objects : o = object[g]
    BY <1>8 DEF Notify, TypeOK
  <2>1. Gone' = Gone /\ life' = life /\ parked' = parked
    BY <1>8 DEF Notify, Gone
  <2>2. \A p \in Objects : p # o => \A h \in Goroutines : Watches(h, p)' <=> Watches(h, p)
    BY <1>8, <2>0 DEF Notify, Watches, TypeOK
  <2>3. \A p \in Objects : p # o => (p \in queued' <=> p \in queued)
    BY <1>8, <2>0 DEF Notify
  <2>4. \A p \in Objects : p # o => WaitState(p)' = WaitState(p)
    BY <2>1, <2>2, <2>3 DEF WaitState
  <2>5. CASE life[o] # "live"
    BY <2>1, <2>4, <2>5, ObjectStep DEF WaitState
  <2>6. CASE o \notin parked
    BY <2>1, <2>4, <2>6, ObjectStep DEF WaitState
  <2>7. CASE life[o] = "live" /\ o \in parked
    <3>1. WaitState(o) \in {"watched", "offered"} /\ WaitState(o)' \in {"watched", "offered"}
      BY <2>1, <2>7 DEF WaitState, WaitInv, Waiting, WakeupDue
    <3>2. queued \subseteq queued'
      BY <1>8 DEF Notify
    <3>3. WaitState(o) = "offered" => WaitState(o)' = "offered"
      BY <2>1, <2>7, <3>2 DEF WaitState
    <3> QED BY <2>1, <2>4, <3>1, <3>3, ObjectStep
  <2> QED BY <2>5, <2>6, <2>7
<1>9. ASSUME NEW o \in Objects, ObjectEvent(o) PROVE W!Next \/ UNCHANGED <<Waits, Gone>>
  <2>1. Gone' = Gone
    BY <1>9 DEF ObjectEvent, Gone, TypeOK
  <2>2. \A p \in Objects : p # o => WaitState(p)' = WaitState(p)
    BY <1>9 DEF ObjectEvent, WaitState, Watches, TypeOK
  <2>3. \/ WaitState(o)' = WaitState(o)
        \/ WaitState(o) = "none" /\ o \notin Gone /\ WaitState(o)' \in {"watched", "offered"}
        \/ WaitState(o) = "watched" /\ WaitState(o)' = "offered"
    BY <1>9 DEF ObjectEvent, WaitState, Gone, TypeOK, WaitInv, Waiting, WakeupDue
  <2> QED BY <2>1, <2>2, <2>3, ObjectStep
<1>10. ASSUME NEW o \in Objects, Delete(o) PROVE W!Next \/ UNCHANGED <<Waits, Gone>>
  <2>1. Gone' = Gone \cup {o}
    BY <1>10 DEF Delete, Gone, TypeOK
  <2>2. \A p \in Objects : p # o => WaitState(p)' = WaitState(p)
    BY <1>10 DEF Delete, WaitState, Watches, TypeOK
  <2>3. WaitState(o)' = "none"
    BY <1>10 DEF Delete, WaitState, TypeOK
  <2> QED BY <2>1, <2>2, <2>3, DeleteStep
<1>11. CASE ClientChanges \/ (\E o \in Objects : ConditionChanges(o)) \/ UNCHANGED vars
  <2>1. \A p \in Objects : WaitState(p)' = WaitState(p)
    BY <1>11 DEF ClientChanges, ConditionChanges, vars, WaitState, Watches
  <2> QED BY <1>11, <2>1, StutterStep DEF ClientChanges, ConditionChanges, vars
<1>12. CASE Restart
  <2>1. Gone' = Gone /\ \A p \in Objects : WaitState(p)' = "none"
    BY <1>12 DEF Restart, Gone, WaitState
  <2> QED BY <2>1, RestartStep
<1> QED
  BY <1>1, <1>2, <1>3, <1>4, <1>5, <1>6, <1>7, <1>8, <1>9, <1>10, <1>11, <1>12
  DEF Next, ReconcileStep, GoroutineStep, Environment

\* Whatever the framework, the objects' events, failed requests and restarts do, a
\* wait ends as WaitStates says: with an offer, a deletion or a restart.
THEOREM WaitStatesImplemented == Spec => ImplementsWaitStates
<1>1. Init => W!Init
  <2> SUFFICES ASSUME Init PROVE W!Init
    OBVIOUS
  <2>1. \A p \in Objects : WaitState(p) = "none"
    BY DEF Init, WaitState
  <2> QED BY <2>1 DEF Init, W!Init
<1>2. TypeOK /\ MapInv /\ WaitInv /\ WaitInv' /\ [Next]_vars
        => [W!Next]_<<[o \in Objects |-> WaitState(o)], {o \in Objects : life[o] = "deleted"}>>
  BY WaitStatesStep DEF Waits, Gone
<1> QED
  BY <1>1, <1>2, TypeCorrect, FrameworkInv, PTL DEF Spec, ImplementsWaitStates, W!Spec
====
