---------------------------- MODULE HostReconciler ----------------------------
(***************************************************************************)
(* A Host object, its controller and the host of that name in the system   *)
(* (internal/controller/host/host_controller.go, host_info.go, monitors.go *)
(* and the factory install flags of manager/factory_install_info.go).      *)
(*                                                                         *)
(* The host has attributes that are changed out of service (oos, and nets, *)
(* the networks of an interface), that are changed in service (fs, file    *)
(* system sizes) and routes, which count as both.  In scope "bootstrap"    *)
(* the controller locks and unlocks the host itself; in scope "principal"  *)
(* it reports that a strategy is required and the VIM locks and unlocks.   *)
(* Reconcile reads the host twice, decides on what it read, and sends      *)
(* requests one by one while the VIM, an operator and the user act on the  *)
(* same host and object.                                                   *)
(*                                                                         *)
(* What a step is.  Every request to Kubernetes or to the System API is    *)
(* one step; a failed request may have been served.  Each change of the    *)
(* object queues it again.                                                 *)
(*                                                                         *)
(* Simplifications.  Applying all attributes of a class is one request     *)
(* (HostConfig has the requests).  The platform networks are in sync       *)
(* (PlatformNetworks has their reconciliation).  Client and system ready   *)
(* (PlatformClient).  The strategy manager is reduced to the report it is  *)
(* given (Strategy).  The delta text, the Ceph groups and reinstalling are *)
(* left out.  StopAfterInSync has its default.                             *)
(***************************************************************************)
EXTENDS Naturals, FiniteSets

CONSTANTS
  Wants,        \* what the composite profile may ask for
  Scopes,       \* the deployment scopes the user asks for
  Events,       \* what may happen besides the normal course of events
  MaxEvents     \* bounds how often

\* oos = 0: the profile does not say, so that the default counts.  nets = 2: the admin
\* network is one of them.
Asked == [admin : {"locked", "unlocked"}, mode : {"static", "dynamic"},
          oos : 0..2, nets : 1..2, fs : 1..2, routes : 1..2]

ASSUME ConstantsAssumption ==
  /\ Wants # {} /\ Wants \subseteq Asked
  /\ Scopes # {} /\ Scopes \subseteq {"bootstrap", "principal"}
  /\ Events \subseteq {"fault", "change", "annotate", "profile", "delete", "operator", "loss",
                     "restart"}
  /\ MaxEvents \in Nat

VARIABLES
  obj,      \* the Host object in Kubernetes
  chain,    \* what the HostProfiles and the host's overrides ask for
  notify,   \* the HostProfile controller has yet to tell the host of a change
  queued,   \* it is in the controller's work queue
  host,     \* the host in the system
  nextId,   \* identifiers the system has not used yet
  controllers, \* how many controllers are enabled
  active,   \* the host is the active controller
  report,   \* ResourceInfo in the strategy manager
  sent,     \* StrategySent: the VIM has a strategy
  stage,    \* how far the VIM is with this host
  mon,      \* the monitor of the object
  factory,  \* the factory install ConfigMap
  pc,       \* where Reconcile is
  copy,     \* instance, as Reconcile holds it
  fresh,    \* copy has the object's resourceVersion
  profile,  \* the composite profile, as Reconcile has read it
  scoped,   \* scope_updated
  seen,     \* host, as read by hosts.Get, ListHosts or Create
  snap,     \* hostInfo, as read by PopulateHostInfo
  err,      \* what ReconcileExistingHost returns
  events    \* how many there have been

localVars == <<copy, fresh, profile, scoped, seen, snap, err>>
kubeVars == <<obj, queued>>
profileVars == <<chain, notify>>
sysVars == <<host, nextId, controllers, active>>
vimVars == <<sent, stage>>
vars == <<kubeVars, profileVars, sysVars, report, vimVars, mon, factory, pc, localVars,
          events>>

NoHost == [id |-> 0, named |-> FALSE, state |-> "none", oos |-> 1, nets |-> 1, fs |-> 1,
           routes |-> 1]
UnlockedEnabled(h) == h.state \in {"degraded", "available"}
LockedDisabled(h)  == h.state \in {"offline", "online"}
Stable(h) == UnlockedEnabled(h) \/ LockedDisabled(h)
Admin(h) == IF LockedDisabled(h) \/ h.state = "locking" THEN "locked" ELSE "unlocked"
Exists == host.id # 0
MaxId == 3   \* bounds the hosts that announce themselves

\* asked is the scope in the last applied configuration, annot the annotation
\* ReconcileAfterInSync: "day2" is the value "true" if the controller has put it there.
\* The fields from scope on are the status.
NewObject(asked) ==
  [life |-> "live", gen |-> 1, asked |-> asked, annot |-> "none",
   finalizer |-> FALSE, scope |-> "bootstrap", observed |-> 0, observedProfile |-> 0,
   updated |-> FALSE, profileUpdated |-> FALSE, reconciled |-> FALSE,
   inSync |-> FALSE, strategy |-> "not_required", id |-> 0, defaults |-> 0,
   state |-> "none", delta |-> {}]

\* A new object without or with a host in the inventory; or a host that has been
\* brought up before, perhaps in the factory, and was asked to change since.
Init ==
  /\ \E want \in Wants, asked \in Scopes :
     /\ chain = [gen |-> 1, base |-> FALSE, want |-> want]
     /\ \/ /\ obj = NewObject(asked)
           /\ host \in {NoHost} \cup
                       {[NoHost EXCEPT !.id = 1, !.named = n, !.state = "online"] :
                          n \in BOOLEAN}
           /\ factory = [round |-> FALSE, reconciled |-> FALSE, default |-> FALSE]
        \/ \E old \in {w \in Wants : w.admin = "unlocked"} :
             /\ obj = [NewObject(asked) EXCEPT
                         !.gen = IF want = old THEN 1 ELSE 2,
                         !.finalizer = TRUE, !.observed = 1, !.observedProfile = 1,
                         !.reconciled = TRUE, !.inSync = TRUE, !.id = 1,
                         !.defaults = 1, !.state = "available"]
             /\ host = [id |-> 1, named |-> TRUE, state |-> "available",
                        oos |-> IF old.oos = 0 THEN 1 ELSE old.oos, nets |-> old.nets,
                        fs |-> old.fs, routes |-> old.routes]
             /\ factory \in [round : BOOLEAN, reconciled : {FALSE}, default : {FALSE}]
  /\ queued = TRUE /\ notify = FALSE /\ nextId = host.id + 1
  /\ active \in {FALSE, host.named}
  /\ controllers = IF active THEN 1 ELSE IF obj.reconciled THEN 2 ELSE 0
  /\ report = "absent" /\ sent = FALSE /\ stage = "none"
  /\ mon = [kind |-> "none", id |-> 0, last |-> "none"]
  /\ pc = "idle" /\ copy = obj /\ fresh = FALSE /\ scoped = FALSE
  /\ profile = chain.want
  /\ seen = NoHost /\ snap = NoHost /\ err = "none"
  /\ events = 0

Event(kind) == kind \in Events /\ events < MaxEvents /\ events' = events + 1
Fault   == Event("fault")
NoFault == UNCHANGED events

-----------------------------------------------------------------------------
(* Requests to Kubernetes, and how Reconcile goes on.                      *)

Write(new) ==
  /\ fresh /\ NoFault
  /\ obj' = new /\ copy' = new
  /\ queued' = (queued \/ new # obj)
  /\ UNCHANGED fresh

\* A conflict, or a fault in which the answer rather than the request was lost.
WriteFails(new) ==
  /\ \/ ~fresh /\ NoFault /\ UNCHANGED obj
     \/ Fault /\ obj' \in {obj} \cup (IF fresh THEN {new} ELSE {})
  /\ queued' = (queued \/ obj' # obj)

\* The failed update leaves instance with the values that were to be written.
KeepsValues(new) == copy' = new /\ fresh' = (fresh /\ obj' = obj)

Goto(next) == pc' = next

\* Reconcile returns; the object is offered again if `again`.
Return(again) ==
  /\ pc' = "idle"
  /\ queued' = (queued \/ again \/ obj' # obj)
  /\ copy' = obj' /\ fresh' = FALSE /\ profile' = chain.want /\ scoped' = FALSE
  /\ seen' = NoHost /\ snap' = NoHost /\ err' = "none"

\* ReconcileExistingHost returns e to ReconcileResource.
Leave(e) == pc' = "status" /\ err' = e

\* Mutant of StartMonitor: no monitor for a host that is not in the system yet.
StartMonitorOnHost(kind) ==
  mon' = IF seen.id = 0 THEN mon ELSE [kind |-> kind, id |-> seen.id, last |-> "none"]

StartMonitor(kind) == mon' = [kind |-> kind, id |-> seen.id, last |-> "none"]
CancelMonitor == mon' = [kind |-> "none", id |-> 0, last |-> "none"]

\* ReconcileExistingHost starts a monitor and returns WaitForMonitor.
Wait(kind) == StartMonitor(kind) /\ Leave("wait")

-----------------------------------------------------------------------------
(* Reconcile, up to ReconcileResource.                                     *)

\* r.Get and CancelMonitor; the profile that BuildCompositeProfile puts together
\* from the profiles and the object's overrides is taken here.
FetchInstance ==
  /\ pc = "idle" /\ queued
  /\ \/ /\ obj.life = "gone"
        /\ queued' = FALSE
        /\ UNCHANGED <<mon, pc, copy, fresh, profile>>
     \/ /\ obj.life # "gone"
        /\ queued' = FALSE
        /\ CancelMonitor
        /\ Goto("scope") /\ copy' = obj /\ fresh' = TRUE /\ profile' = chain.want
  /\ UNCHANGED <<profileVars, obj, sysVars, report, vimVars, factory, scoped, seen,
                 snap, err, events>>

UpdateDeploymentScope ==
  /\ pc = "scope"
  /\ LET new == [copy EXCEPT !.scope = copy.asked] IN
       \/ /\ copy.scope = copy.asked
          /\ Goto("factory")
          /\ UNCHANGED <<kubeVars, localVars, events>>
       \/ /\ copy.scope # copy.asked
          /\ Write(new)
          /\ Goto("factory") /\ scoped' = TRUE
          /\ UNCHANGED <<profile, seen, snap, err>>
       \/ copy.scope # copy.asked /\ WriteFails(new) /\ Return(TRUE)
  /\ UNCHANGED <<profileVars, sysVars, report, vimVars, mon, factory>>

\* The status is reset once in each factory round.
UpdateStatusForFactoryInstall ==
  /\ pc = "factory"
  /\ LET new == [copy EXCEPT !.reconciled = FALSE]
         due == factory.round /\ ~factory.reconciled IN
       \/ /\ ~due
          /\ Goto("gate")
          /\ UNCHANGED <<kubeVars, localVars, events>>
       \/ /\ due /\ Write(new) /\ Goto("factoryFlag")
          /\ UNCHANGED <<profile, scoped, seen, snap, err>>
       \/ due /\ WriteFails(new) /\ Return(TRUE)
  /\ UNCHANGED <<profileVars, sysVars, report, vimVars, mon, factory>>

SetFactoryReconciledUpdated ==
  /\ pc = "factoryFlag"
  /\ \/ /\ NoFault
        /\ factory' = [factory EXCEPT !.reconciled = TRUE]
        /\ Goto("gate")
        /\ UNCHANGED <<kubeVars, localVars>>
     \/ Fault /\ UNCHANGED <<obj, factory>> /\ Return(TRUE)
  /\ UNCHANGED <<profileVars, sysVars, report, vimVars, mon>>

\* "The status reaches its desired status post reconciled."
Finished(o) ==
  /\ o.observed = o.gen /\ o.reconciled /\ o.scope = "bootstrap"
  /\ o.state = "available" /\ o.strategy = "not_required"

\* The shortcut for a finished object, then the finalizer.
AddFinalizer ==
  /\ pc = "gate"
  /\ LET new == [copy EXCEPT !.finalizer = TRUE]
         add == copy.life = "live" /\ ~copy.finalizer
         finished == Finished(copy) /\ ~scoped IN
       \/ finished /\ UNCHANGED <<obj, events>> /\ Return(FALSE)
       \/ /\ ~finished /\ ~add
          /\ Goto("annotate")
          /\ UNCHANGED <<kubeVars, localVars, events>>
       \/ /\ ~finished /\ add
          /\ \/ fresh /\ NoFault /\ obj' = new /\ Return(FALSE)
             \/ WriteFails(new) /\ Return(TRUE)
  /\ UNCHANGED <<profileVars, sysVars, report, vimVars, mon, factory>>

\* A read of the object followed by its update to `new`, repeated on conflict.
ReadAndWrite(new, next) ==
  \/ /\ obj.life # "gone" /\ NoFault
     /\ obj' = new /\ copy' = new /\ fresh' = TRUE
     /\ queued' = (queued \/ new # obj)
     /\ Goto(next)
     /\ UNCHANGED <<profile, scoped, seen, snap, err>>
  \/ /\ \/ obj.life = "gone" /\ NoFault /\ UNCHANGED obj
        \/ obj.life # "gone" /\ Fault /\ obj' \in {obj, new}
     /\ Return(TRUE)

\* "true" in day 2; only this value is taken away in scope bootstrap.
AfterInSync(o) ==
  CASE o.scope = "principal" /\ o.annot \notin {"day2", "true"} -> "day2"
    [] o.scope # "principal" /\ o.annot \in {"day2", "true"} -> "none"
    [] OTHER -> o.annot

\* UpdateConfigStatus, first part: the annotation ReconcileAfterInSync.
UpdateAnnotation ==
  /\ pc = "annotate"
  /\ ReadAndWrite([obj EXCEPT !.annot = AfterInSync(obj)], "observe")
  /\ UNCHANGED <<profileVars, sysVars, report, vimVars, mon, factory>>

\* UpdateConfigStatus, second part: what a new generation of the profile that the host
\* names does; the profiles that this one is based on are not looked at.
ObserveProfile(o) ==
  IF o.observedProfile = chain.gen THEN o
  ELSE IF (o.observedProfile = 0 /\ o.reconciled) \/ o.scope # "principal"
  THEN [o EXCEPT !.profileUpdated = FALSE, !.observedProfile = chain.gen]
  ELSE [o EXCEPT !.profileUpdated = TRUE, !.reconciled = FALSE,
                 !.strategy = "not_required", !.observedProfile = chain.gen]

\* ... and what a new generation of the host does.
ObserveGeneration(o) ==
  IF o.observed = o.gen THEN o
  ELSE IF o.observed = 0 /\ o.reconciled
  THEN [o EXCEPT !.updated = FALSE, !.observed = o.gen]
  ELSE [o EXCEPT !.updated = TRUE, !.strategy = "not_required",
                 !.reconciled = (@ /\ o.scope # "principal"), !.observed = o.gen]

\* Mutant of Observe: a new generation leaves the required strategy alone.
ObserveKeepingStrategy(o) ==
  [ObserveGeneration(ObserveProfile(o)) EXCEPT !.strategy = o.strategy]

Observe(o) == ObserveGeneration(ObserveProfile(o))

UpdateConfigStatus ==
  /\ pc = "observe"
  /\ LET before == ObserveProfile(obj)
         day2 == /\ before.observed # before.gen
                 /\ ~(before.observed = 0 /\ before.reconciled)
                 /\ before.scope = "principal" IN
       /\ ReadAndWrite(Observe(obj), "get")
       /\ report' = IF day2 THEN "not_required" ELSE report
  /\ UNCHANGED <<profileVars, sysVars, vimVars, mon, factory>>

-----------------------------------------------------------------------------
(* ReconcileResource: finding, creating and deleting the host.             *)

\* hosts.Get with the identifier in the status, then ListHosts and
\* FindExistingHost.  If hosts.Get fails otherwise than with 404 for an object
\* that is being deleted, the finalizer is removed.
GetHost ==
  /\ pc = "get"
  /\ LET known == copy.id # 0 /\ host.id = copy.id IN
       \/ /\ copy.life = "deleting" /\ NoFault /\ known
          /\ Goto("delete") /\ seen' = host
          /\ UNCHANGED <<kubeVars, copy, fresh, profile, scoped, snap, err>>
       \/ copy.life = "deleting" /\ NoFault /\ ~known /\ UNCHANGED obj /\ Return(FALSE)
       \/ /\ copy.life = "deleting" /\ Fault
          /\ Goto("unfinalize") /\ err' = "retry"
          /\ UNCHANGED <<kubeVars, copy, fresh, profile, scoped, seen, snap>>
       \/ /\ copy.life = "live" /\ NoFault
          /\ seen' = host
          /\ Goto(IF Exists /\ (known \/ host.named) THEN "populate" ELSE "new")
          /\ UNCHANGED <<kubeVars, copy, fresh, profile, scoped, snap, err>>
       \/ copy.life = "live" /\ Fault /\ UNCHANGED obj /\ Return(TRUE)
  /\ UNCHANGED <<profileVars, sysVars, report, vimVars, mon, factory>>

\* Errors of ReconcileNewHost are returned without an update of the status.
ReturnWaiting(kind) == StartMonitor(kind) /\ UNCHANGED obj /\ Return(FALSE)

\* Whatever its value, the annotation lets changes through.
Blocked == copy.reconciled /\ copy.annot = "none"

ProvisioningAllowed == controllers >= 1
AllControllerNodesEnabled(required) == controllers >= required

\* The host is created, or found without a name and given one.  The request may be
\* served although it fails.
ProvisionHost ==
  LET create == seen.id = 0
      new == IF create
             THEN [NoHost EXCEPT !.id = nextId, !.named = TRUE, !.state = "offline"]
             ELSE [host EXCEPT !.named = TRUE]
      accepted == IF create THEN ~Exists ELSE host.id = seen.id
      served == host' = new /\ nextId' = IF create THEN nextId + 1 ELSE nextId IN
  \/ /\ NoFault /\ accepted /\ served
     /\ seen' = new /\ Goto("populate")
     /\ UNCHANGED <<kubeVars, mon, copy, fresh, profile, scoped, snap, err>>
  \/ /\ \/ (Fault \/ (NoFault /\ ~accepted)) /\ UNCHANGED <<host, nextId>>
        \/ Fault /\ accepted /\ served
     /\ UNCHANGED <<obj, mon>> /\ Return(TRUE)

ReconcileNewHost ==
  /\ pc = "new"
  /\ \/ /\ seen.id = 0 /\ profile.mode = "dynamic" /\ NoFault
        /\ ReturnWaiting("dynamic")
        /\ UNCHANGED <<host, nextId>>
     \/ /\ seen.id # 0 \/ profile.mode = "static"
        /\ ~ProvisioningAllowed /\ NoFault
        /\ ReturnWaiting("provisioning")
        /\ UNCHANGED <<host, nextId>>
     \/ /\ seen.id = 0 /\ profile.mode = "static" /\ ProvisioningAllowed
        /\ Blocked /\ NoFault
        /\ UNCHANGED <<host, nextId, obj, mon>> /\ Return(FALSE)
     \/ /\ seen.id # 0 \/ (profile.mode = "static" /\ ~Blocked)
        /\ ProvisioningAllowed /\ ProvisionHost
  /\ UNCHANGED <<profileVars, controllers, active, report, vimVars, factory>>

\* Mutant of ReconcileDeletedHost: a host that is not locked is not waited for.
DeleteWithoutLock ==
  /\ pc = "delete" /\ NoFault
  /\ host' = IF ~active /\ host.id = seen.id /\ LockedDisabled(host) THEN NoHost ELSE host
  /\ Goto("unfinalize")
  /\ UNCHANGED <<kubeVars, mon, localVars>>
  /\ UNCHANGED <<profileVars, nextId, controllers, active, report, vimVars, factory>>

\* The active controller stays.  A host that is not stable is waited for, one that
\* is not locked is locked and waited for, and a locked one is deleted.
ReconcileDeletedHost ==
  /\ pc = "delete"
  /\ LET mine == host.id = seen.id
         locked == [host EXCEPT !.state = "locking"] IN
       \/ /\ active /\ NoFault
          /\ Goto("unfinalize")
          /\ UNCHANGED <<host, kubeVars, mon, localVars>>
       \/ ~active /\ ~Stable(seen) /\ NoFault /\ ReturnWaiting("stable") /\ UNCHANGED host
       \/ /\ ~active /\ UnlockedEnabled(seen) /\ NoFault /\ mine /\ UnlockedEnabled(host)
          /\ host' = locked
          /\ ReturnWaiting("lockedDisabled")
       \/ /\ ~active /\ LockedDisabled(seen) /\ NoFault /\ mine /\ LockedDisabled(host)
          /\ host' = NoHost
          /\ Goto("unfinalize")
          /\ UNCHANGED <<kubeVars, mon, localVars>>
       \/ /\ ~active /\ Stable(seen)
          /\ LET accepted == mine /\ Admin(host) = Admin(seen) /\ Stable(host) IN
               \/ (Fault \/ (NoFault /\ ~accepted)) /\ UNCHANGED host
               \/ /\ Fault /\ accepted
                  /\ host' = IF LockedDisabled(host) THEN NoHost ELSE locked
          /\ UNCHANGED <<obj, mon>> /\ Return(TRUE)
  /\ UNCHANGED <<profileVars, nextId, controllers, active, report, vimVars, factory>>

\* An error of the update is only logged.
RemoveHostFinalizer ==
  /\ pc = "unfinalize"
  /\ LET new == [copy EXCEPT !.finalizer = FALSE, !.life = "gone"] IN
       /\ \/ fresh /\ NoFault /\ obj' = new
          \/ ~fresh /\ NoFault /\ UNCHANGED obj
          \/ Fault /\ obj' \in {obj} \cup (IF fresh THEN {new} ELSE {})
       /\ Return(err = "retry")
  /\ UNCHANGED <<profileVars, sysVars, report, vimVars, mon, factory>>

-----------------------------------------------------------------------------
(* ReconcileExistingHost: reading the host and comparing it.               *)

PopulateHostInfo ==
  /\ pc = "populate"
  /\ \/ ~Stable(seen) /\ NoFault /\ Wait("stable") /\ UNCHANGED snap
     \/ /\ Stable(seen) /\ NoFault /\ host.id = seen.id
        /\ snap' = host /\ Goto("finalize")
        /\ UNCHANGED <<mon, err>>
     \/ /\ Stable(seen)
        /\ Fault \/ (NoFault /\ host.id # seen.id)
        /\ Leave("retry") /\ UNCHANGED <<mon, snap>>
  /\ UNCHANGED <<profileVars, kubeVars, sysVars, report, vimVars, factory, copy,
                 fresh, profile, scoped, seen>>

SetFactoryConfigFinalized ==
  factory' = [factory EXCEPT !.round = FALSE, !.reconciled = FALSE]

FinalizeFactory ==
  /\ pc = "finalize"
  /\ LET due == factory.round /\ UnlockedEnabled(seen) IN
       \/ ~due /\ NoFault /\ Goto("defaults") /\ UNCHANGED <<factory, err>>
       \/ due /\ NoFault /\ SetFactoryConfigFinalized /\ Goto("defaults") /\ UNCHANGED err
       \/ due /\ Fault /\ Leave("retry") /\ UNCHANGED factory
  /\ UNCHANGED <<profileVars, kubeVars, sysVars, report, vimVars, mon, copy, fresh,
                 profile, scoped, seen, snap>>

\* UpdateDefaultsRequired, BuildHostDefaults.
BuildHostDefaults ==
  /\ pc = "defaults"
  /\ LET due == copy.defaults = 0 \/ (factory.round /\ ~factory.default)
         new == [copy EXCEPT !.defaults = snap.oos] IN
       \/ /\ ~due /\ NoFault /\ Goto("compare")
          /\ UNCHANGED <<kubeVars, mon, copy, fresh, err>>
       \/ /\ due /\ seen.state = "offline" /\ NoFault
          /\ Wait("inventory")
          /\ UNCHANGED <<kubeVars, copy, fresh>>
       \/ /\ due /\ seen.state # "offline"
          /\ Write(new)
          /\ Goto(IF factory.round THEN "defaultFlag" ELSE "compare")
          /\ UNCHANGED <<mon, err>>
       \/ /\ due /\ seen.state # "offline"
          /\ WriteFails(new) /\ KeepsValues(new)
          /\ Leave("retry") /\ UNCHANGED mon
  /\ UNCHANGED <<profileVars, sysVars, report, vimVars, factory, profile, scoped,
                 seen, snap>>

SetFactoryDefaultUpdated ==
  /\ pc = "defaultFlag"
  /\ \/ /\ NoFault
        /\ factory' = [factory EXCEPT !.default = TRUE]
        /\ Goto("compare") /\ UNCHANGED err
     \/ Fault /\ Leave("retry") /\ UNCHANGED factory
  /\ UNCHANGED <<profileVars, kubeVars, sysVars, report, vimVars, mon, copy, fresh,
                 profile, scoped, seen, snap>>

\* Mutant of Effective: the profile is not merged with the defaults.
EffectiveWithoutDefaults(o) == profile.oos

\* MergeProfiles: the default stands in for what the profile does not say.
Effective(o) == IF profile.oos = 0 THEN o.defaults ELSE profile.oos

CompareEnabledAttributes(o, h) ==
  /\ o.scope = "principal" \/ profile.admin = Admin(h)
  /\ profile.fs = h.fs /\ profile.routes = h.routes

\* Mutant of CompareDisabledAttributes: out-of-service attributes are forgotten.
CompareAdminOnly(o, h, reconfig) ==
  ~reconfig => profile.admin = Admin(h) /\ profile.routes = h.routes

\* reconfig ignores the administrative state and the routes.
CompareDisabledAttributes(o, h, reconfig) ==
  /\ Effective(o) = h.oos /\ profile.nets = h.nets
  /\ ~reconfig => profile.admin = Admin(h) /\ profile.routes = h.routes

CompareAttributes(o, h) ==
  CompareEnabledAttributes(o, h) /\ CompareDisabledAttributes(o, h, FALSE)

Principal == copy.scope = "principal"
StrategyRequired == copy.strategy # "not_required"

\* Mutant of StopsHere: changes are always processed.
NeverStops == FALSE

\* "Do not process any further changes once we have reached a synchronized state
\* unless there is an annotation on the host."
StopsHere == Blocked /\ copy.strategy # "lock_required"

\* The attributes that GetDeltaString lists.
Delta(o, h) ==
  {a \in {"admin", "oos", "nets", "fs", "routes"} :
     CASE a = "admin" -> profile.admin # Admin(h)
       [] a = "oos" -> Effective(o) # h.oos
       [] OTHER -> profile[a] # h[a]}

\* CompareAttributes and SetInstanceDelta, which saves the status if the delta has
\* changed; an error of that is only logged.
SetInstanceDelta ==
  /\ pc = "compare"
  /\ Goto("decide")
  /\ LET new == [copy EXCEPT !.inSync = CompareAttributes(copy, snap),
                             !.delta = IF CompareAttributes(copy, snap) THEN {}
                                       ELSE Delta(copy, snap)] IN
       \/ /\ new.delta = copy.delta /\ NoFault
          /\ copy' = new
          /\ UNCHANGED <<kubeVars, fresh>>
       \/ new.delta # copy.delta /\ Write(new)
       \/ new.delta # copy.delta /\ WriteFails(new) /\ KeepsValues(new)
  /\ UNCHANGED <<profileVars, sysVars, report, vimVars, mon, factory, profile,
                 scoped, seen, snap, err>>

\* What is to be done about the differences.
Decide ==
  /\ pc = "decide"
  /\ \/ copy.inSync /\ ~StrategyRequired /\ Leave("none") /\ UNCHANGED mon
     \/ /\ ~copy.inSync \/ StrategyRequired
        /\ StopsHere
        /\ \/ seen.state # "available" /\ Wait("unlockedAvailable")
           \/ seen.state = "available" /\ Leave("ignored") /\ UNCHANGED mon
     \/ /\ ~copy.inSync \/ StrategyRequired
        /\ ~StopsHere
        /\ \/ /\ UnlockedEnabled(snap) /\ UNCHANGED <<mon, err>>
              /\ Goto(IF CompareEnabledAttributes(copy, snap) THEN "strategy" ELSE "enabled")
           \/ /\ LockedDisabled(snap) /\ UNCHANGED <<mon, err>>
              /\ Goto(IF CompareDisabledAttributes(copy, snap, Principal)
                      THEN "unlockRequired" ELSE "disabled")
           \/ ~Stable(snap) /\ Wait("stable")
  /\ UNCHANGED <<profileVars, kubeVars, sysVars, report, vimVars, factory, copy,
                 fresh, profile, scoped, seen,
                 snap, events>>

-----------------------------------------------------------------------------
(* ReconcileHostByState: an unlocked host.                                 *)

\* The System API answers, refuses, or fails having done it or not.
Request(accepted, new, next) ==
  \/ NoFault /\ accepted /\ host' = new /\ next
  \/ NoFault /\ ~accepted /\ UNCHANGED host /\ Leave("retry")
  \/ Fault /\ host' \in {host} \cup (IF accepted THEN {new} ELSE {}) /\ Leave("retry")

\* ReconcileInitialState locks a host that is to be locked; otherwise
\* ReconcileEnabledHost applies what can be changed in service.
ReconcileEnabledHost ==
  /\ pc = "enabled"
  /\ LET lock == profile.admin = "locked" /\ copy.scope = "bootstrap" /\ ~sent
         mine == host.id = snap.id IN
       \/ lock /\ Request(mine /\ UnlockedEnabled(host),
                          [host EXCEPT !.state = "locking"], Leave("retry"))
       \/ ~lock /\ Request(mine, [host EXCEPT !.fs = profile.fs,
                                              !.routes = profile.routes],
                           Goto("strategy") /\ UNCHANGED err)
  /\ UNCHANGED <<profileVars, kubeVars, nextId, controllers, active, report,
                 vimVars, mon, factory, copy,
                 fresh, profile, scoped, seen, snap>>

\* StrategyRequired is set, reported and saved.
SetStrategy(value, next) ==
  LET new == [copy EXCEPT !.strategy = value] IN
  /\ report' = value
  /\ \/ Write(new) /\ next
     \/ WriteFails(new) /\ KeepsValues(new) /\ Leave("retry") /\ UNCHANGED mon

hasAdminNetworkChange == profile.nets # snap.nets /\ profile.nets = 2

\* Out-of-service attributes that differ need the host locked.  The comparison
\* is with the configuration read before the in-service attributes were applied.
RequireLock ==
  /\ pc = "strategy"
  /\ LET same == CompareDisabledAttributes(copy, snap, Principal) IN
       \/ /\ ~same /\ (Principal \/ StrategyRequired) /\ ~hasAdminNetworkChange
          /\ SetStrategy("lock_required", Wait("lockedDisabled"))
       \/ /\ ~same /\ ~Principal /\ ~StrategyRequired
          /\ Wait("lockedDisabled")
          /\ UNCHANGED <<kubeVars, report, copy, fresh, events>>
       \/ /\ same /\ StrategyRequired /\ ~sent
          /\ SetStrategy("not_required", Leave("none") /\ UNCHANGED mon)
       \/ /\ same /\ (~StrategyRequired \/ sent)
          /\ Leave("none")
          /\ UNCHANGED <<kubeVars, report, mon, copy, fresh, events>>
  /\ UNCHANGED <<profileVars, sysVars, vimVars, factory, profile, scoped, seen, snap>>

\* ... but the admin network is assigned to an interface in service; what else differs
\* is left to the next Reconcile, although this one ends as if nothing did.
AssignAdminNetwork ==
  /\ pc = "strategy" /\ hasAdminNetworkChange /\ (Principal \/ StrategyRequired)
  /\ Request(host.id = snap.id, [host EXCEPT !.nets = profile.nets], Leave("none"))
  /\ UNCHANGED <<profileVars, kubeVars, nextId, controllers, active, report, vimVars, mon,
                 factory, copy, fresh, profile, scoped, seen, snap>>

-----------------------------------------------------------------------------
(* ReconcileHostByState: a locked host.                                    *)

\* The System API refuses to change them on a host that is not locked.
ReconcileDisabledHost ==
  /\ pc = "disabled"
  /\ Request(host.id = snap.id /\ LockedDisabled(host),
             [host EXCEPT !.oos = Effective(copy), !.nets = profile.nets,
                          !.routes = profile.routes],
             Goto("final") /\ UNCHANGED err)
  /\ UNCHANGED <<profileVars, kubeVars, nextId, controllers, active, report,
                 vimVars, mon, factory, copy,
                 fresh, profile, scoped, seen, snap>>

\* The host is unlocked if it is to be, unless the VIM is to do that; a worker
\* waits for the controllers.  Then the factory round is over.
ReconcileFinalState ==
  /\ pc = "final"
  /\ LET unlock == profile.admin = "unlocked" /\ ~Principal /\ ~StrategyRequired IN
       \/ ~unlock /\ NoFault /\ Goto("unlockRequired") /\ UNCHANGED <<host, mon, factory, err>>
       \/ /\ unlock /\ ~active /\ ~AllControllerNodesEnabled(2) /\ NoFault /\ Wait("controllers")
          /\ UNCHANGED <<host, factory>>
       \/ /\ unlock /\ (active \/ AllControllerNodesEnabled(2))
          /\ Request(host.id = snap.id /\ host.state = "online",
                     [host EXCEPT !.state = "unlocking"], Leave("retry"))
          /\ IF host' # host /\ NoFault THEN SetFactoryConfigFinalized ELSE UNCHANGED factory
          /\ UNCHANGED mon
  /\ UNCHANGED <<profileVars, kubeVars, nextId, controllers, active, report,
                 vimVars, copy, fresh, profile, scoped,
                 seen, snap>>

RequireUnlock ==
  /\ pc = "unlockRequired"
  /\ \/ StrategyRequired /\ SetStrategy("unlock_required", Wait("unlockedEnabled"))
     \/ /\ ~StrategyRequired /\ Wait("unlockedEnabled")
        /\ UNCHANGED <<kubeVars, report, copy, fresh, events>>
  /\ UNCHANGED <<profileVars, sysVars, vimVars, factory, profile, scoped, seen, snap>>

-----------------------------------------------------------------------------
(* ReconcileResource: the status.                                          *)

\* A new identifier makes the defaults void; the states are the ones read first.
Recorded(o, synced) ==
  [o EXCEPT !.defaults = IF o.id # seen.id THEN 0 ELSE @,
            !.id = seen.id, !.state = seen.state, !.inSync = synced]

\* The strategy after InSync is known.
SettledStrategy(o) ==
  CASE /\ o.inSync /\ o.reconciled
       /\ seen.state = "available" /\ o.strategy = "unlock_required" -> "not_required"
    [] /\ o.inSync /\ ~o.reconciled
       /\ LockedDisabled(seen) /\ (o.updated \/ o.profileUpdated)
       /\ o.strategy = "lock_required" -> "unlock_required"
    [] /\ o.inSync /\ ~o.reconciled
       /\ ~(LockedDisabled(seen) /\ (o.updated \/ o.profileUpdated)
            /\ o.strategy = "lock_required")
       /\ ~sent -> "not_required"
    [] OTHER -> o.strategy

Settled(o, synced) ==
  LET r == Recorded(o, synced) IN
  [r EXCEPT !.strategy = SettledStrategy(r),
            !.reconciled = (@ \/ synced),
            !.updated = (@ /\ (r.reconciled \/ ~synced)),
            !.profileUpdated = (@ /\ (r.reconciled \/ ~synced))]

\* statusUpdateRequired and the update; the strategy is reported only when the
\* object has just become reconciled.  The error of a failed update is returned
\* in place of err; a monitor that was started goes on.
StatusUpdate ==
  /\ pc = "status"
  /\ LET new == Settled(copy, err = "none")
         told == new.strategy # copy.strategy /\ new.reconciled /\ ~copy.reconciled
         due == new # copy \/ copy.defaults = 0 IN
       /\ report' = IF told THEN new.strategy ELSE report
       /\ \/ /\ \/ due /\ fresh /\ NoFault /\ obj' = new
                \/ ~due /\ NoFault /\ UNCHANGED obj
             /\ IF err = "none" THEN StartMonitor("stateChange") ELSE UNCHANGED mon
             /\ Return(err = "retry")
          \/ due /\ WriteFails(new) /\ UNCHANGED mon /\ Return(TRUE)
  /\ UNCHANGED <<profileVars, sysVars, vimVars, factory>>

-----------------------------------------------------------------------------
(* The monitors.                                                           *)

\* What each monitor waits for.
Met(kind) ==
  CASE kind = "stable" -> Stable(host)
    [] kind = "lockedDisabled" -> LockedDisabled(host)
    [] kind = "unlockedEnabled" -> UnlockedEnabled(host)
    [] kind = "unlockedAvailable" -> host.state = "available"
    [] kind = "inventory" -> Stable(host) /\ host.state # "offline"
    [] kind = "dynamic" -> Exists
    [] kind = "provisioning" -> ProvisioningAllowed
    [] kind = "controllers" -> AllControllerNodesEnabled(2)
    [] kind = "stateChange" -> mon.last \notin {"none", host.state}

\* The monitors of lists of hosts; the others ask for one host by its identifier.
ListMonitors == {"dynamic", "provisioning", "controllers"}

\* Run succeeds, or fails, as it does when the host is gone; the object is
\* updated so that the controller takes over, and the monitor ends.
MonitorFires ==
  /\ mon.kind # "none"
  /\ \/ NoFault /\ mon.kind \in ListMonitors /\ Met(mon.kind)
     \/ NoFault /\ mon.kind \notin ListMonitors /\ (host.id # mon.id \/ Met(mon.kind))
     \/ Fault
  /\ queued' = (obj.life # "gone")
  /\ fresh' = FALSE
  /\ CancelMonitor
  /\ UNCHANGED <<profileVars, obj, sysVars, report, vimVars, factory, pc, copy, profile,
                 scoped, seen, snap, err>>

\* The first poll of the state change monitor notes the state.
StateChangePoll ==
  /\ mon.kind = "stateChange" /\ mon.last = "none" /\ host.id = mon.id
  /\ mon' = [mon EXCEPT !.last = host.state]
  /\ UNCHANGED <<profileVars, kubeVars, sysVars, report, vimVars, factory, pc,
                 localVars, events>>

-----------------------------------------------------------------------------
(* The host, the VIM, the operator, the user, the process.                 *)

HostMoves(from, to) == host.state = from /\ host' = [host EXCEPT !.state = to]

\* The host boots, or finishes what it was asked to do.  A reboot takes minutes: it
\* outlasts the Reconcile that is under way when it begins.
HostProgress ==
  /\ \/ HostMoves("offline", "online")
     \/ HostMoves("locking", "online")
     \/ pc = "idle" /\ HostMoves("unlocking", "degraded")
     \/ HostMoves("degraded", "available")
  /\ UNCHANGED <<profileVars, kubeVars, nextId, controllers, active, report,
                 vimVars, mon, factory, pc,
                 localVars, events>>

\* A host without a name announces itself.
HostAppears ==
  /\ ~Exists /\ chain.want.mode = "dynamic" /\ nextId <= MaxId
  /\ host' = [NoHost EXCEPT !.id = nextId, !.state = "online"]
  /\ nextId' = nextId + 1
  /\ UNCHANGED <<profileVars, kubeVars, controllers, active, report, vimVars, mon,
                 factory, pc,
                 localVars, events>>

\* Reconcile lists the hosts once: it does not see a controller that is enabled later.
ControllersEnabled ==
  /\ pc = "idle" /\ controllers < 2 /\ controllers' = controllers + 1
  /\ UNCHANGED <<profileVars, kubeVars, host, nextId, active, report, vimVars, mon,
                 factory, pc, localVars, events>>

\* The strategy manager asks for a strategy; the VIM locks the host, unlocks it
\* when the object's status says so, and is done when it is available or gone.
VimStarts == stage = "none" /\ report \notin {"absent", "not_required"} /\ stage' = "lock"
             /\ sent' = TRUE /\ UNCHANGED <<host, report>>
VimLocks == stage = "lock" /\ Stable(host) /\ stage' = "wait"
            /\ host' = [host EXCEPT !.state = IF UnlockedEnabled(host) THEN "locking" ELSE @]
            /\ UNCHANGED <<sent, report>>
VimUnlocks == stage = "wait" /\ obj.strategy = "unlock_required" /\ stage' = "done"
              /\ HostMoves("online", "unlocking") /\ UNCHANGED <<sent, report>>
VimEnds ==
  /\ \/ stage = "done" /\ host.state = "available"
     \/ stage # "none" /\ ~host.named
  /\ stage' = "none" /\ sent' = FALSE /\ report' = "absent" /\ UNCHANGED host

Vim ==
  /\ VimStarts \/ VimLocks \/ VimUnlocks \/ VimEnds
  /\ UNCHANGED <<profileVars, kubeVars, nextId, controllers, active, mon, factory,
                 pc, localVars, events>>

\* The operator leaves alone a host that the VIM is at work on.
OperatorActs ==
  /\ Event("operator") /\ stage = "none"
  /\ \/ HostMoves("available", "locking")
     \/ HostMoves("online", "unlocking")
  /\ UNCHANGED <<profileVars, kubeVars, nextId, controllers, active, report,
                 vimVars, mon, factory, pc,
                 localVars>>

OperatorDeletesHost ==
  /\ Event("loss") /\ stage = "none"
  /\ Exists /\ LockedDisabled(host) /\ ~active
  /\ host' = NoHost
  /\ UNCHANGED <<profileVars, kubeVars, nextId, controllers, active, report,
                 vimVars, mon, factory, pc,
                 localVars>>

\* The user's update makes the controller's copy stale.
UserWrites(new) ==
  /\ obj.life = "live"
  /\ obj' = new
  /\ queued' = TRUE /\ fresh' = FALSE
  /\ UNCHANGED <<notify, sysVars, report, vimVars, mon, factory, pc, copy, profile,
                 scoped,
                 seen, snap, err>>

UserChanges ==
  /\ Event("change")
  /\ \E want \in Wants, asked \in Scopes :
       /\ UserWrites([obj EXCEPT !.gen = @ + 1, !.asked = asked])
       /\ chain' = [chain EXCEPT !.want = want, !.base = FALSE]

\* The user annotates the object, or takes the annotation away.
UserAnnotates ==
  /\ Event("annotate")
  /\ \E annot \in {"none", "true", "other"} :
       /\ annot # obj.annot /\ ~(annot = "true" /\ obj.annot = "day2")
       /\ UserWrites([obj EXCEPT !.annot = annot])
  /\ UNCHANGED chain

\* Kubernetes counts the request to delete as a generation.
UserDeletes ==
  /\ Event("delete")
  /\ UserWrites([obj EXCEPT !.gen = @ + 1,
                            !.life = IF obj.finalizer THEN "deleting" ELSE "gone"])
  /\ UNCHANGED chain

\* The user changes the profile the host names, or one that this is based on.
ProfileChanges ==
  /\ Event("profile")
  /\ obj.life = "live"
  /\ \E want \in Wants \ {chain.want}, base \in BOOLEAN :
       chain' = [gen |-> IF base THEN chain.gen ELSE chain.gen + 1, base |-> base,
                 want |-> want]
  /\ notify' = TRUE
  /\ UNCHANGED <<kubeVars, sysVars, report, vimVars, mon, factory, pc, localVars>>

\* HostProfileReconciler: an annotation of the host is written.
UpdateHosts ==
  /\ notify /\ notify' = FALSE
  /\ IF obj.life = "gone" THEN UNCHANGED <<queued, fresh>> ELSE queued' = TRUE /\ fresh' = FALSE
  /\ UNCHANGED <<obj, chain, sysVars, report, vimVars, mon, factory, pc, copy,
                 profile, scoped,
                 seen, snap, err, events>>

\* The process restarts: what is in memory is lost, every object is offered.
Restart ==
  /\ Event("restart")
  /\ obj.life # "gone" /\ UNCHANGED obj
  /\ Return(TRUE)
  /\ CancelMonitor
  /\ report' = "absent" /\ sent' = FALSE /\ UNCHANGED stage
  /\ UNCHANGED <<profileVars, sysVars, factory>>

-----------------------------------------------------------------------------
Reconcile ==
  \/ FetchInstance \/ UpdateDeploymentScope \/ UpdateStatusForFactoryInstall
  \/ SetFactoryReconciledUpdated \/ AddFinalizer \/ UpdateAnnotation
  \/ UpdateConfigStatus \/ GetHost \/ ReconcileNewHost \/ ReconcileDeletedHost
  \/ RemoveHostFinalizer \/ PopulateHostInfo \/ FinalizeFactory \/ BuildHostDefaults
  \/ SetFactoryDefaultUpdated \/ SetInstanceDelta \/ Decide \/ ReconcileEnabledHost
  \/ RequireLock \/ AssignAdminNetwork \/ ReconcileDisabledHost \/ ReconcileFinalState
  \/ RequireUnlock \/ StatusUpdate

System == HostProgress \/ HostAppears \/ ControllersEnabled
Others == OperatorActs \/ OperatorDeletesHost \/ UserChanges \/ UserAnnotates
          \/ ProfileChanges \/ UserDeletes \/ Restart

Next == Reconcile \/ UpdateHosts \/ MonitorFires \/ StateChangePoll \/ System \/ Vim \/ Others

\* The work queue, the goroutines, the host and the VIM go on; nothing is
\* assumed of the operator, the user and faults.
Fairness ==
  /\ WF_vars(Reconcile) /\ WF_vars(MonitorFires) /\ WF_vars(StateChangePoll)
  /\ WF_vars(HostProgress) /\ WF_vars(HostAppears) /\ WF_vars(ControllersEnabled)
  /\ WF_vars(Vim) /\ WF_vars(UpdateHosts)

Spec == Init /\ [][Next]_vars /\ Fairness

-----------------------------------------------------------------------------
(* Properties.                                                             *)

Strategies == {"not_required", "lock_required", "unlock_required"}
States == {"none", "offline", "online", "unlocking", "degraded", "available", "locking"}

Objects ==
  [life : {"live", "deleting", "gone"}, gen : Nat, asked : {"bootstrap", "principal"},
   annot : {"none", "day2", "true", "other"}, finalizer : BOOLEAN,
   scope : {"bootstrap", "principal"},
   observed : Nat, observedProfile : Nat, updated : BOOLEAN, profileUpdated : BOOLEAN,
   reconciled : BOOLEAN, inSync : BOOLEAN, strategy : Strategies, id : Nat,
   defaults : 0..2, state : States, delta : SUBSET {"admin", "oos", "nets", "fs", "routes"}]

Hosts == [id : Nat, named : BOOLEAN, state : States, oos : 0..2, nets : 1..2,
         fs : 1..2, routes : 1..2]

\* The variables have the types the Go structures give them; the system never
\* holds the configuration value 0, which stands for "not asked for".
TypeOK ==
  /\ obj \in Objects /\ copy \in Objects
  /\ host \in Hosts /\ seen \in Hosts /\ snap \in Hosts
  /\ host.oos # 0
  /\ report \in Strategies \cup {"absent"}
  /\ stage \in {"none", "lock", "wait", "done"} /\ sent \in BOOLEAN
  /\ err \in {"none", "retry", "wait", "ignored"}

\* When the VIM unlocks the host in Day-2 operation because the status says
\* unlock_required and the controller has seen the latest change, the host has the
\* out-of-service configuration that was asked for: the change is not lost by an
\* unlock.  There are three exceptions.  In scope bootstrap a new profile leaves a
\* required strategy alone.  A change of a profile that the host's profile is based on
\* notifies the host but has no generation that UpdateConfigStatus compares
\* (host_controller.go:2351), so that the strategy stays while the controller waits for
\* another state of the host.  And a host that was deleted by an operator and added
\* again, with another identifier, inherits the strategy of the first.
UnlockIsConfigured ==
  /\ obj.strategy = "unlock_required" /\ stage = "wait" /\ host.state = "online"
  /\ host.id = obj.id /\ host.id = 1 /\ obj.scope = "principal" /\ ~chain.base
  /\ obj.life = "live" /\ ~queued /\ pc = "idle" /\ ~notify
  => /\ chain.want.oos = host.oos \/ (chain.want.oos = 0 /\ obj.defaults \in {0, host.oos})
     /\ chain.want.nets = host.nets

\* At rest, an object that is not done has somebody who wakes it: it is offered
\* again, has a monitor, or reached the state in which changes are refused.
AtRest == pc = "idle" /\ ~queued /\ ~notify /\ obj.life = "live"
NeverStranded ==
  AtRest => \/ mon.kind # "none"
            \/ Finished(obj) \/ (obj.reconciled /\ obj.annot = "none")

\* What was asked for has reached the host and the object says so.
Configured ==
  /\ obj.reconciled
  /\ chain.want.oos \in {0, host.oos} /\ chain.want.nets = host.nets
  /\ chain.want.fs = host.fs /\ chain.want.routes = host.routes

\* A change in scope bootstrap of an object that was reconciled before.
Refused == obj.reconciled /\ obj.scope = "bootstrap"

Applied == chain.want.oos \in {0, host.oos}

\* The operator has to lock a host that was unlocked before it was configured in
\* scope bootstrap, and to unlock one whose out-of-service attributes are applied
\* if it was never unlocked before scope principal.
WaitsForOperator ==
  \/ mon.kind = "lockedDisabled" /\ obj.scope = "bootstrap"
  \/ /\ mon.kind = "unlockedEnabled" /\ Applied /\ obj.strategy = "not_required"
     /\ obj.scope = "principal"

\* ClearStrategy at the end of a strategy drops a report made since it was sent.
ReportLost == obj.strategy # "not_required" /\ report = "absent" /\ stage = "none"

\* Once the user, the operator and faults have stopped, the object of a host that
\* is to be unlocked is brought to what was asked for, and stays there.
Converges ==
  <>[](obj.life = "live" /\ chain.want.admin = "unlocked" =>
         Configured \/ Refused \/ WaitsForOperator \/ ReportLost)

Configuration(h) == <<h.oos, h.nets, h.fs, h.routes>>

\* Once an object is reconciled in scope bootstrap, its changes are refused: no
\* step changes the configuration of the host, whatever Reconcile decided on
\* before, unless it has read an annotation that the user has put there or a strategy
\* is under way (host_controller.go:1899).
RefusesChanges ==
  [][/\ host'.id = host.id
     /\ Configuration(host') # Configuration(host)
     => \/ ~obj.reconciled \/ obj.scope = "principal" \/ obj.strategy = "lock_required"
        \/ copy.annot \in {"true", "other"}]_vars

\* An object that is to be deleted goes only after the host it has recorded, unless
\* that is the active controller or hosts.Get has failed: the host is locked, deleted
\* and the finalizer removed in several passes, and the host may change in between.
FinalizerHolds ==
  [][obj.life = "deleting" /\ obj'.life = "gone"
     => active \/ host.id # obj.id \/ err = "retry"]_vars

\* The finalizer is "a pre-delete hook so that we can delete any hosts that we have
\* previously added" (host_controller.go:2527): it holds the object only until the
\* host is deleted, so that an object that is to be deleted goes in the end.
DeletionEnds == (obj.life = "deleting") ~> (obj.life = "gone")

====
