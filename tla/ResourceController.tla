-------------------------- MODULE ResourceController --------------------------
(***************************************************************************)
(* One custom resource and its controller: DataNetwork, PtpInstance or     *)
(* PtpInterface (internal/controller/*_controller.go).                     *)
(*                                                                         *)
(* The user creates, changes and deletes an object in Kubernetes; the      *)
(* controller's Reconcile brings a resource of the same name in the System *)
(* API to the object's spec and writes what it did to the object's status. *)
(* Both sides are shared with others: the user may change the object       *)
(* between any two requests, which makes the controller's next write a     *)
(* conflict, and an operator may delete the resource in the system.        *)
(*                                                                         *)
(* What a step is.  Every request, to Kubernetes or to the System API, is  *)
(* one step.  A request that fails may have been served.  The reads of     *)
(* UpdateConfigStatus and its unconditional writes are one step each: a    *)
(* stale read would be a conflict, which RetryOnConflict repeats, or else  *)
(* Reconcile fails there.  Each change of the object queues it again, the  *)
(* controller's own changes included, because no event filter is set.      *)
(*                                                                         *)
(* Simplifications.  The attributes of a resource are its type (the        *)
(* service of a PTP instance, the PTP instance of a PTP interface) and a   *)
(* set of parameters (the other attributes of a data network).  The Delta  *)
(* text in the status is left out, and with it the update in the middle of *)
(* a Reconcile that saves it: it writes the other fields as they are, its  *)
(* error is only logged, and it queues the object once more.  The gates on *)
(* the platform client and on the ready flag are PlatformClient's.  The    *)
(* System API refuses to create a second resource of a name.               *)
(* StopAfterInSync has its default.                                        *)
(***************************************************************************)
EXTENDS Naturals, FiniteSets

CONSTANTS
  Kind,         \* "datanetwork", "ptpinstance" or "ptpinterface"
  Types, Params,
  Scopes,       \* the deployment scopes the user asks for
  Annotations,  \* the values the user gives ReconcileAfterInSync, "none" to remove it
  MaxGen,       \* bounds the user's changes
  MaxFaults,    \* bounds the requests that fail
  MaxLosses,    \* bounds the resources an operator deletes
  MaxRestarts   \* bounds the restarts of the Deployment Manager

ASSUME ConstantsAssumption ==
  /\ Kind \in {"datanetwork", "ptpinstance", "ptpinterface"}
  /\ Types # {}
  /\ Scopes # {} /\ Scopes \subseteq {"bootstrap", "principal"}
  /\ Annotations \subseteq {"none", "true", "other"}
  /\ MaxGen \in Nat \ {0}
  /\ MaxFaults \in Nat /\ MaxLosses \in Nat /\ MaxRestarts \in Nat

VARIABLES
  obj,      \* the object in Kubernetes
  queued,   \* it is in the controller's work queue
  report,   \* ResourceInfo in the strategy manager
  res,      \* the resource of that name in the System API
  nextId,   \* identifiers the System API has not used yet
  pc,       \* where Reconcile is
  copy,     \* instance, as Reconcile holds it
  fresh,    \* copy has the object's resourceVersion
  mode,     \* what Reconcile does: "new", "update", "replace" or "delete"
  found,    \* identifier of the resource it works on, 0 for none
  todo,     \* parameters it has still to add
  drop,     \* parameters it has still to remove
  error,    \* what ReconcileResource will return
  faults, losses, restarts

localVars == <<copy, fresh, mode, found, todo, drop, error>>
boundVars == <<faults, losses, restarts>>
vars == <<obj, queued, report, res, nextId, pc, localVars, boundVars>>

Specs == [type : Types, params : SUBSET Params]
NoRes == [id |-> 0]
Exists == res.id # 0

\* want is the scope in the last applied configuration, annot the annotation
\* ReconcileAfterInSync; the fields from scope on are the status.
NewObject(spec, want) ==
  [life |-> "live", gen |-> 1, spec |-> spec, want |-> want, annot |-> "none",
   finalizer |-> FALSE, scope |-> "bootstrap", observed |-> 0,
   reconciled |-> FALSE, inSync |-> FALSE, id |-> 0]

\* A new object, or one that an earlier version has reconciled, which did not
\* record ObservedGeneration.
Init ==
  /\ \E spec \in Specs, want \in Scopes :
       \/ obj = NewObject(spec, want) /\ res = NoRes
       \/ /\ obj = [NewObject(spec, want) EXCEPT !.finalizer = TRUE, !.id = 1,
                                                 !.reconciled = TRUE, !.inSync = TRUE]
          /\ res = [id |-> 1, type |-> spec.type, params |-> spec.params]
  /\ queued = TRUE /\ report = "absent" /\ nextId = 2
  /\ pc = "idle" /\ copy = obj /\ fresh = FALSE
  /\ mode = "none" /\ found = 0 /\ todo = {} /\ drop = {} /\ error = "none"
  /\ faults = 0 /\ losses = 0 /\ restarts = 0

Fault   == faults < MaxFaults /\ faults' = faults + 1
NoFault == UNCHANGED faults

-----------------------------------------------------------------------------
(* Requests to Kubernetes.                                                 *)

\* Update or Status().Update with the object `new`, and the event it causes.
Write(new) ==
  /\ fresh /\ NoFault
  /\ obj' = new /\ copy' = new
  /\ queued' = (queued \/ new # obj)
  /\ UNCHANGED fresh

\* It conflicts or fails; the answer, not the request, may have been lost.
WriteFails(new) ==
  \/ ~fresh /\ NoFault /\ UNCHANGED obj
  \/ Fault /\ obj' \in {obj} \cup (IF fresh THEN {new} ELSE {})

\* Reconcile returns; the object is offered again if `again` or if it changed.
Return(again) ==
  /\ pc' = "idle"
  /\ queued' = (queued \/ again \/ obj' # obj)
  /\ copy' = obj' /\ fresh' = FALSE
  /\ mode' = "none" /\ found' = 0 /\ todo' = {} /\ drop' = {} /\ error' = "none"

-----------------------------------------------------------------------------
(* Reconcile, up to ReconcileResource.                                     *)

FetchInstance ==
  /\ pc = "idle" /\ queued
  /\ queued' = FALSE
  /\ IF obj.life = "gone"
     THEN UNCHANGED <<pc, copy, fresh>>
     ELSE pc' = "scope" /\ copy' = obj /\ fresh' = TRUE
  /\ UNCHANGED <<obj, report, res, nextId, mode, found, todo, drop, error, boundVars>>

UpdateDeploymentScope ==
  /\ pc = "scope"
  /\ LET new == [copy EXCEPT !.scope = copy.want] IN
       \/ /\ copy.scope = copy.want
          /\ pc' = "annotate"
          /\ UNCHANGED <<obj, queued, localVars, faults>>
       \/ /\ copy.scope # copy.want
          /\ Write(new)
          /\ pc' = "annotate"
          /\ UNCHANGED <<mode, found, todo, drop, error>>
       \/ copy.scope # copy.want /\ WriteFails(new) /\ Return(TRUE)
  /\ UNCHANGED <<report, res, nextId, losses, restarts>>

\* A read of the object followed by its update to `new`.
ReadAndWrite(new, next) ==
  \/ /\ obj.life # "gone" /\ NoFault
     /\ obj' = new /\ copy' = new /\ fresh' = TRUE
     /\ queued' = (queued \/ new # obj)
     /\ pc' = next
     /\ UNCHANGED <<mode, found, todo, drop, error>>
  \/ /\ \/ obj.life = "gone" /\ NoFault /\ UNCHANGED obj
        \/ obj.life # "gone" /\ Fault /\ obj' \in {obj, new}
     /\ Return(TRUE)

\* The annotation after UpdateConfigStatus: its value is "true" in Day-2 operation,
\* and "true" is taken away in the other scope, whoever gave it; another value of
\* the user stays.  "day2" is the "true" that the controller gives.
AfterInSync(annot, scope) ==
  CASE scope = "principal" /\ annot \notin {"day2", "true"} -> "day2"
    [] scope # "principal" /\ annot \in {"day2", "true"} -> "none"
    [] OTHER -> annot

\* Mutant of UpdateAnnotation: the annotation is never taken back.
KeepAnnotation ==
  /\ pc = "annotate"
  /\ ReadAndWrite([obj EXCEPT !.annot = IF obj.scope = "principal" THEN "day2" ELSE @],
                  "observe")
  /\ UNCHANGED <<report, res, nextId, losses, restarts>>

\* UpdateConfigStatus, first part: ReconcileAfterInSync follows the scope.
UpdateAnnotation ==
  /\ pc = "annotate"
  /\ ReadAndWrite([obj EXCEPT !.annot = AfterInSync(@, obj.scope)], "observe")
  /\ UNCHANGED <<report, res, nextId, losses, restarts>>

\* A change of the configuration that Day-2 has to apply.
Day2Change ==
  /\ obj.observed # obj.gen
  /\ ~(obj.observed = 0 /\ obj.reconciled)
  /\ obj.scope = "principal"

\* Mutant of UpdateObserved: the change is not reported to the strategy manager.
ObserveUnreported ==
  /\ pc = "observe"
  /\ ReadAndWrite([obj EXCEPT !.observed = obj.gen, !.reconciled = @ /\ ~Day2Change],
                  "finalizer")
  /\ UNCHANGED <<report, res, nextId, losses, restarts>>

\* UpdateConfigStatus, second part: a Day-2 change is reported, then recorded.
UpdateObserved ==
  /\ pc = "observe"
  /\ ReadAndWrite([obj EXCEPT !.observed = obj.gen, !.reconciled = @ /\ ~Day2Change],
                  "finalizer")
  /\ report' \in {IF Day2Change /\ obj.life # "gone" THEN "busy" ELSE report}
                   \cup (IF obj' = obj THEN {report} ELSE {})
  /\ UNCHANGED <<res, nextId, losses, restarts>>

AddFinalizer ==
  /\ pc = "finalizer"
  /\ LET new == [copy EXCEPT !.finalizer = TRUE] IN
       \/ /\ copy.life = "deleting" \/ copy.finalizer
          /\ pc' = "find"
          /\ UNCHANGED <<obj, queued, localVars, faults>>
       \/ /\ copy.life = "live" /\ ~copy.finalizer
          /\ \/ fresh /\ NoFault /\ obj' = new /\ Return(FALSE)
             \/ WriteFails(new) /\ Return(TRUE)
  /\ UNCHANGED <<report, res, nextId, losses, restarts>>

-----------------------------------------------------------------------------
(* ReconcileResource.                                                      *)

\* "Do not process any further changes once we have reached a synchronized state
\* unless there is an annotation on the resource."  Its value is not looked at.
Blocked == copy.reconciled /\ copy.annot = "none"

\* Mutant of ExistingResource: a resource without recorded identifier is not found.
ExistingById == IF copy.id # 0 /\ res.id = copy.id THEN res ELSE NoRes

\* By the identifier in the status if there is one, by name and type otherwise.
ExistingResource ==
  IF copy.id # 0
  THEN IF res.id = copy.id THEN res ELSE NoRes
  ELSE IF Exists /\ res.type = copy.spec.type THEN res ELSE NoRes

\* ReconcileUpdated of a data network: one request changes all attributes.
UpdateInPlace(r) ==
  /\ r.type # copy.spec.type \/ r.params # copy.spec.params
  /\ mode' = "update" /\ pc' = "modify"
  /\ UNCHANGED <<todo, drop>>

\* ReconcileUpdated of a PTP instance or interface: the type cannot be changed,
\* so that the resource is deleted and created anew; parameters are added and
\* removed one by one.
UpdateOrReplace(r) ==
  \/ /\ r.type # copy.spec.type
     /\ mode' = "replace" /\ pc' = "delete"
     /\ UNCHANGED <<todo, drop>>
  \/ /\ r.type = copy.spec.type /\ r.params # copy.spec.params
     /\ mode' = "update" /\ pc' = "addParams"
     /\ todo' = copy.spec.params \ r.params
     /\ drop' = r.params \ copy.spec.params

\* What is to be done about the resource r that was found.
Decide(r) ==
  \/ /\ copy.life = "deleting"
     /\ mode' = "delete"
     /\ pc' = IF r.id # 0 THEN "delete" ELSE "unfinalize"
     /\ UNCHANGED <<todo, drop, error>>
  \/ /\ copy.life = "live" /\ r.id = 0
     /\ mode' = "new" /\ pc' = "new"
     /\ UNCHANGED <<todo, drop, error>>
  \/ /\ copy.life = "live" /\ r.id # 0
     /\ \/ /\ r.type = copy.spec.type /\ r.params = copy.spec.params
           /\ mode' = "update" /\ pc' = "status"
           /\ UNCHANGED <<todo, drop, error>>
        \/ /\ r.type # copy.spec.type \/ r.params # copy.spec.params
           /\ Blocked
           /\ mode' = "update" /\ pc' = "status" /\ error' = "ignored"
           /\ UNCHANGED <<todo, drop>>
        \/ /\ ~Blocked
           /\ \/ Kind = "datanetwork" /\ UpdateInPlace(r)
              \/ Kind # "datanetwork" /\ UpdateOrReplace(r)
           /\ UNCHANGED error

\* FindExistingResource.  If it fails for an object that is being deleted, the
\* finalizer is removed nevertheless.
FindExistingResource ==
  /\ pc = "find"
  /\ \/ /\ NoFault
        /\ found' = ExistingResource.id
        /\ Decide(ExistingResource)
        /\ UNCHANGED <<obj, queued, copy, fresh>>
     \/ /\ Fault /\ copy.life = "deleting"
        /\ mode' = "delete" /\ pc' = "unfinalize" /\ error' = "retry"
        /\ UNCHANGED <<obj, queued, copy, fresh, found, todo, drop>>
     \/ Fault /\ copy.life = "live" /\ UNCHANGED obj /\ Return(TRUE)
  /\ UNCHANGED <<report, res, nextId, losses, restarts>>

\* The request of ReconciledDeleted.  Its error is returned when the object is
\* deleted and only logged when the resource is replaced.  That the resource is
\* still in use (code 400) is a refusal that counts as success.
DeleteResource ==
  /\ pc = "delete"
  /\ pc' = "unfinalize"
  /\ \/ NoFault /\ res.id = found /\ res' = NoRes /\ UNCHANGED error
     \/ Fault /\ res.id = found /\ UNCHANGED <<res, error>>
     \/ /\ \/ NoFault /\ res.id # found /\ UNCHANGED res
           \/ Fault /\ res' \in {res} \cup (IF res.id = found THEN {NoRes} ELSE {})
        /\ error' = IF mode = "delete" THEN "retry" ELSE error
  /\ UNCHANGED <<obj, queued, report, nextId, copy, fresh, mode, found, todo, drop,
                 losses, restarts>>

\* The deferred call of ReconciledDeleted, whatever it returns; its own error is
\* only logged.  An object that is being deleted is then gone.
RemoveFinalizer ==
  /\ pc = "unfinalize"
  /\ LET new == [copy EXCEPT !.finalizer = FALSE,
                             !.life = IF @ = "deleting" THEN "gone" ELSE @] IN
       \/ /\ mode = "replace"
          /\ pc' = "new"
          /\ \/ Write(new)
             \/ /\ WriteFails(new)
                /\ queued' = (queued \/ obj' # obj)
                /\ copy' = [copy EXCEPT !.finalizer = FALSE]
                /\ fresh' = (fresh /\ obj' = obj)
          /\ UNCHANGED <<mode, found, todo, drop, error>>
       \/ /\ mode = "delete"
          /\ \/ fresh /\ NoFault /\ obj' = new
             \/ WriteFails(new)
          /\ Return(error = "retry")
  /\ UNCHANGED <<report, res, nextId, losses, restarts>>

\* Mutant of Created: the request leaves out the type.
CreatedUntyped ==
  [id |-> nextId, params |-> IF Kind = "datanetwork" THEN copy.spec.params ELSE {}]

\* The resource the System API creates: a PTP resource has no parameters yet.
Created ==
  [id |-> nextId, type |-> copy.spec.type,
   params |-> IF Kind = "datanetwork" THEN copy.spec.params ELSE {}]

\* ReconcileNew.  That the PTP instance of a PTP interface does not exist yet is
\* one of the faults.
ReconcileNew ==
  /\ pc = "new"
  /\ \/ /\ Blocked /\ NoFault
        /\ pc' = "status" /\ error' = "ignored"
        /\ UNCHANGED <<res, nextId, found, todo>>
     \/ /\ ~Blocked /\ NoFault /\ ~Exists
        /\ res' = Created /\ nextId' = nextId + 1
        /\ IF Kind = "datanetwork"
           THEN pc' = "status" /\ found' = nextId /\ UNCHANGED todo
           ELSE pc' = "addParams" /\ todo' = copy.spec.params /\ UNCHANGED found
        /\ UNCHANGED error
     \/ /\ ~Blocked
        /\ \/ NoFault /\ Exists /\ UNCHANGED <<res, nextId>>
           \/ Fault /\ UNCHANGED <<res, nextId>>
           \/ Fault /\ ~Exists /\ res' = Created /\ nextId' = nextId + 1
        /\ pc' = "status" /\ error' = "retry"
        /\ UNCHANGED <<found, todo>>
  /\ UNCHANGED <<obj, queued, report, copy, fresh, mode, drop, losses, restarts>>

\* datanetworks.Update
ModifyResource ==
  /\ pc = "modify" /\ pc' = "status"
  /\ LET new == [id |-> found, type |-> copy.spec.type, params |-> copy.spec.params] IN
       \/ NoFault /\ res.id = found /\ res' = new /\ UNCHANGED error
       \/ /\ \/ NoFault /\ res.id # found /\ UNCHANGED res
             \/ Fault /\ res' \in {res} \cup (IF res.id = found THEN {new} ELSE {})
          /\ error' = "retry"
  /\ UNCHANGED <<obj, queued, report, nextId, copy, fresh, mode, found, todo, drop,
                 losses, restarts>>

\* The resource whose parameters are changed: the new one has the last identifier.
Target == IF mode = "update" THEN found ELSE nextId - 1

\* A request changes the parameters of the resource to params, or fails: then
\* the resource that Reconcile knows of is still the one it found.
ChangeParams(params) ==
  LET new == [res EXCEPT !.params = params] IN
    \/ /\ NoFault /\ res.id = Target /\ res' = new
       /\ UNCHANGED <<pc, error>>
    \/ /\ \/ NoFault /\ res.id # Target /\ UNCHANGED res
          \/ Fault /\ res' \in {res} \cup (IF res.id = Target THEN {new} ELSE {})
       /\ pc' = "status" /\ error' = "retry"

\* ReconcileParamAdded
AddParam ==
  /\ pc = "addParams"
  /\ \/ \E p \in todo :
          /\ IF Exists THEN ChangeParams(res.params \cup {p})
             ELSE pc' = "status" /\ error' = "retry" /\ UNCHANGED <<res, faults>>
          /\ todo' = todo \ {p}
          /\ UNCHANGED found
     \/ /\ todo = {}
        /\ pc' = IF drop = {} THEN "status" ELSE "dropParams"
        /\ found' = Target
        /\ UNCHANGED <<res, todo, error, faults>>
  /\ UNCHANGED <<obj, queued, report, nextId, copy, fresh, mode, drop, losses, restarts>>

\* ReconcileParamRemoved
RemoveParam ==
  /\ pc = "dropParams"
  /\ \/ \E p \in drop :
          /\ IF Exists THEN ChangeParams(res.params \ {p})
             ELSE pc' = "status" /\ error' = "retry" /\ UNCHANGED <<res, faults>>
          /\ drop' = drop \ {p}
     \/ /\ drop = {}
        /\ pc' = "status"
        /\ UNCHANGED <<res, drop, error, faults>>
  /\ UNCHANGED <<obj, queued, report, nextId, copy, fresh, mode, found, todo, losses,
                 restarts>>

\* The fields statusUpdateRequired assigns, and whether it asks for an update: an
\* identifier that is only cleared does not.  Status().Update writes nothing else,
\* in particular not the finalizers of the copy.
StatusOf(inSync) ==
  [obj EXCEPT !.id = found, !.inSync = inSync, !.reconciled = @ \/ inSync]

StatusUpdateRequired(inSync) ==
  \/ found # 0 /\ copy.id # found
  \/ copy.inSync # inSync
  \/ inSync /\ ~copy.reconciled

\* Mutant of UpdateStatus: an error of the update is dropped.
UpdateStatusOnce ==
  /\ pc = "status"
  /\ LET new == StatusOf(error = "none") IN
       \/ /\ ~StatusUpdateRequired(error = "none") /\ NoFault /\ UNCHANGED obj
          /\ Return(error = "retry")
       \/ /\ StatusUpdateRequired(error = "none")
          /\ \/ fresh /\ NoFault /\ obj' = new
             \/ WriteFails(new)
          /\ Return(error = "retry")
  /\ report' = IF error = "none" /\ ~copy.reconciled /\ copy.scope = "principal"
               THEN "settled" ELSE report
  /\ UNCHANGED <<res, nextId, losses, restarts>>

\* The end of ReconcileResource: the report to the strategy manager comes before
\* the update, and the update's error takes the place of the others.
UpdateStatus ==
  /\ pc = "status"
  /\ LET new == StatusOf(error = "none") IN
       \/ /\ ~StatusUpdateRequired(error = "none") /\ NoFault /\ UNCHANGED obj
          /\ Return(error = "retry")
       \/ /\ StatusUpdateRequired(error = "none")
          /\ \/ fresh /\ NoFault /\ obj' = new /\ Return(error = "retry")
             \/ WriteFails(new) /\ Return(TRUE)
  /\ report' = IF error = "none" /\ ~copy.reconciled /\ copy.scope = "principal"
               THEN "settled" ELSE report
  /\ UNCHANGED <<res, nextId, losses, restarts>>

-----------------------------------------------------------------------------
(* The environment.                                                        *)

\* The user applies a configuration.
UserApplies(spec, want) ==
  /\ obj.life = "live" /\ obj.gen < MaxGen
  /\ spec # obj.spec \/ want # obj.want
  /\ obj' = [obj EXCEPT !.spec = spec, !.want = want,
                        !.gen = IF spec = obj.spec THEN @ ELSE @ + 1]
  /\ queued' = TRUE /\ fresh' = FALSE
  /\ UNCHANGED <<report, res, nextId, pc, copy, mode, found, todo, drop, error,
                 boundVars>>

\* The user annotates the object, or takes the annotation away.  To give the value
\* that is there already changes nothing.
UserAnnotates(annot) ==
  /\ obj.life = "live"
  /\ annot # obj.annot /\ ~(annot = "true" /\ obj.annot = "day2")
  /\ obj' = [obj EXCEPT !.annot = annot]
  /\ queued' = TRUE /\ fresh' = FALSE
  /\ UNCHANGED <<report, res, nextId, pc, copy, mode, found, todo, drop, error,
                 boundVars>>

\* Kubernetes keeps the object as long as it has a finalizer.
UserDeletes ==
  /\ obj.life = "live"
  /\ obj' = [obj EXCEPT !.life = IF obj.finalizer THEN "deleting" ELSE "gone"]
  /\ queued' = TRUE /\ fresh' = FALSE
  /\ UNCHANGED <<report, res, nextId, pc, copy, mode, found, todo, drop, error,
                 boundVars>>

\* The system or an operator deletes the resource.
ResourceLost ==
  /\ Exists
  /\ losses < MaxLosses /\ losses' = losses + 1
  /\ res' = NoRes
  /\ UNCHANGED <<obj, queued, report, nextId, pc, localVars, faults, restarts>>

Restart ==
  /\ restarts < MaxRestarts /\ restarts' = restarts + 1
  /\ report' = "absent"
  /\ UNCHANGED obj
  /\ Return(obj.life # "gone")
  /\ UNCHANGED <<res, nextId, faults, losses>>

-----------------------------------------------------------------------------
Reconcile ==
  \/ FetchInstance \/ UpdateDeploymentScope \/ UpdateAnnotation \/ UpdateObserved
  \/ AddFinalizer \/ FindExistingResource \/ DeleteResource \/ RemoveFinalizer
  \/ ReconcileNew \/ ModifyResource \/ AddParam \/ RemoveParam \/ UpdateStatus

Environment ==
  \/ \E spec \in Specs, want \in Scopes : UserApplies(spec, want)
  \/ \E annot \in Annotations : UserAnnotates(annot)
  \/ UserDeletes \/ ResourceLost \/ Restart

Next == Reconcile \/ Environment

Spec == Init /\ [][Next]_vars

\* The work queue offers the object and the worker runs; requests fail only
\* finitely often, and the user stops changing the object.
FairSpec == Spec /\ WF_vars(Reconcile)

-----------------------------------------------------------------------------
(* Properties.                                                             *)

PCs == {"idle", "scope", "annotate", "observe", "finalizer", "find", "delete",
        "unfinalize", "new", "modify", "addParams", "dropParams", "status"}

ObjectType ==
  [life : {"live", "deleting", "gone"}, gen : Nat, spec : Specs, want : Scopes,
   annot : {"none", "day2", "true", "other"}, finalizer : BOOLEAN, scope : {"bootstrap", "principal"},
   observed : Nat, reconciled : BOOLEAN, inSync : BOOLEAN, id : Nat]

\* Every variable has a value its Go counterpart can have.
TypeOK ==
  /\ obj \in ObjectType /\ copy \in ObjectType
  /\ queued \in BOOLEAN /\ fresh \in BOOLEAN
  /\ report \in {"absent", "busy", "settled"}
  /\ res \in {NoRes} \cup [id : Nat \ {0}, type : Types, params : SUBSET Params]
  /\ nextId \in Nat /\ found \in Nat
  /\ pc \in PCs
  /\ mode \in {"none", "new", "update", "replace", "delete"}
  /\ todo \in SUBSET Params /\ drop \in SUBSET Params
  /\ error \in {"none", "ignored", "retry"}
  /\ faults \in Nat /\ losses \in Nat /\ restarts \in Nat

Matches == Exists /\ res.type = obj.spec.type /\ res.params = obj.spec.params

Quiet == pc = "idle" /\ ~queued

\* A controller that has nothing queued tells the truth: it has seen the last
\* generation and scope, and either the resource is as the object says, linked
\* and recorded in sync, or the object is reconciled, may not be changed outside
\* Day-2, and is recorded out of sync.  No conflict, lost answer or restart makes it forget.
QuietIsSettled ==
  (Quiet /\ obj.life = "live" /\ losses = 0) =>
    /\ obj.observed = obj.gen /\ obj.scope = obj.want /\ obj.finalizer
    /\ \/ obj.inSync /\ Matches /\ obj.id = res.id
       \/ ~obj.inSync /\ obj.reconciled /\ obj.scope = "bootstrap" /\ obj.annot = "none"

\* Once an object was reconciled, Reconcile changes its resource only in Day-2
\* operation, or to delete it with the object, or because it has read an annotation
\* that the user has put there: the one that Day-2 operation needs is gone when the
\* scope has changed back.
NoChangeAfterReconciled ==
  [][(res' # res /\ losses' = losses /\ mode # "delete") =>
       \/ ~(obj.reconciled /\ obj.scope = "bootstrap")
       \/ copy.annot \in {"true", "other"}]_vars

\* "Resource is under reconcile, wait until reconciled" (monitor.go): while a
\* Day-2 change is observed but not applied, the strategy manager knows, as long
\* as the process that observed it lives (the reports are lost with it) and for an
\* object whose user asks for that scope from the start (a change that was
\* observed under the bootstrap scope is not reported when the scope changes).
BusyIsReported ==
  (/\ obj.life = "live" /\ obj.scope = "principal"
   /\ obj.observed = obj.gen /\ ~obj.reconciled
   /\ ~Matches /\ losses = 0 /\ restarts = 0) => report = "busy"

\* The resource ends up as the object says, whatever failed before, unless the
\* object may not be changed any more.
Converges ==
  <>[](obj.life = "live" =>
         \/ Matches /\ obj.inSync /\ obj.id = res.id
         \/ obj.reconciled /\ obj.annot = "none")

=============================================================================
