---------------------------- MODULE ResourceProofs ----------------------------
(***************************************************************************)
(* Proofs about ResourceController, for every kind of resource, every set  *)
(* of types and parameters, and any number of changes, faults, losses and  *)
(* restarts.  The types are kept (TInv); an object that was reconciled     *)
(* outside Day-2 operation never has its resource changed again (CInv); a  *)
(* controller with nothing queued has told the truth in the status (QInv); *)
(* and a Day-2 change that is observed and not applied is reported (BInv). *)
(***************************************************************************)
EXTENDS ResourceController, TLAPS

Resources == [id : Nat \ {0}, type : Types, params : SUBSET Params]

\* Identifiers are never 0, which stands for nil: the System API starts counting
\* above it, and a request is sent for a resource that was found.
IdsOK == nextId # 0 /\ (pc = "modify" => found # 0)

TInv == TypeOK /\ IdsOK

-----------------------------------------------------------------------------
(* Objects keep their type when their fields are assigned.                 *)

LEMMA NewObjectTyped ==
  ASSUME NEW spec \in Specs, NEW want \in Scopes
  PROVE  NewObject(spec, want) \in ObjectType
BY DEF NewObject, ObjectType

LEMMA ReconciledTyped ==
  ASSUME NEW o \in ObjectType
  PROVE  [o EXCEPT !.finalizer = TRUE, !.id = 1, !.reconciled = TRUE, !.inSync = TRUE]
           \in ObjectType
BY DEF ObjectType

LEMMA ScopedTyped ==
  ASSUME NEW o \in ObjectType
  PROVE  [o EXCEPT !.scope = o.want] \in ObjectType
BY ConstantsAssumption DEF ObjectType

LEMMA AnnotatedTyped ==
  ASSUME NEW o \in ObjectType, NEW a \in {"none", "day2", "true", "other"}
  PROVE  [o EXCEPT !.annot = a] \in ObjectType
BY DEF ObjectType

\* What UpdateConfigStatus makes of the annotation: its own is there in Day-2
\* operation only, and some annotation is there in Day-2 operation.
LEMMA AfterInSyncValues ==
  ASSUME NEW a \in {"none", "day2", "true", "other"}, NEW s \in {"bootstrap", "principal"}
  PROVE  /\ AfterInSync(a, s) \in {"none", "day2", "true", "other"}
         /\ AfterInSync(a, s) = "day2" => s = "principal"
         /\ AfterInSync(a, s) = "none" => s = "bootstrap"
<1>1. CASE s = "principal" /\ a \notin {"day2", "true"}
  BY <1>1 DEF AfterInSync
<1>2. CASE s # "principal" /\ a \in {"day2", "true"}
  BY <1>2 DEF AfterInSync
<1>3. CASE /\ ~(s = "principal" /\ a \notin {"day2", "true"})
           /\ ~(s # "principal" /\ a \in {"day2", "true"})
  <2>1. AfterInSync(a, s) = a
    BY <1>3 DEF AfterInSync
  <2> QED
    BY <1>3, <2>1
<1> QED
  BY <1>1, <1>2, <1>3

LEMMA ObservedTyped ==
  ASSUME NEW o \in ObjectType, NEW b \in BOOLEAN
  PROVE  [o EXCEPT !.observed = o.gen, !.reconciled = @ /\ b] \in ObjectType
BY DEF ObjectType

LEMMA FinalizedTyped ==
  ASSUME NEW o \in ObjectType
  PROVE  /\ [o EXCEPT !.finalizer = TRUE] \in ObjectType
         /\ [o EXCEPT !.finalizer = FALSE] \in ObjectType
         /\ [o EXCEPT !.finalizer = FALSE,
                      !.life = IF @ = "deleting" THEN "gone" ELSE @] \in ObjectType
         /\ [o EXCEPT !.life = IF o.finalizer THEN "deleting" ELSE "gone"] \in ObjectType
BY DEF ObjectType

LEMMA StatusTyped ==
  ASSUME NEW o \in ObjectType, NEW i \in Nat, NEW b \in BOOLEAN
  PROVE  [o EXCEPT !.id = i, !.inSync = b, !.reconciled = @ \/ b] \in ObjectType
BY DEF ObjectType

LEMMA AppliedTyped ==
  ASSUME NEW o \in ObjectType, NEW s \in Specs, NEW w \in Scopes
  PROVE  [o EXCEPT !.spec = s, !.want = w, !.gen = IF s = o.spec THEN @ ELSE @ + 1]
           \in ObjectType
<1>1. o.gen \in Nat /\ o.gen + 1 \in Nat
  BY DEF ObjectType
<1>2. (IF s = o.spec THEN o.gen ELSE o.gen + 1) \in Nat
  BY <1>1
<1>3. ASSUME NEW g \in Nat
      PROVE  [o EXCEPT !.spec = s, !.want = w, !.gen = g] \in ObjectType
  BY <1>3 DEF ObjectType
<1> QED
  BY <1>2, <1>3

-----------------------------------------------------------------------------
(* The requests keep the types.                                            *)

LEMMA FaultTyped ==
  ASSUME TypeOK, Fault \/ NoFault
  PROVE  faults' \in Nat
BY DEF TypeOK, Fault, NoFault

LEMMA ReturnTyped ==
  ASSUME NEW again \in BOOLEAN, obj' \in ObjectType, TypeOK, Return(again)
  PROVE  /\ pc' = "idle" /\ queued' \in BOOLEAN /\ copy' \in ObjectType
         /\ fresh' \in BOOLEAN /\ mode' = "none" /\ found' = 0
         /\ todo' = {} /\ drop' = {} /\ error' = "none"
BY DEF Return, TypeOK

LEMMA WriteFailsTyped ==
  ASSUME NEW new \in ObjectType, TypeOK, WriteFails(new)
  PROVE  obj' \in ObjectType /\ faults' \in Nat
BY DEF WriteFails, TypeOK, Fault, NoFault

LEMMA ReadAndWriteTyped ==
  ASSUME NEW new \in ObjectType, NEW next \in PCs, TypeOK, ReadAndWrite(new, next)
  PROVE  /\ obj' \in ObjectType /\ copy' \in ObjectType
         /\ queued' \in BOOLEAN /\ fresh' \in BOOLEAN /\ faults' \in Nat
         /\ pc' \in {next, "idle"}
         /\ mode' \in {"none", "new", "update", "replace", "delete"} /\ found' \in Nat
         /\ todo' \in SUBSET Params /\ drop' \in SUBSET Params
         /\ error' \in {"none", "ignored", "retry"}
<1>1. obj' \in ObjectType /\ faults' \in Nat
  <2>1. Fault \/ NoFault
    BY DEF ReadAndWrite
  <2>2. obj' \in {obj, new}
    BY DEF ReadAndWrite
  <2> QED
    BY <2>1, <2>2, FaultTyped DEF TypeOK
<1>2. CASE Return(TRUE)
  <2>1. /\ pc' = "idle" /\ queued' \in BOOLEAN /\ copy' \in ObjectType
        /\ fresh' \in BOOLEAN /\ mode' = "none" /\ found' = 0
        /\ todo' = {} /\ drop' = {} /\ error' = "none"
    BY <1>1, <1>2, ReturnTyped
  <2> QED
    BY <1>1, <2>1
<1>3. CASE ~Return(TRUE)
  <2>1. /\ obj' = new /\ copy' = new /\ fresh' = TRUE
        /\ queued' = (queued \/ new # obj)
        /\ pc' = next
        /\ UNCHANGED <<mode, found, todo, drop, error>>
    BY <1>3 DEF ReadAndWrite
  <2> QED
    BY <1>1, <2>1 DEF TypeOK
<1> QED
  BY <1>2, <1>3

\* A Reconcile that returns has kept the types if its last request has.
LEMMA ReturnKeeps ==
  ASSUME NEW again \in BOOLEAN, TInv, Return(again), obj' \in ObjectType,
         faults' \in Nat, report' \in {"absent", "busy", "settled"},
         UNCHANGED <<res, nextId>>, losses' \in Nat, restarts' \in Nat
  PROVE  TInv'
<1>1. /\ pc' = "idle" /\ queued' \in BOOLEAN /\ copy' \in ObjectType
      /\ fresh' \in BOOLEAN /\ mode' = "none" /\ found' = 0
      /\ todo' = {} /\ drop' = {} /\ error' = "none"
  BY ReturnTyped DEF TInv
<1> QED
  BY <1>1 DEF TInv, TypeOK, IdsOK, PCs

-----------------------------------------------------------------------------
(* Type correctness.                                                       *)

LEMMA InitTyped == Init => TInv
<1> SUFFICES ASSUME Init PROVE TInv
  OBVIOUS
<1>1. PICK spec \in Specs, want \in Scopes :
        \/ obj = NewObject(spec, want) /\ res = NoRes
        \/ /\ obj = [NewObject(spec, want) EXCEPT !.finalizer = TRUE, !.id = 1,
                                                  !.reconciled = TRUE, !.inSync = TRUE]
           /\ res = [id |-> 1, type |-> spec.type, params |-> spec.params]
  BY DEF Init
<1>2. obj \in ObjectType
  BY <1>1, NewObjectTyped, ReconciledTyped
<1>3. res \in {NoRes} \cup Resources
  BY <1>1 DEF Resources, NoRes, Specs
<1>4. /\ queued = TRUE /\ report = "absent" /\ nextId = 2
      /\ pc = "idle" /\ copy = obj /\ fresh = FALSE
      /\ mode = "none" /\ found = 0 /\ todo = {} /\ drop = {} /\ error = "none"
      /\ faults = 0 /\ losses = 0 /\ restarts = 0
  BY DEF Init
<1>5. queued \in BOOLEAN /\ fresh \in BOOLEAN
  BY <1>4
<1>6. IdsOK
  BY <1>4 DEF IdsOK
<1>7. nextId \in Nat /\ found \in Nat /\ faults \in Nat /\ losses \in Nat /\ restarts \in Nat
  BY <1>4
<1>8. TypeOK
  BY <1>2, <1>3, <1>4, <1>5, <1>7, Zenon DEF TypeOK, PCs, Resources
<1> QED
  BY <1>6, <1>8 DEF TInv

LEMMA StepTyped == TInv /\ [Next]_vars => TInv'
<1> SUFFICES ASSUME TInv, [Next]_vars PROVE TInv'
  OBVIOUS
<1>0. TypeOK /\ IdsOK
  BY DEF TInv
<1>1. CASE FetchInstance
  BY <1>0, <1>1 DEF FetchInstance, TInv, TypeOK, IdsOK, PCs, boundVars
<1>2. CASE UpdateDeploymentScope
  <2> DEFINE new == [copy EXCEPT !.scope = copy.want]
  <2>1. new \in ObjectType
    BY <1>0, ScopedTyped DEF TypeOK
  <2>2. CASE WriteFails(new) /\ Return(TRUE)
    <3>1. obj' \in ObjectType /\ faults' \in Nat
      BY <1>0, <2>1, <2>2, WriteFailsTyped
    <3> QED
      BY <1>0, <1>2, <2>2, <3>1, ReturnKeeps DEF UpdateDeploymentScope, TypeOK
  <2>3. CASE UNCHANGED <<obj, queued, localVars, faults>>
    BY <1>0, <1>2, <2>3 DEF UpdateDeploymentScope, TInv, TypeOK, IdsOK, PCs, localVars, Return
  <2>4. CASE Write(new) /\ pc' = "annotate" /\ UNCHANGED <<mode, found, todo, drop, error>>
    BY <1>0, <1>2, <2>1, <2>4 DEF UpdateDeploymentScope, Write, NoFault, TInv, TypeOK, IdsOK, PCs
  <2> QED
    BY <1>2, <2>2, <2>3, <2>4 DEF UpdateDeploymentScope
<1>3. CASE UpdateAnnotation
  <2>1. AfterInSync(obj.annot, obj.scope) \in {"none", "day2", "true", "other"}
    BY <1>0, AfterInSyncValues DEF TypeOK, ObjectType
  <2>2. [obj EXCEPT !.annot = AfterInSync(@, obj.scope)] \in ObjectType
    BY <1>0, <2>1, AnnotatedTyped DEF TypeOK
  <2> QED
    BY <1>0, <1>3, <2>2, ReadAndWriteTyped DEF UpdateAnnotation, TInv, TypeOK, IdsOK, PCs
<1>4. CASE UpdateObserved
  <2>1. [obj EXCEPT !.observed = obj.gen, !.reconciled = @ /\ ~Day2Change] \in ObjectType
    BY <1>0, ObservedTyped DEF TypeOK
  <2>2. report' \in {"absent", "busy", "settled"}
    BY <1>0, <1>4 DEF UpdateObserved, TypeOK
  <2> QED
    BY <1>0, <1>4, <2>1, <2>2, ReadAndWriteTyped DEF UpdateObserved, TInv, TypeOK, IdsOK, PCs
<1>5. CASE AddFinalizer
  <2> DEFINE new == [copy EXCEPT !.finalizer = TRUE]
  <2>1. new \in ObjectType
    BY <1>0, FinalizedTyped DEF TypeOK
  <2>2. CASE UNCHANGED <<obj, queued, localVars, faults>> /\ pc' = "find"
    BY <1>0, <1>5, <2>2 DEF AddFinalizer, TInv, TypeOK, IdsOK, PCs, localVars
  <2>3. CASE fresh /\ NoFault /\ obj' = new /\ Return(FALSE)
    BY <1>0, <1>5, <2>1, <2>3, ReturnKeeps, FaultTyped DEF AddFinalizer, TypeOK
  <2>4. CASE WriteFails(new) /\ Return(TRUE)
    BY <1>0, <1>5, <2>1, <2>4, ReturnKeeps, WriteFailsTyped DEF AddFinalizer, TypeOK
  <2> QED
    BY <1>5, <2>2, <2>3, <2>4 DEF AddFinalizer
<1>6. CASE FindExistingResource
  <2>1. CASE NoFault /\ found' = ExistingResource.id /\ Decide(ExistingResource)
             /\ UNCHANGED <<obj, queued, copy, fresh>>
    <3>1. ExistingResource \in {NoRes} \cup Resources
      BY <1>0 DEF ExistingResource, TypeOK, Resources
    <3> DEFINE r == ExistingResource
    <3>2. r.id \in Nat /\ (r.id # 0 => r \in Resources)
      BY <3>1 DEF NoRes, Resources
    <3> HIDE DEF r
    <3>3. copy.spec.params \in SUBSET Params
      BY <1>0 DEF TypeOK, ObjectType, Specs
    <3>4. found' = r.id /\ Decide(r)
      BY <2>1 DEF r
    <3>5. /\ pc' \in {"delete", "unfinalize", "new", "status", "modify", "addParams"}
          /\ mode' \in {"new", "update", "replace", "delete"}
          /\ error' \in {error, "ignored"}
          /\ pc' = "modify" => r.id # 0
      BY <3>4 DEF Decide, UpdateInPlace, UpdateOrReplace
    <3>6. todo' \in SUBSET Params /\ drop' \in SUBSET Params
      BY <1>0, <3>2, <3>3, <3>4 DEF Decide, UpdateInPlace, UpdateOrReplace, TypeOK, Resources
    <3> QED
      BY <1>0, <1>6, <2>1, <3>2, <3>4, <3>5, <3>6
         DEF FindExistingResource, NoFault, TInv, TypeOK, IdsOK, PCs
  <2>2. CASE Fault /\ mode' = "delete" /\ pc' = "unfinalize" /\ error' = "retry"
             /\ UNCHANGED <<obj, queued, copy, fresh, found, todo, drop>>
    BY <1>0, <1>6, <2>2 DEF FindExistingResource, Fault, TInv, TypeOK, IdsOK, PCs
  <2>3. CASE Fault /\ UNCHANGED obj /\ Return(TRUE)
    BY <1>0, <1>6, <2>3, ReturnKeeps, FaultTyped DEF FindExistingResource, TypeOK
  <2> QED
    BY <1>6, <2>1, <2>2, <2>3 DEF FindExistingResource
<1>7. CASE DeleteResource
  <2>1. faults' \in Nat
    BY <1>0, <1>7 DEF DeleteResource, TypeOK, Fault, NoFault
  <2>2. res' \in {res, NoRes} /\ error' \in {error, "retry"}
    BY <1>7 DEF DeleteResource
  <2> QED
    BY <1>0, <1>7, <2>1, <2>2 DEF DeleteResource, TInv, TypeOK, IdsOK, PCs
<1>8. CASE RemoveFinalizer
  <2> DEFINE new == [copy EXCEPT !.finalizer = FALSE,
                                 !.life = IF @ = "deleting" THEN "gone" ELSE @]
  <2>1. new \in ObjectType /\ [copy EXCEPT !.finalizer = FALSE] \in ObjectType
    BY <1>0, FinalizedTyped DEF TypeOK
  <2>2. CASE mode = "delete"
    <3>1. obj' \in ObjectType /\ faults' \in Nat
      BY <1>0, <1>8, <2>1, <2>2, WriteFailsTyped, FaultTyped DEF RemoveFinalizer
    <3>2. Return(error = "retry") /\ UNCHANGED <<report, res, nextId, losses, restarts>>
      BY <1>8, <2>2 DEF RemoveFinalizer
    <3> QED
      BY <1>0, <3>1, <3>2, ReturnKeeps DEF TypeOK
  <2>3. CASE mode = "replace"
    <3>1. CASE Write(new)
      BY <1>0, <1>8, <2>1, <2>3, <3>1
         DEF RemoveFinalizer, Write, NoFault, TInv, TypeOK, IdsOK, PCs
    <3>2. CASE /\ WriteFails(new)
               /\ queued' = (queued \/ obj' # obj)
               /\ copy' = [copy EXCEPT !.finalizer = FALSE]
               /\ fresh' = (fresh /\ obj' = obj)
      <4>1. obj' \in ObjectType /\ faults' \in Nat
        BY <1>0, <2>1, <3>2, WriteFailsTyped
      <4>2. copy' \in ObjectType /\ queued' \in BOOLEAN /\ fresh' \in BOOLEAN
        BY <1>0, <2>1, <3>2 DEF TypeOK
      <4>3. /\ pc' = "new"
            /\ UNCHANGED <<mode, found, todo, drop, error, report, res, nextId, losses, restarts>>
        BY <1>8, <2>3 DEF RemoveFinalizer
      <4> QED
        BY <1>0, <4>1, <4>2, <4>3 DEF TInv, TypeOK, IdsOK, PCs
    <3> QED
      BY <1>8, <2>3, <3>1, <3>2 DEF RemoveFinalizer
  <2> QED
    BY <1>8, <2>2, <2>3 DEF RemoveFinalizer
<1>9. CASE ReconcileNew
  <2>1. Created \in Resources
    <3>1. copy.spec.type \in Types /\ copy.spec.params \in SUBSET Params
      BY <1>0 DEF TypeOK, ObjectType, Specs
    <3> QED
      BY <1>0, <3>1 DEF Created, Resources, TypeOK, IdsOK
  <2>2. faults' \in Nat
    BY <1>0, <1>9 DEF ReconcileNew, TypeOK, Fault, NoFault
  <2>3. res' \in {res, Created} /\ nextId' \in {nextId, nextId + 1} /\ nextId' \in Nat /\ nextId' # 0
    BY <1>0, <1>9 DEF ReconcileNew, TypeOK, IdsOK
  <2>4. res' \in {NoRes} \cup Resources
    BY <1>0, <2>1, <2>3 DEF TypeOK, Resources
  <2>5. copy.spec.params \in SUBSET Params
    BY <1>0 DEF TypeOK, ObjectType, Specs
  <2>6. /\ pc' \in {"status", "addParams"} /\ error' \in {error, "ignored", "retry"}
        /\ found' \in {found, nextId} /\ todo' \in {todo, copy.spec.params}
    BY <1>9 DEF ReconcileNew
  <2> QED
    BY <1>0, <1>9, <2>2, <2>3, <2>4, <2>5, <2>6
       DEF ReconcileNew, TInv, TypeOK, IdsOK, PCs, Resources
<1>10. CASE ModifyResource
  <2> DEFINE new == [id |-> found, type |-> copy.spec.type, params |-> copy.spec.params]
  <2>1. new \in Resources
    <3>1. copy.spec.type \in Types /\ copy.spec.params \in SUBSET Params
      BY <1>0 DEF TypeOK, ObjectType, Specs
    <3> QED
      BY <1>0, <1>10, <3>1 DEF ModifyResource, Resources, TypeOK, IdsOK
  <2>2. faults' \in Nat
    BY <1>0, <1>10 DEF ModifyResource, TypeOK, Fault, NoFault
  <2>3. res' \in {res, new} /\ error' \in {error, "retry"}
    BY <1>10 DEF ModifyResource
  <2>4. res' \in {NoRes} \cup Resources
    BY <1>0, <2>1, <2>3 DEF TypeOK, Resources
  <2> QED
    BY <1>0, <1>10, <2>2, <2>3, <2>4 DEF ModifyResource, TInv, TypeOK, IdsOK, PCs, Resources
<1>11. ASSUME NEW params \in SUBSET Params, Exists, ChangeParams(params)
       PROVE  /\ res' \in {NoRes} \cup Resources /\ faults' \in Nat
              /\ pc' \in {pc, "status"} /\ error' \in {error, "retry"}
  <2>1. res \in Resources
    BY <1>0, <1>11 DEF TypeOK, Exists, NoRes, Resources
  <2>2. [res EXCEPT !.params = params] \in Resources
    BY <1>11, <2>1 DEF Resources
  <2>3. res' \in {res, [res EXCEPT !.params = params]}
    BY <1>11 DEF ChangeParams
  <2>4. Fault \/ NoFault
    BY <1>11 DEF ChangeParams
  <2> QED
    BY <1>0, <1>11, <2>1, <2>2, <2>3, <2>4, FaultTyped DEF ChangeParams
<1>12. CASE AddParam
  <2>0. /\ UNCHANGED <<obj, queued, report, nextId, copy, fresh, mode, drop, losses, restarts>>
        /\ pc = "addParams"
    BY <1>12 DEF AddParam
  <2>1. ASSUME NEW p \in todo,
               IF Exists THEN ChangeParams(res.params \cup {p})
               ELSE pc' = "status" /\ error' = "retry" /\ UNCHANGED <<res, faults>>,
               todo' = todo \ {p}, UNCHANGED found
        PROVE  TInv'
    <3>1. Exists => res.params \cup {p} \in SUBSET Params
      BY <1>0, <2>1 DEF TypeOK, Exists, NoRes
    <3>2. /\ res' \in {NoRes} \cup Resources /\ faults' \in Nat
          /\ pc' \in {pc, "status"} /\ error' \in {error, "retry"}
      BY <1>0, <1>11, <2>1, <3>1 DEF TypeOK, Resources
    <3> QED
      BY <1>0, <2>0, <2>1, <3>2 DEF TInv, TypeOK, IdsOK, PCs, Resources
  <2>2. CASE /\ todo = {}
             /\ pc' = IF drop = {} THEN "status" ELSE "dropParams"
             /\ found' = Target
             /\ UNCHANGED <<res, todo, error, faults>>
    <3>1. Target \in Nat
      BY <1>0 DEF Target, TypeOK, IdsOK
    <3> QED
      BY <1>0, <2>0, <2>2, <3>1 DEF TInv, TypeOK, IdsOK, PCs
  <2> QED
    BY <1>12, <2>1, <2>2 DEF AddParam
<1>13. CASE RemoveParam
  <2>0. /\ UNCHANGED <<obj, queued, report, nextId, copy, fresh, mode, found, todo,
                       losses, restarts>>
        /\ pc = "dropParams"
    BY <1>13 DEF RemoveParam
  <2>1. ASSUME NEW p \in drop,
               IF Exists THEN ChangeParams(res.params \ {p})
               ELSE pc' = "status" /\ error' = "retry" /\ UNCHANGED <<res, faults>>,
               drop' = drop \ {p}
        PROVE  TInv'
    <3>1. Exists => res.params \ {p} \in SUBSET Params
      BY <1>0, <2>1 DEF TypeOK, Exists, NoRes
    <3>2. /\ res' \in {NoRes} \cup Resources /\ faults' \in Nat
          /\ pc' \in {pc, "status"} /\ error' \in {error, "retry"}
      BY <1>0, <1>11, <2>1, <3>1 DEF TypeOK, Resources
    <3> QED
      BY <1>0, <2>0, <2>1, <3>2 DEF TInv, TypeOK, IdsOK, PCs, Resources
  <2>2. CASE drop = {} /\ pc' = "status" /\ UNCHANGED <<res, drop, error, faults>>
    BY <1>0, <2>0, <2>2 DEF TInv, TypeOK, IdsOK, PCs
  <2> QED
    BY <1>13, <2>1, <2>2 DEF RemoveParam
<1>14. CASE UpdateStatus
  <2> DEFINE new == StatusOf(error = "none")
  <2>1. new \in ObjectType
    BY <1>0, StatusTyped DEF StatusOf, TypeOK
  <2>2. report' \in {"absent", "busy", "settled"} /\ UNCHANGED <<res, nextId, losses, restarts>>
    BY <1>0, <1>14 DEF UpdateStatus, TypeOK
  <2>3. CASE NoFault /\ obj' \in {obj, new} /\ Return(error = "retry")
    <3>1. obj' \in ObjectType /\ faults' \in Nat
      BY <1>0, <2>1, <2>3, FaultTyped DEF TypeOK
    <3> QED
      BY <1>0, <2>2, <2>3, <3>1, ReturnKeeps DEF TypeOK
  <2>4. CASE WriteFails(new) /\ Return(TRUE)
    <3>1. obj' \in ObjectType /\ faults' \in Nat
      BY <1>0, <2>1, <2>4, WriteFailsTyped
    <3> QED
      BY <1>0, <2>2, <2>4, <3>1, ReturnKeeps DEF TypeOK
  <2> QED
    BY <1>14, <2>3, <2>4 DEF UpdateStatus
<1>15. ASSUME NEW spec \in Specs, NEW want \in Scopes, UserApplies(spec, want)
       PROVE  TInv'
  <2>1. obj' \in ObjectType
    BY <1>0, <1>15, AppliedTyped DEF UserApplies, TypeOK
  <2> QED
    BY <1>0, <1>15, <2>1 DEF UserApplies, TInv, TypeOK, IdsOK, boundVars
<1>16. CASE UserDeletes
  <2>1. obj' \in ObjectType
    BY <1>0, <1>16, FinalizedTyped DEF UserDeletes, TypeOK
  <2> QED
    BY <1>0, <1>16, <2>1 DEF UserDeletes, TInv, TypeOK, IdsOK, boundVars
<1>a. ASSUME NEW annot \in Annotations, UserAnnotates(annot)
      PROVE  TInv'
  <2>1. annot \in {"none", "day2", "true", "other"}
    BY ConstantsAssumption
  <2>2. obj' \in ObjectType
    BY <1>0, <1>a, <2>1, AnnotatedTyped DEF UserAnnotates, TypeOK
  <2> QED
    BY <1>0, <1>a, <2>2 DEF UserAnnotates, TInv, TypeOK, IdsOK, boundVars
<1>17. CASE ResourceLost
  BY <1>0, <1>17 DEF ResourceLost, TInv, TypeOK, IdsOK, localVars
<1>18. CASE Restart
  <2>1. /\ Return(obj.life # "gone") /\ obj' = obj /\ report' = "absent"
        /\ restarts' \in Nat /\ UNCHANGED <<res, nextId, faults, losses>>
    BY <1>0, <1>18 DEF Restart, TypeOK
  <2> QED
    BY <1>0, <2>1, ReturnKeeps DEF TypeOK
<1>19. CASE UNCHANGED vars
  BY <1>0, <1>19 DEF vars, localVars, boundVars, TInv, TypeOK, IdsOK
<1> QED
  BY <1>1, <1>2, <1>3, <1>4, <1>5, <1>6, <1>7, <1>8, <1>9, <1>10, <1>12, <1>13, <1>14,
     <1>15, <1>16, <1>a, <1>17, <1>18, <1>19 DEF Next, Reconcile, Environment

\* Every step of Reconcile, of the user, of the system and of a restart keeps
\* the object, its copy and the resource within the types of the Go structures.
THEOREM TypeCorrect == Spec => []TypeOK
<1>1. Spec => []TInv
  BY InitTyped, StepTyped, PTL DEF Spec
<1>2. TInv => TypeOK
  BY DEF TInv
<1> QED
  BY <1>1, <1>2, PTL

-----------------------------------------------------------------------------
(* A reconciled object outside Day-2 operation is left alone.              *)

Working == {"finalizer", "find", "delete", "unfinalize", "new", "modify", "addParams",
            "dropParams", "status"}

\* Nobody else writes the status, so that the copy which Reconcile holds after
\* UpdateConfigStatus agrees with the object on it even when it is stale; and an
\* annotation that is not the user's is there in Day-2 operation only.
CopyOK ==
  /\ pc = "observe" \/ pc \in Working => (obj.annot = "day2" => obj.scope = "principal")
  /\ pc \in Working => /\ copy.scope = obj.scope
                       /\ copy.reconciled = obj.reconciled
                       /\ copy.annot = "day2" => copy.scope = "principal"

\* Reconcile is at a request that changes the resource, other than the creation,
\* only after it has seen that changes are allowed.
Allowed ==
  (/\ mode # "delete"
   /\ \/ pc \in {"delete", "unfinalize", "modify", "addParams", "dropParams"}
      \/ pc = "new" /\ mode = "replace") => ~Blocked

CInv == TInv /\ CopyOK /\ Allowed

\* Once it returned, Reconcile holds nothing.
LEMMA IdleKeeps ==
  ASSUME NEW again \in BOOLEAN, Return(again)
  PROVE  CopyOK' /\ Allowed'
BY DEF Return, CopyOK, Allowed, Working

LEMMA StepAllowed == CInv /\ [Next]_vars => CInv'
<1> SUFFICES ASSUME CInv, [Next]_vars PROVE CInv'
  OBVIOUS
<1>0. TypeOK /\ TInv /\ CopyOK /\ Allowed
  BY DEF CInv, TInv
<1>t. TInv'
  BY <1>0, StepTyped
<1> SUFFICES CopyOK' /\ Allowed'
  BY <1>t DEF CInv
<1>1. CASE FetchInstance
  BY <1>0, <1>1 DEF FetchInstance, CopyOK, Allowed, Working
<1>2. CASE UpdateDeploymentScope
  <2>1. CASE Return(TRUE)
    BY <2>1, IdleKeeps
  <2>2. CASE pc' = "annotate"
    BY <2>2 DEF CopyOK, Allowed, Working
  <2> QED
    BY <1>2, <2>1, <2>2 DEF UpdateDeploymentScope
<1>3. CASE UpdateAnnotation
  <2>1. CASE Return(TRUE)
    BY <2>1, IdleKeeps
  <2>2. CASE pc' = "observe" /\ obj' = [obj EXCEPT !.annot = AfterInSync(@, obj.scope)]
    <3>1. obj'.annot = "day2" => obj'.scope = "principal"
      BY <1>0, <2>2, AfterInSyncValues DEF TypeOK, ObjectType
    <3> QED
      BY <2>2, <3>1 DEF CopyOK, Allowed, Working
  <2> QED
    BY <1>3, <2>1, <2>2 DEF UpdateAnnotation, ReadAndWrite
<1>4. CASE UpdateObserved
  <2> DEFINE new == [obj EXCEPT !.observed = obj.gen, !.reconciled = @ /\ ~Day2Change]
  <2>1. CASE Return(TRUE)
    BY <2>1, IdleKeeps
  <2>2. CASE pc' = "finalizer" /\ obj' = new /\ copy' = new
    <3>1. obj.annot = "day2" => obj.scope = "principal"
      BY <1>0, <1>4 DEF UpdateObserved, CopyOK
    <3>2. obj'.annot = obj.annot /\ obj'.scope = obj.scope /\ copy' = obj'
      BY <1>0, <2>2 DEF TypeOK, ObjectType
    <3> QED
      BY <2>2, <3>1, <3>2 DEF CopyOK, Allowed, Working
  <2> QED
    BY <1>4, <2>1, <2>2 DEF UpdateObserved, ReadAndWrite
<1>5. CASE AddFinalizer
  <2>1. CASE Return(TRUE) \/ Return(FALSE)
    BY <2>1, IdleKeeps
  <2>2. CASE pc' = "find" /\ UNCHANGED <<obj, localVars>>
    BY <1>0, <1>5, <2>2 DEF AddFinalizer, CopyOK, Allowed, Working, localVars
  <2> QED
    BY <1>5, <2>1, <2>2 DEF AddFinalizer
<1>6. CASE FindExistingResource
  <2>1. CASE Return(TRUE)
    BY <2>1, IdleKeeps
  <2>2. CASE Decide(ExistingResource) /\ UNCHANGED <<obj, copy>>
    <3> DEFINE r == ExistingResource
    <3> HIDE DEF r
    <3>1. Decide(r)
      BY <2>2 DEF r
    <3>2. pc' \in Working
      BY <3>1 DEF Decide, UpdateInPlace, UpdateOrReplace, Working
    <3>3. \/ mode' = "delete"
          \/ pc' \in {"new", "status"} /\ mode' # "replace"
          \/ ~Blocked
      BY <3>1 DEF Decide, UpdateInPlace, UpdateOrReplace
    <3>4. Blocked' = Blocked
      BY <2>2 DEF Blocked
    <3>5. pc \in Working
      BY <1>6 DEF FindExistingResource, Working
    <3> QED
      BY <1>0, <2>2, <3>2, <3>3, <3>4, <3>5 DEF CopyOK, Allowed
  <2>3. CASE mode' = "delete" /\ pc' = "unfinalize" /\ UNCHANGED <<obj, copy>>
    BY <1>0, <1>6, <2>3 DEF FindExistingResource, CopyOK, Allowed, Working
  <2> QED
    BY <1>6, <2>1, <2>2, <2>3 DEF FindExistingResource
<1>7. CASE DeleteResource
  BY <1>0, <1>7 DEF DeleteResource, CopyOK, Allowed, Working, Blocked
<1>8. CASE RemoveFinalizer
  <2> DEFINE new == [copy EXCEPT !.finalizer = FALSE,
                                 !.life = IF @ = "deleting" THEN "gone" ELSE @]
  <2>1. CASE mode = "delete"
    BY <1>8, <2>1, IdleKeeps DEF RemoveFinalizer
  <2>2. CASE mode = "replace"
    <3>1. /\ pc = "unfinalize" /\ pc' = "new" /\ mode' = mode
          /\ obj' \in {obj, new} /\ copy' \in {new, [copy EXCEPT !.finalizer = FALSE]}
      BY <1>8, <2>2 DEF RemoveFinalizer, Write, WriteFails
    <3>2. /\ new.scope = copy.scope /\ new.reconciled = copy.reconciled
          /\ new.annot = copy.annot
          /\ copy'.scope = copy.scope /\ copy'.reconciled = copy.reconciled
          /\ copy'.annot = copy.annot
      BY <1>0, <3>1 DEF TypeOK, ObjectType
    <3>3. CopyOK'
      BY <1>0, <3>1, <3>2 DEF CopyOK, Working
    <3>4. Allowed'
      BY <1>0, <2>2, <3>1, <3>2 DEF Allowed, Blocked
    <3> QED
      BY <3>3, <3>4
  <2> QED
    BY <1>8, <2>1, <2>2 DEF RemoveFinalizer
<1>9. CASE ReconcileNew
  BY <1>0, <1>9 DEF ReconcileNew, CopyOK, Allowed, Working, Blocked
<1>10. CASE ModifyResource
  BY <1>0, <1>10 DEF ModifyResource, CopyOK, Allowed, Working, Blocked
<1>11. CASE AddParam
  <2>1. /\ pc = "addParams" /\ pc' \in {pc, "status", "dropParams"}
        /\ UNCHANGED <<obj, copy, mode>>
    BY <1>11 DEF AddParam, ChangeParams
  <2> QED
    BY <1>0, <2>1 DEF CopyOK, Allowed, Working, Blocked
<1>12. CASE RemoveParam
  <2>1. /\ pc = "dropParams" /\ pc' \in {pc, "status"}
        /\ UNCHANGED <<obj, copy, mode>>
    BY <1>12 DEF RemoveParam, ChangeParams
  <2> QED
    BY <1>0, <2>1 DEF CopyOK, Allowed, Working, Blocked
<1>13. CASE UpdateStatus
  BY <1>13, IdleKeeps DEF UpdateStatus
<1>14. ASSUME NEW spec \in Specs, NEW want \in Scopes, UserApplies(spec, want)
       PROVE  CopyOK' /\ Allowed'
  <2>1. obj'.scope = obj.scope /\ obj'.reconciled = obj.reconciled /\ obj'.annot = obj.annot
    BY <1>0, <1>14 DEF UserApplies, TypeOK, ObjectType
  <2> QED
    BY <1>0, <1>14, <2>1 DEF UserApplies, CopyOK, Allowed, Blocked
<1>15. CASE UserDeletes
  <2>1. obj'.scope = obj.scope /\ obj'.reconciled = obj.reconciled /\ obj'.annot = obj.annot
    BY <1>0, <1>15 DEF UserDeletes, TypeOK, ObjectType
  <2> QED
    BY <1>0, <1>15, <2>1 DEF UserDeletes, CopyOK, Allowed, Blocked
<1>a. ASSUME NEW annot \in Annotations, UserAnnotates(annot)
      PROVE  CopyOK' /\ Allowed'
  <2>1. annot # "day2"
    BY ConstantsAssumption
  <2>2. obj'.scope = obj.scope /\ obj'.reconciled = obj.reconciled /\ obj'.annot = annot
    BY <1>0, <1>a DEF UserAnnotates, TypeOK, ObjectType
  <2> QED
    BY <1>0, <1>a, <2>1, <2>2 DEF UserAnnotates, CopyOK, Allowed, Blocked
<1>16. CASE ResourceLost
  BY <1>0, <1>16 DEF ResourceLost, CopyOK, Allowed, Blocked, localVars
<1>17. CASE Restart
  BY <1>17, IdleKeeps DEF Restart
<1>18. CASE UNCHANGED vars
  BY <1>0, <1>18 DEF vars, localVars, CopyOK, Allowed, Blocked
<1> QED
  BY <1>1, <1>2, <1>3, <1>4, <1>5, <1>6, <1>7, <1>8, <1>9, <1>10, <1>11, <1>12, <1>13,
     <1>14, <1>15, <1>a, <1>16, <1>17, <1>18 DEF Next, Reconcile, Environment

\* The step relation of NoChangeAfterReconciled follows from the invariant.
LEMMA ChangeNeedsDay2 ==
  CInv /\ [Next]_vars =>
    ((res' # res /\ losses' = losses /\ mode # "delete") =>
       \/ ~(obj.reconciled /\ obj.scope = "bootstrap")
       \/ copy.annot \in {"true", "other"})
<1> SUFFICES ASSUME CInv, Next, res' # res, losses' = losses, mode # "delete"
             PROVE  \/ ~(obj.reconciled /\ obj.scope = "bootstrap")
                    \/ copy.annot \in {"true", "other"}
  BY DEF vars
<1>0. TypeOK /\ CopyOK /\ Allowed
  BY DEF CInv, TInv
<1>1. DeleteResource \/ ReconcileNew \/ ModifyResource \/ AddParam \/ RemoveParam
  <2>1. ~ResourceLost
    BY <1>0 DEF ResourceLost, TypeOK
  <2> QED
    BY <2>1 DEF Next, Reconcile, Environment, FetchInstance, UpdateDeploymentScope,
       UpdateAnnotation, UpdateObserved, AddFinalizer, FindExistingResource,
       RemoveFinalizer, UpdateStatus, UserApplies, UserAnnotates, UserDeletes, Restart
<1>2. ~Blocked /\ pc \in Working
  BY <1>0, <1>1 DEF DeleteResource, ReconcileNew, ModifyResource, AddParam, RemoveParam,
     Allowed, Working
<1> QED
  BY <1>0, <1>2 DEF Blocked, CopyOK, TypeOK, ObjectType

\* For every kind of resource and any interleaving of user, operator, faults and
\* restarts: once an object is reconciled and its scope is bootstrap, Reconcile
\* changes its resource only to delete it with the object, or for an annotation of
\* the user that it has read.
THEOREM ReconciledLeftAlone == Spec => NoChangeAfterReconciled
<1>1. Init => CInv
  BY InitTyped DEF Init, CInv, CopyOK, Allowed, Working
<1>2. Spec => []CInv
  BY <1>1, StepAllowed, PTL DEF Spec
<1> QED
  BY <1>2, ChangeNeedsDay2, PTL DEF Spec, NoChangeAfterReconciled

-----------------------------------------------------------------------------
(* A controller with nothing queued tells the truth.                       *)

\* The object o and the copy c differ in the finalizer at most.
Same(o, c) ==
  /\ o.life = c.life /\ o.gen = c.gen /\ o.spec = c.spec /\ o.want = c.want
  /\ o.annot = c.annot /\ o.scope = c.scope /\ o.observed = c.observed
  /\ o.reconciled = c.reconciled /\ o.inSync = c.inSync /\ o.id = c.id

BeforeNew == {"scope", "annotate", "observe", "finalizer", "find", "delete", "unfinalize"}

\* A change since the read is in the queue, and without one the copy is the object;
\* the finalizer of the copy is off when its removal has failed.
FreshOK ==
  pc # "idle" =>
    /\ ~queued => fresh
    /\ fresh => Same(obj, copy)
    /\ (fresh /\ pc \in BeforeNew) => copy = obj

\* A Reconcile that has changed nothing has found done what it passed.
SeenOK ==
  (pc # "idle" /\ ~queued) =>
    /\ pc # "scope" => obj.scope = obj.want
    /\ (pc \notin {"scope", "annotate"} /\ obj.annot = "none") => obj.scope = "bootstrap"
    /\ pc \notin {"scope", "annotate", "observe"} => obj.observed = obj.gen
    /\ (pc \notin {"scope", "annotate", "observe", "finalizer"} /\ obj.life = "live")
         => obj.finalizer

\* An error is on its way to the end of Reconcile, a change is ignored for its
\* reason only, and Reconcile is where its mode says.
ErrorOK ==
  /\ error = "ignored" => pc = "status" /\ Blocked
  /\ (error = "retry" /\ pc # "status") => pc = "unfinalize" /\ mode = "delete"
  /\ (mode = "delete" /\ pc \in {"delete", "unfinalize"}) => copy.life = "deleting"
  /\ pc = "new" => mode # "update"
  /\ pc \notin {"addParams", "dropParams", "status"} => todo = {} /\ drop = {}

\* The resource is as spec says but for the parameters add and sub.
As(spec, add, sub) ==
  /\ Exists /\ res.type = spec.type
  /\ res.params = (spec.params \ add) \cup sub

\* Nobody but Reconcile changes the resource: what is still to be done makes it the
\* one of the copy, and without an error nothing is left.
ResourceOK ==
  losses = 0 =>
    /\ pc = "addParams" => /\ As(copy.spec, todo, drop) /\ res.id = Target
                           /\ todo \subseteq copy.spec.params
                           /\ drop \cap copy.spec.params = {}
    /\ pc = "dropParams" => /\ As(copy.spec, {}, drop) /\ res.id = found
                            /\ drop \cap copy.spec.params = {}
    /\ (pc = "status" /\ error = "none") => As(copy.spec, {}, {}) /\ res.id = found

WInv == FreshOK /\ SeenOK /\ ErrorOK /\ ResourceOK
QInv == TInv /\ WInv /\ QuietIsSettled

\* A Reconcile that returned holds nothing.
LEMMA Returned ==
  ASSUME NEW again \in BOOLEAN, Return(again)
  PROVE  WInv'
BY DEF Return, WInv, FreshOK, SeenOK, ErrorOK, ResourceOK

\* One that asks to run again is not quiet.
LEMMA ReturnedAgain ==
  ASSUME Return(TRUE)
  PROVE  QuietIsSettled'
BY DEF Return, QuietIsSettled, Quiet

\* A step inside Reconcile is not quiet either.
LEMMA Running ==
  ASSUME pc' # "idle"
  PROVE  QuietIsSettled'
BY DEF QuietIsSettled, Quiet

LEMMA SameRefl == \A o : Same(o, o)
BY DEF Same

\* Reconcile up to the search for the resource.
LEMMA StepsBeforeFind ==
  ASSUME QInv,
         FetchInstance \/ UpdateDeploymentScope \/ UpdateAnnotation \/ UpdateObserved
           \/ AddFinalizer
  PROVE  WInv' /\ QuietIsSettled'
<1>0. TypeOK /\ FreshOK /\ SeenOK /\ ErrorOK /\ ResourceOK /\ QuietIsSettled
  BY DEF QInv, WInv, TInv
<1>1. CASE FetchInstance
  <2>1. CASE obj.life = "gone"
    BY <1>0, <1>1, <2>1 DEF FetchInstance, WInv, FreshOK, SeenOK, ErrorOK, ResourceOK,
       QuietIsSettled, Quiet
  <2>2. CASE obj.life # "gone"
    <3>1. /\ pc = "idle" /\ pc' = "scope" /\ copy' = obj /\ fresh' = TRUE
          /\ UNCHANGED <<obj, mode, todo, drop, error>>
      BY <1>1, <2>2 DEF FetchInstance
    <3>2. FreshOK'
      BY <3>1, SameRefl DEF FreshOK
    <3>3. SeenOK' /\ ErrorOK' /\ ResourceOK'
      BY <1>0, <3>1 DEF SeenOK, ErrorOK, ResourceOK
    <3> QED
      BY <3>1, <3>2, <3>3, Running DEF WInv
  <2> QED
    BY <2>1, <2>2
<1>2. CASE UpdateDeploymentScope
  <2> DEFINE new == [copy EXCEPT !.scope = copy.want]
  <2>1. CASE Return(TRUE)
    BY <2>1, Returned, ReturnedAgain
  <2>2. CASE copy.scope = copy.want /\ pc' = "annotate" /\ UNCHANGED <<obj, queued, localVars>>
    <3>1. pc = "scope" /\ UNCHANGED <<obj, queued, copy, fresh, mode, todo, drop, error>>
      BY <1>2, <2>2 DEF UpdateDeploymentScope, localVars
    <3>2. FreshOK'
      BY <1>0, <2>2, <3>1 DEF FreshOK, BeforeNew, Same
    <3>3. SeenOK' /\ ErrorOK' /\ ResourceOK'
      BY <1>0, <2>2, <3>1 DEF FreshOK, BeforeNew, SeenOK, ErrorOK, ResourceOK
    <3> QED
      BY <2>2, <3>2, <3>3, Running DEF WInv
  <2>3. CASE Write(new) /\ pc' = "annotate" /\ UNCHANGED <<mode, found, todo, drop, error>>
    <3>1. pc = "scope" /\ obj' = new /\ copy' = new /\ queued' = (queued \/ new # obj)
      BY <1>2, <2>3 DEF UpdateDeploymentScope, Write
    <3>2. FreshOK'
      <4>1. queued' \/ fresh'
        BY <2>3 DEF Write
      <4> QED
        BY <3>1, <4>1, SameRefl DEF FreshOK
    <3>3. new.scope = new.want
      BY <1>0 DEF TypeOK, ObjectType
    <3>4. SeenOK'
      BY <2>3, <3>1, <3>3 DEF SeenOK
    <3>5. ErrorOK' /\ ResourceOK'
      BY <1>0, <2>3, <3>1 DEF ErrorOK, ResourceOK
    <3> QED
      BY <2>3, <3>2, <3>4, <3>5, Running DEF WInv
  <2> QED
    BY <1>2, <2>1, <2>2, <2>3 DEF UpdateDeploymentScope
<1>3. CASE UpdateAnnotation
  <2> DEFINE new == [obj EXCEPT !.annot = AfterInSync(@, obj.scope)]
  <2>1. CASE Return(TRUE)
    BY <2>1, Returned, ReturnedAgain
  <2>2. CASE /\ obj' = new /\ copy' = new /\ fresh' = TRUE
             /\ queued' = (queued \/ new # obj) /\ pc' = "observe"
             /\ UNCHANGED <<mode, found, todo, drop, error>>
    <3>1. pc = "annotate"
      BY <1>3 DEF UpdateAnnotation
    <3>2. FreshOK'
      BY <2>2, SameRefl DEF FreshOK
    <3>3. /\ new.scope = obj.scope /\ new.want = obj.want
          /\ new.annot = "none" => new.scope = "bootstrap"
      BY <1>0, AfterInSyncValues DEF TypeOK, ObjectType
    <3>5. SeenOK'
      BY <1>0, <2>2, <3>1, <3>3 DEF SeenOK
    <3>4. ErrorOK' /\ ResourceOK'
      BY <1>0, <2>2, <3>1 DEF ErrorOK, ResourceOK
    <3> QED
      BY <2>2, <3>2, <3>4, <3>5, Running DEF WInv
  <2> QED
    BY <1>3, <2>1, <2>2 DEF UpdateAnnotation, ReadAndWrite
<1>4. CASE UpdateObserved
  <2> DEFINE new == [obj EXCEPT !.observed = obj.gen, !.reconciled = @ /\ ~Day2Change]
  <2>1. CASE Return(TRUE)
    BY <2>1, Returned, ReturnedAgain
  <2>2. CASE /\ obj' = new /\ copy' = new /\ fresh' = TRUE
             /\ queued' = (queued \/ new # obj) /\ pc' = "finalizer"
             /\ UNCHANGED <<mode, found, todo, drop, error>>
    <3>1. pc = "observe"
      BY <1>4 DEF UpdateObserved
    <3>2. FreshOK'
      BY <2>2, SameRefl DEF FreshOK
    <3>3. new.observed = new.gen
      BY <1>0 DEF TypeOK, ObjectType
    <3>4. SeenOK'
      BY <1>0, <2>2, <3>1, <3>3 DEF SeenOK
    <3>5. ErrorOK' /\ ResourceOK'
      BY <1>0, <2>2, <3>1 DEF ErrorOK, ResourceOK
    <3> QED
      BY <2>2, <3>2, <3>4, <3>5, Running DEF WInv
  <2> QED
    BY <1>4, <2>1, <2>2 DEF UpdateObserved, ReadAndWrite
<1>5. CASE AddFinalizer
  <2> DEFINE new == [copy EXCEPT !.finalizer = TRUE]
  <2>1. CASE Return(TRUE)
    BY <2>1, Returned, ReturnedAgain
  <2>2. CASE ~copy.finalizer /\ fresh /\ obj' = new /\ Return(FALSE)
    <3>1. copy = obj
      BY <1>0, <1>5, <2>2 DEF AddFinalizer, FreshOK, BeforeNew
    <3>2. new.finalizer
      BY <1>0 DEF TypeOK, ObjectType
    <3>3. queued'
      BY <2>2, <3>1, <3>2 DEF Return
    <3> QED
      BY <2>2, <3>3, Returned DEF QuietIsSettled, Quiet
  <2>3. CASE /\ copy.life = "deleting" \/ copy.finalizer
             /\ pc' = "find" /\ UNCHANGED <<obj, queued, localVars>>
    <3>1. pc = "finalizer" /\ UNCHANGED <<obj, queued, copy, fresh, mode, todo, drop, error>>
      BY <1>5, <2>3 DEF AddFinalizer, localVars
    <3>2. FreshOK'
      BY <1>0, <2>3, <3>1 DEF FreshOK, BeforeNew, Same
    <3>3. SeenOK' /\ ErrorOK' /\ ResourceOK'
      BY <1>0, <2>3, <3>1 DEF FreshOK, BeforeNew, SeenOK, ErrorOK, ResourceOK
    <3> QED
      BY <2>3, <3>2, <3>3, Running DEF WInv
  <2> QED
    BY <1>5, <2>1, <2>2, <2>3 DEF AddFinalizer
<1> QED
  BY <1>1, <1>2, <1>3, <1>4, <1>5

\* The search: the resource that needs no change is the one of the copy, and the
\* parameters to add and to remove are the difference.
LEMMA StepFind ==
  ASSUME QInv, FindExistingResource
  PROVE  WInv' /\ QuietIsSettled'
<1>0. TypeOK /\ FreshOK /\ SeenOK /\ ErrorOK
  BY DEF QInv, WInv, TInv
<1>1. CASE Return(TRUE)
  BY <1>1, Returned, ReturnedAgain
<1>2. CASE /\ Fault /\ copy.life = "deleting" /\ mode' = "delete" /\ pc' = "unfinalize"
           /\ error' = "retry" /\ UNCHANGED <<obj, queued, copy, fresh, found, todo, drop>>
  <2>1. pc = "find"
    BY DEF FindExistingResource
  <2>2. FreshOK'
    BY <1>0, <1>2, <2>1 DEF FreshOK, BeforeNew, Same
  <2>3. SeenOK' /\ ErrorOK' /\ ResourceOK'
    BY <1>0, <1>2, <2>1 DEF SeenOK, ErrorOK, ResourceOK
  <2> QED
    BY <1>2, <2>2, <2>3, Running DEF WInv
<1>3. CASE /\ found' = ExistingResource.id /\ Decide(ExistingResource)
           /\ UNCHANGED <<obj, queued, copy, fresh>>
  <2> DEFINE r == ExistingResource
  <2>1. r.id = 0 \/ (r = res /\ Exists)
    BY <1>0 DEF ExistingResource, NoRes, Exists
  <2> HIDE DEF r
  <2>2. /\ pc = "find" /\ found' = r.id /\ Decide(r) /\ UNCHANGED <<obj, queued, copy, fresh, res>>
    BY <1>3 DEF r, FindExistingResource
  <2>3. /\ pc' \in {"delete", "unfinalize", "new", "status", "modify", "addParams"}
        /\ pc' \in {"delete", "unfinalize"} /\ mode' = "delete" => copy.life = "deleting"
        /\ pc' = "new" => mode' = "new"
        /\ error' = error \/ (error' = "ignored" /\ pc' = "status" /\ Blocked)
        /\ pc' # "addParams" => UNCHANGED <<todo, drop>>
    BY <2>2 DEF Decide, UpdateInPlace, UpdateOrReplace
  <2>4. error = "none" /\ todo = {} /\ drop = {}
    BY <1>0, <2>2 DEF ErrorOK, TypeOK
  <2>5. FreshOK'
    BY <1>0, <2>2, <2>3 DEF FreshOK, BeforeNew, Same
  <2>6. SeenOK'
    BY <1>0, <2>2, <2>3 DEF SeenOK
  <2>7. ErrorOK'
    BY <2>2, <2>3, <2>4 DEF ErrorOK, Blocked
  <2>8. ResourceOK'
    <3>1. (pc' = "status" /\ error' = "none") =>
             r.id # 0 /\ r.type = copy.spec.type /\ r.params = copy.spec.params
      BY <2>2 DEF Decide, UpdateInPlace, UpdateOrReplace
    <3>2. pc' = "addParams" =>
             /\ r.id # 0 /\ mode' = "update" /\ r.type = copy.spec.type
             /\ todo' = copy.spec.params \ r.params
             /\ drop' = r.params \ copy.spec.params
      BY <2>2 DEF Decide, UpdateInPlace, UpdateOrReplace
    <3>3. CASE pc' = "status" /\ error' = "none"
      BY <2>1, <2>2, <3>1, <3>3 DEF ResourceOK, As, Exists
    <3>4. CASE pc' = "addParams"
      <4>1. r = res /\ Exists
        BY <2>1, <3>2, <3>4
      <4>2. /\ res.params = (copy.spec.params \ todo') \cup drop'
            /\ todo' \subseteq copy.spec.params /\ drop' \cap copy.spec.params = {}
        BY <3>2, <3>4, <4>1
      <4> QED
        BY <2>2, <3>2, <3>4, <4>1, <4>2 DEF ResourceOK, As, Exists, Target
    <3> QED
      BY <2>3, <3>3, <3>4 DEF ResourceOK
  <2> QED
    BY <2>3, <2>5, <2>6, <2>7, <2>8, Running DEF WInv
<1> QED
  BY <1>1, <1>2, <1>3 DEF FindExistingResource

\* The requests that change the resource.
LEMMA StepsOnResource ==
  ASSUME QInv, DeleteResource \/ ReconcileNew \/ ModifyResource \/ AddParam \/ RemoveParam
  PROVE  WInv' /\ QuietIsSettled'
<1>0. TypeOK /\ IdsOK /\ FreshOK /\ SeenOK /\ ErrorOK /\ ResourceOK
  BY DEF QInv, WInv, TInv
<1>1. /\ UNCHANGED <<obj, queued, copy, fresh, mode, losses>>
      /\ pc \in {"delete", "new", "modify", "addParams", "dropParams"}
      /\ pc' \in {"unfinalize", "addParams", "dropParams", "status"}
      /\ pc' = "unfinalize" => pc = "delete"
  BY DEF DeleteResource, ReconcileNew, ModifyResource, AddParam, RemoveParam, ChangeParams
<1>2. FreshOK'
  BY <1>0, <1>1 DEF FreshOK, BeforeNew, Same
<1>3. SeenOK'
  BY <1>0, <1>1 DEF SeenOK
<1>4. error = "none"
  BY <1>0, <1>1 DEF ErrorOK, TypeOK
<1>5. QuietIsSettled'
  BY <1>1, Running
<1> SUFFICES ErrorOK' /\ ResourceOK'
  BY <1>2, <1>3, <1>5 DEF WInv
<1>6. CASE DeleteResource
  <2>1. /\ pc = "delete" /\ pc' = "unfinalize" /\ UNCHANGED <<copy, mode, todo, drop>>
        /\ error' = error \/ (error' = "retry" /\ mode = "delete")
    BY <1>6 DEF DeleteResource
  <2> QED
    BY <1>0, <1>4, <2>1 DEF ErrorOK, ResourceOK
<1>7. CASE ReconcileNew
  <2>0. pc = "new" /\ todo = {} /\ drop = {} /\ drop' = {}
    BY <1>0, <1>7 DEF ReconcileNew, ErrorOK
  <2>1. CASE pc' = "status" /\ error' \in {"ignored", "retry"}
    <3>1. error' = "ignored" => Blocked
      BY <1>4, <1>7, <2>1 DEF ReconcileNew
    <3> QED
      BY <1>1, <2>1, <3>1 DEF ErrorOK, ResourceOK, Blocked
  <2>2. CASE /\ res' = Created /\ nextId' = nextId + 1 /\ UNCHANGED error
             /\ Kind = "datanetwork" /\ pc' = "status" /\ found' = nextId
    <3>1. As(copy.spec, {}, {})' /\ res'.id = found'
      BY <1>0, <1>1, <2>2 DEF Created, As, Exists, IdsOK
    <3> QED
      BY <1>1, <1>4, <2>2, <3>1 DEF ErrorOK, ResourceOK
  <2>3. CASE /\ res' = Created /\ nextId' = nextId + 1 /\ UNCHANGED error
             /\ Kind # "datanetwork" /\ pc' = "addParams" /\ todo' = copy.spec.params
             /\ UNCHANGED found
    <3>1. res'.id = nextId /\ res'.type = copy.spec.type /\ res'.params = {}
      BY <2>3 DEF Created
    <3>2. (copy.spec.params \ todo') \cup drop' = {} /\ drop' \cap copy.spec.params = {}
      BY <2>0, <2>3
    <3>3. As(copy.spec, todo, drop)'
      BY <1>0, <1>1, <3>1, <3>2 DEF As, Exists, IdsOK
    <3>4. mode # "update"
      BY <1>0, <2>0 DEF ErrorOK
    <3>5. Target' = nextId
      BY <1>0, <1>1, <2>3, <3>4 DEF Target, TypeOK
    <3> QED
      BY <1>1, <1>4, <2>3, <3>1, <3>2, <3>3, <3>5 DEF ErrorOK, ResourceOK
  <2> QED
    BY <1>7, <2>1, <2>2, <2>3 DEF ReconcileNew
<1>8. CASE ModifyResource
  <2>1. CASE error' = "retry"
    BY <1>1, <1>8, <2>1 DEF ModifyResource, ErrorOK, ResourceOK
  <2>2. CASE /\ res' = [id |-> found, type |-> copy.spec.type, params |-> copy.spec.params]
             /\ UNCHANGED error
    <3>1. pc = "modify" /\ pc' = "status" /\ found' = found /\ found # 0
      BY <1>0, <1>8 DEF ModifyResource, IdsOK
    <3>2. As(copy.spec, {}, {})' /\ res'.id = found'
      BY <1>1, <2>2, <3>1 DEF As, Exists
    <3> QED
      BY <1>4, <2>2, <3>1, <3>2 DEF ErrorOK, ResourceOK
  <2> QED
    BY <1>8, <2>1, <2>2 DEF ModifyResource
<1>9. ASSUME NEW P, Exists, ChangeParams(P)
      PROVE  \/ pc' = "status" /\ error' = "retry"
             \/ /\ pc' = pc /\ error' = error /\ Exists'
                /\ res'.id = res.id /\ res'.type = res.type /\ res'.params = P
  <2>1. CASE pc' = "status" /\ error' = "retry"
    BY <2>1
  <2>2. CASE res' = [res EXCEPT !.params = P] /\ UNCHANGED <<pc, error>>
    <3>1. res \in Resources
      BY <1>0, <1>9 DEF TypeOK, Exists, NoRes, Resources
    <3>2. res'.id = res.id /\ res'.type = res.type /\ res'.params = P
      BY <2>2, <3>1 DEF Resources
    <3> QED
      BY <1>9, <2>2, <3>2 DEF Exists
  <2> QED
    BY <1>9, <2>1, <2>2 DEF ChangeParams
<1>10. CASE AddParam
  <2>0. pc = "addParams" /\ drop' = drop /\ nextId' = nextId
    BY <1>10 DEF AddParam
  <2>1. CASE pc' = "status" /\ error' = "retry"
    BY <1>1, <2>1 DEF ErrorOK, ResourceOK
  <2>2. ASSUME NEW p \in todo, Exists, ChangeParams(res.params \cup {p}),
               ~(pc' = "status" /\ error' = "retry"), todo' = todo \ {p}, UNCHANGED found
        PROVE  ErrorOK' /\ ResourceOK'
    <3>1. /\ pc' = pc /\ error' = error /\ Exists' /\ res'.id = res.id
          /\ res'.type = res.type /\ res'.params = res.params \cup {p}
      BY <1>9, <2>2
    <3>2. Target' = Target
      BY <1>1, <2>0, <2>2 DEF Target
    <3>3. ASSUME losses' = 0
          PROVE  /\ As(copy.spec, todo, drop)' /\ res'.id = Target'
                 /\ todo' \subseteq copy'.spec.params
                 /\ drop' \cap copy'.spec.params = {}
      <4>1. /\ As(copy.spec, todo, drop) /\ res.id = Target
            /\ drop \cap copy.spec.params = {}
        BY <1>0, <1>1, <2>0, <3>3 DEF ResourceOK
      <4>2. p \in copy.spec.params /\ todo \ {p} \subseteq copy.spec.params
        <5>1. todo \subseteq copy.spec.params
          BY <1>0, <1>1, <2>0, <3>3 DEF ResourceOK
        <5> QED
          BY <2>2, <5>1
      <4>3. res.params \cup {p} = (copy.spec.params \ (todo \ {p})) \cup drop
        BY <4>1, <4>2 DEF As
      <4> QED
        BY <1>1, <2>0, <2>2, <3>1, <3>2, <4>1, <4>2, <4>3 DEF As
    <3> QED
      BY <1>4, <2>0, <3>1, <3>3 DEF ErrorOK, ResourceOK
  <2>3. CASE /\ todo = {}
             /\ pc' = IF drop = {} THEN "status" ELSE "dropParams"
             /\ found' = Target
             /\ UNCHANGED <<res, todo, error, faults>>
    <3>1. ASSUME losses' = 0
          PROVE  /\ As(copy.spec, {}, drop)' /\ res'.id = found'
                 /\ drop' \cap copy'.spec.params = {}
      BY <1>0, <1>1, <2>0, <2>3, <3>1 DEF ResourceOK, As, Exists
    <3>2. drop = {} => (As(copy.spec, {}, drop)' => As(copy.spec, {}, {})')
      BY <2>0 DEF As
    <3> QED
      BY <1>4, <2>0, <2>3, <3>1, <3>2 DEF ErrorOK, ResourceOK
  <2> QED
    BY <1>10, <2>1, <2>2, <2>3 DEF AddParam
<1>11. CASE RemoveParam
  <2>0. pc = "dropParams" /\ found' = found
    BY <1>11 DEF RemoveParam
  <2>1. CASE pc' = "status" /\ error' = "retry"
    BY <1>1, <2>1 DEF ErrorOK, ResourceOK
  <2>2. ASSUME NEW p \in drop, Exists, ChangeParams(res.params \ {p}),
               ~(pc' = "status" /\ error' = "retry"), drop' = drop \ {p}
        PROVE  ErrorOK' /\ ResourceOK'
    <3>1. /\ pc' = pc /\ error' = error /\ Exists' /\ res'.id = res.id
          /\ res'.type = res.type /\ res'.params = res.params \ {p}
      BY <1>9, <2>2
    <3>2. ASSUME losses' = 0
          PROVE  /\ As(copy.spec, {}, drop)' /\ res'.id = found'
                 /\ drop' \cap copy'.spec.params = {}
      <4>1. /\ As(copy.spec, {}, drop) /\ res.id = found
            /\ drop \cap copy.spec.params = {}
        BY <1>0, <1>1, <2>0, <3>2 DEF ResourceOK
      <4>2. res.params \ {p} = (copy.spec.params \ {}) \cup (drop \ {p})
        BY <2>2, <4>1 DEF As
      <4> QED
        BY <1>1, <2>0, <2>2, <3>1, <4>1, <4>2 DEF As
    <3> QED
      BY <1>4, <2>0, <3>1, <3>2 DEF ErrorOK, ResourceOK
  <2>3. CASE drop = {} /\ pc' = "status" /\ UNCHANGED <<res, drop, error, faults>>
    <3>1. ASSUME losses' = 0
          PROVE  As(copy.spec, {}, {})' /\ res'.id = found'
      BY <1>0, <1>1, <2>0, <2>3, <3>1 DEF ResourceOK, As, Exists
    <3> QED
      BY <1>4, <2>3, <3>1 DEF ErrorOK, ResourceOK
  <2> QED
    BY <1>11, <2>1, <2>2, <2>3 DEF RemoveParam
<1> QED
  BY <1>6, <1>7, <1>8, <1>10, <1>11

\* The finalizer: the removal changes nothing else while the copy is fresh.
LEMMA StepRemoveFinalizer ==
  ASSUME QInv, RemoveFinalizer
  PROVE  WInv' /\ QuietIsSettled'
<1> DEFINE new == [copy EXCEPT !.finalizer = FALSE,
                               !.life = IF @ = "deleting" THEN "gone" ELSE @]
<1>0. TypeOK /\ FreshOK /\ SeenOK /\ ErrorOK
  BY DEF QInv, WInv, TInv
<1>1. CASE mode = "delete"
  <2>1. Return(error = "retry") /\ copy.life = "deleting"
    BY <1>0, <1>1 DEF RemoveFinalizer, ErrorOK
  <2>2. QuietIsSettled'
    <3> SUFFICES ASSUME ~queued', obj'.life = "live"
                 PROVE  FALSE
      BY DEF QuietIsSettled, Quiet
    <3>1. ~queued /\ obj' = obj
      BY <2>1 DEF Return
    <3>2. copy = obj
      BY <1>0, <3>1 DEF RemoveFinalizer, FreshOK, BeforeNew
    <3> QED
      BY <2>1, <3>1, <3>2
  <2> QED
    BY <2>1, <2>2, Returned
<1>2. CASE mode = "replace"
  <2>1. /\ pc = "unfinalize" /\ pc' = "new"
        /\ UNCHANGED <<mode, found, todo, drop, error, losses>>
    BY <1>2 DEF RemoveFinalizer
  <2>2. ErrorOK' /\ ResourceOK'
    <3>1. error = "none" /\ todo = {} /\ drop = {}
      BY <1>0, <1>2, <2>1 DEF ErrorOK, TypeOK
    <3> QED
      BY <1>2, <2>1, <3>1 DEF ErrorOK, ResourceOK
  <2>3. queued' = (queued \/ obj' # obj)
    BY <1>2 DEF RemoveFinalizer, Write
  <2>4. SeenOK'
    BY <1>0, <2>1, <2>3 DEF SeenOK
  <2>5. FreshOK'
    <3>1. CASE Write(new)
      <4>1. obj' = copy' /\ fresh'
        BY <3>1 DEF Write
      <4> QED
        BY <4>1, SameRefl DEF FreshOK
    <3>2. CASE /\ copy' = [copy EXCEPT !.finalizer = FALSE]
               /\ fresh' = (fresh /\ obj' = obj)
      <4>1. ~queued' => fresh'
        BY <1>0, <2>1, <2>3, <3>2 DEF FreshOK
      <4>2. Same(copy, copy')
        BY <1>0, <3>2 DEF Same, TypeOK, ObjectType
      <4>3. fresh' => Same(obj', copy')
        BY <1>0, <2>1, <3>2, <4>2 DEF FreshOK, BeforeNew
      <4> QED
        BY <2>1, <4>1, <4>3 DEF FreshOK, BeforeNew, Same
    <3> QED
      BY <1>2, <3>1, <3>2 DEF RemoveFinalizer
  <2> QED
    BY <2>1, <2>2, <2>4, <2>5, Running DEF WInv
<1> QED
  BY <1>1, <1>2 DEF RemoveFinalizer

\* The end of a Reconcile that has changed nothing and does not ask to run again:
\* the status it leaves is the one it would have written.
LEMMA StepStatus ==
  ASSUME QInv, UpdateStatus
  PROVE  WInv' /\ QuietIsSettled'
<1> DEFINE new == StatusOf(error = "none")
<1>0. TypeOK /\ FreshOK /\ SeenOK /\ ErrorOK /\ ResourceOK
  BY DEF QInv, WInv, TInv
<1>1. CASE Return(TRUE)
  BY <1>1, Returned, ReturnedAgain
<1>2. CASE /\ Return(error = "retry")
           /\ \/ ~StatusUpdateRequired(error = "none") /\ obj' = obj
              \/ obj' = new
  <2>1. WInv'
    BY <1>2, Returned
  <2>2. QuietIsSettled'
    <3> SUFFICES ASSUME ~queued', obj'.life = "live", losses' = 0
                 PROVE  /\ obj'.observed = obj'.gen /\ obj'.scope = obj'.want /\ obj'.finalizer
                        /\ \/ obj'.inSync /\ Matches' /\ obj'.id = res'.id
                           \/ /\ ~obj'.inSync /\ obj'.reconciled
                              /\ obj'.scope = "bootstrap" /\ obj'.annot = "none"
      BY DEF QuietIsSettled, Quiet
    <3>1. ~queued /\ obj' = obj /\ error # "retry"
      BY <1>2 DEF Return
    <3>2. pc = "status" /\ res' = res /\ losses = 0
      BY DEF UpdateStatus
    <3>3. Same(obj, copy)
      BY <1>0, <3>1, <3>2 DEF FreshOK
    <3>4. /\ obj.observed = obj.gen /\ obj.scope = obj.want /\ obj.finalizer
          /\ obj.annot = "none" => obj.scope = "bootstrap"
      BY <1>0, <3>1, <3>2 DEF SeenOK
    <3>5. CASE error = "none"
      <4>1. As(copy.spec, {}, {}) /\ res.id = found
        BY <1>0, <3>2, <3>5 DEF ResourceOK
      <4>2. Matches
        BY <3>3, <4>1 DEF As, Matches, Same
      <4>3. obj.inSync /\ obj.id = found
        <5>1. CASE ~StatusUpdateRequired(TRUE)
          BY <1>0, <3>3, <4>1, <5>1 DEF StatusUpdateRequired, Same, As, Exists, TypeOK, ObjectType
        <5>2. CASE obj = StatusOf(TRUE)
          <6>1. StatusOf(TRUE).inSync /\ StatusOf(TRUE).id = found
            BY <1>0 DEF StatusOf, TypeOK, ObjectType
          <6> QED
            BY <5>2, <6>1
        <5> QED
          BY <1>2, <3>1, <3>5, <5>1, <5>2
      <4>4. Matches'
        BY <3>1, <3>2, <4>2 DEF Matches, Exists
      <4> QED
        BY <3>1, <3>2, <3>4, <4>1, <4>3, <4>4
    <3>6. CASE error = "ignored"
      <4>1. obj.reconciled /\ obj.annot = "none"
        BY <1>0, <3>3, <3>6 DEF ErrorOK, Blocked, Same
      <4>2. ~obj.inSync
        <5>1. CASE ~StatusUpdateRequired(FALSE)
          BY <1>0, <3>3, <5>1 DEF StatusUpdateRequired, Same, TypeOK, ObjectType
        <5>2. CASE obj = StatusOf(FALSE)
          <6>1. ~StatusOf(FALSE).inSync
            BY <1>0 DEF StatusOf, TypeOK, ObjectType
          <6> QED
            BY <5>2, <6>1
        <5>3. (error = "none") = FALSE
          BY <3>6
        <5> QED
          BY <1>2, <3>1, <5>1, <5>2, <5>3
      <4> QED
        BY <3>1, <3>4, <4>1, <4>2
    <3> QED
      BY <1>0, <3>1, <3>5, <3>6 DEF TypeOK
  <2> QED
    BY <2>1, <2>2
<1> QED
  BY <1>1, <1>2 DEF UpdateStatus

LEMMA StepQuiet == QInv /\ [Next]_vars => QInv'
<1> SUFFICES ASSUME QInv, [Next]_vars PROVE QInv'
  OBVIOUS
<1>0. TypeOK /\ TInv /\ FreshOK /\ SeenOK /\ ErrorOK /\ ResourceOK /\ QuietIsSettled
  BY DEF QInv, WInv, TInv
<1>t. TInv'
  BY <1>0, StepTyped
<1> SUFFICES WInv' /\ QuietIsSettled'
  BY <1>t DEF QInv
<1>1. CASE Reconcile
  BY <1>1, StepsBeforeFind, StepFind, StepsOnResource, StepRemoveFinalizer, StepStatus
     DEF Reconcile
<1>2. ASSUME queued', ~fresh', UNCHANGED <<pc, copy, mode, found, todo, drop, error, res,
                                           nextId, losses>>
      PROVE  WInv' /\ QuietIsSettled'
  <2>1. FreshOK' /\ SeenOK' /\ QuietIsSettled'
    BY <1>2 DEF FreshOK, SeenOK, QuietIsSettled, Quiet
  <2>2. ErrorOK'
    BY <1>0, <1>2 DEF ErrorOK, Blocked
  <2>3. ResourceOK'
    BY <1>0, <1>2 DEF ResourceOK, As, Exists, Target
  <2> QED
    BY <2>1, <2>2, <2>3 DEF WInv
<1>3. ASSUME NEW spec \in Specs, NEW want \in Scopes, UserApplies(spec, want)
      PROVE  WInv' /\ QuietIsSettled'
  BY <1>2, <1>3 DEF UserApplies, boundVars
<1>a. ASSUME NEW annot \in Annotations, UserAnnotates(annot)
      PROVE  WInv' /\ QuietIsSettled'
  BY <1>2, <1>a DEF UserAnnotates, boundVars
<1>4. CASE UserDeletes
  BY <1>2, <1>4 DEF UserDeletes, boundVars
<1>5. CASE ResourceLost
  <2>1. losses' # 0 /\ UNCHANGED <<obj, queued, pc, copy, fresh, mode, todo, drop, error>>
    BY <1>0, <1>5 DEF ResourceLost, TypeOK, localVars
  <2> QED
    BY <1>0, <2>1 DEF WInv, FreshOK, Same, SeenOK, ErrorOK, Blocked, ResourceOK,
       QuietIsSettled
<1>6. CASE Restart
  <2>1. Return(obj.life # "gone") /\ obj' = obj
    BY <1>6 DEF Restart
  <2> QED
    BY <2>1, Returned DEF Return, QuietIsSettled, Quiet
<1>7. CASE UNCHANGED vars
  BY <1>0, <1>7 DEF vars, localVars, boundVars, WInv, FreshOK, Same, SeenOK, ErrorOK, Blocked,
     ResourceOK, As, Exists, Target, QuietIsSettled, Quiet, Matches
<1> QED
  BY <1>1, <1>3, <1>a, <1>4, <1>5, <1>6, <1>7 DEF Next, Environment

LEMMA InitQuiet == Init => QInv
<1> SUFFICES ASSUME Init PROVE QInv
  OBVIOUS
<1>1. TInv
  BY InitTyped
<1>2. queued /\ pc = "idle" /\ todo = {} /\ drop = {} /\ error = "none"
  BY DEF Init
<1> QED
  BY <1>1, <1>2 DEF QInv, WInv, FreshOK, SeenOK, ErrorOK, ResourceOK, QuietIsSettled, Quiet

\* For every kind of resource and any interleaving of user, faults and restarts: a
\* controller with nothing queued has seen the last generation and scope, and has
\* recorded in the status whether the resource is as the object says.
THEOREM QuietSettled == Spec => []QuietIsSettled
<1>1. Spec => []QInv
  BY InitQuiet, StepQuiet, PTL DEF Spec
<1>2. QInv => QuietIsSettled
  BY DEF QInv
<1> QED
  BY <1>1, <1>2, PTL

-----------------------------------------------------------------------------
(* The strategy manager knows of a Day-2 change that is not applied yet.   *)

\* The objects whose user asks for Day-2 operation from the start: a change that
\* was observed under the bootstrap scope is not reported when the scope changes.
OnlyDay2 == Scopes = {"principal"}

BeforeFinalizer == {"idle", "scope", "annotate", "observe"}

\* A generation is observed after the user has made it and in the user's scope.
ObservedOK ==
  /\ obj.gen > 0 /\ obj.observed <= obj.gen
  /\ obj.want = "principal" /\ copy.want = "principal"
  /\ obj.scope # "principal" => obj.observed = 0
  /\ pc = "scope" => copy.scope = obj.scope
  /\ pc \notin {"idle", "scope"} => obj.scope = "principal"

\* Reconcile works for the generation that is observed, and a deletion is final.
WorkOK ==
  /\ (pc \notin BeforeFinalizer /\ obj.observed = obj.gen) => copy.spec = obj.spec
  /\ (pc # "idle" /\ copy.life = "deleting") => obj.life # "live"

\* A change that was observed in this process and has no end yet.
Pending ==
  /\ obj.life = "live" /\ obj.scope = "principal"
  /\ obj.observed = obj.gen /\ ~obj.reconciled
  /\ losses = 0 /\ restarts = 0

\* Reconcile is changing the resource, which was not as the object says.
Changing ==
  \/ pc \in {"modify", "addParams", "dropParams"}
  \/ pc \in {"delete", "unfinalize"} /\ mode # "delete"
  \/ pc = "new" /\ mode = "replace"

BusyOK == (Pending /\ (~Matches \/ Changing)) => report = "busy"

BInv == QInv /\ ObservedOK /\ WorkOK /\ BusyOK

\* What every write but those of the scope and of the generation leaves alone.
Keeps(o) ==
  /\ o.gen = obj.gen /\ o.spec = obj.spec /\ o.want = obj.want /\ o.scope = obj.scope
  /\ o.observed = obj.observed
  /\ o.life = "live" => obj.life = "live"
  /\ obj.reconciled => o.reconciled

LEMMA KeepsRefl == Keeps(obj)
BY DEF Keeps

LEMMA ObjectKept ==
  ASSUME ObservedOK, WorkOK, Keeps(obj'),
         \/ Return(TRUE) \/ Return(FALSE)
         \/ /\ pc \notin BeforeFinalizer /\ pc' \notin BeforeFinalizer
            /\ copy'.spec = copy.spec /\ copy'.want = copy.want
            /\ copy'.life = "deleting" => copy.life = "deleting"
  PROVE  ObservedOK' /\ WorkOK'
<1>1. CASE Return(TRUE) \/ Return(FALSE)
  <2>1. pc' = "idle" /\ copy' = obj'
    BY <1>1 DEF Return
  <2> QED
    BY <2>1 DEF ObservedOK, WorkOK, Keeps, BeforeFinalizer
<1>2. CASE /\ pc \notin BeforeFinalizer /\ pc' \notin BeforeFinalizer
           /\ copy'.spec = copy.spec /\ copy'.want = copy.want
           /\ copy'.life = "deleting" => copy.life = "deleting"
  BY <1>2 DEF ObservedOK, WorkOK, Keeps, BeforeFinalizer
<1> QED
  BY <1>1, <1>2

LEMMA BusyKept ==
  ASSUME BusyOK, Keeps(obj'), obj.reconciled \in BOOLEAN, UNCHANGED <<res, losses, restarts>>,
         \/ report' = report
         \/ Pending => Matches,
         Changing' => Changing /\ report' = report
  PROVE  BusyOK'
<1>1. Pending' => Pending
  BY DEF Pending, Keeps
<1>2. Matches' = Matches
  BY DEF Matches, Exists, Keeps
<1> QED
  BY <1>1, <1>2 DEF BusyOK

\* Reconcile changes nothing but the object once it has returned.
LEMMA IdleChangesNothing ==
  ASSUME NEW again \in BOOLEAN, Return(again)
  PROVE  ~Changing'
BY DEF Return, Changing

LEMMA StepsBeforeFinalizerBusy ==
  ASSUME OnlyDay2, BInv,
         FetchInstance \/ UpdateDeploymentScope \/ UpdateAnnotation \/ UpdateObserved
  PROVE  ObservedOK' /\ WorkOK' /\ BusyOK'
<1>0. TypeOK /\ FreshOK /\ ObservedOK /\ WorkOK /\ BusyOK /\ obj.reconciled \in BOOLEAN
  BY DEF BInv, QInv, WInv, TInv, TypeOK, ObjectType
<1>1. CASE FetchInstance
  <2>1. /\ obj' = obj /\ copy' \in {obj, copy} /\ pc = "idle"
        /\ (pc' = "idle" \/ (pc' = "scope" /\ copy' = obj))
        /\ UNCHANGED <<res, report, losses, restarts>>
    BY <1>1 DEF FetchInstance, boundVars
  <2>2. ObservedOK' /\ WorkOK'
    BY <1>0, <2>1 DEF ObservedOK, WorkOK, BeforeFinalizer
  <2>3. ~Changing'
    BY <2>1 DEF Changing
  <2> QED
    BY <1>0, <2>1, <2>2, <2>3, KeepsRefl, BusyKept
<1>2. CASE UpdateDeploymentScope
  <2> DEFINE new == [copy EXCEPT !.scope = copy.want]
  <2>0. pc = "scope" /\ UNCHANGED <<report, res, losses, restarts>>
    BY <1>2 DEF UpdateDeploymentScope
  <2>1. /\ new.gen = copy.gen /\ new.spec = copy.spec /\ new.want = copy.want
        /\ new.observed = copy.observed /\ new.life = copy.life /\ new.scope = copy.want
    BY <1>0 DEF TypeOK, ObjectType
  <2>2. CASE obj' = obj /\ (Return(TRUE) \/ (copy.scope = copy.want /\ pc' = "annotate" /\ copy' = copy))
    <3>1. ObservedOK' /\ WorkOK'
      <4>1. CASE Return(TRUE)
        BY <1>0, <2>2, <4>1, KeepsRefl, ObjectKept
      <4>2. CASE copy.scope = copy.want /\ pc' = "annotate" /\ copy' = copy
        BY <1>0, <2>0, <2>2, <4>2 DEF ObservedOK, WorkOK, BeforeFinalizer
      <4> QED
        BY <2>2, <4>1, <4>2
    <3>2. ~Changing'
      BY <2>2 DEF Changing, Return
    <3> QED
      BY <1>0, <2>0, <2>2, <3>1, <3>2, KeepsRefl, BusyKept
  <2>3. CASE /\ copy.scope # copy.want /\ fresh /\ obj' = new /\ copy' = new
             /\ pc' \in {"idle", "annotate"}
    <3>1. copy = obj
      BY <1>0, <2>0, <2>3 DEF FreshOK, BeforeNew
    <3>2. /\ obj.want = "principal" /\ obj.scope # "principal" /\ obj.observed = 0
          /\ obj.gen > 0 /\ obj.observed <= obj.gen
      BY <1>0, <2>3, <3>1 DEF ObservedOK
    <3>3. /\ obj'.gen = obj.gen /\ obj'.spec = obj.spec /\ obj'.want = "principal"
          /\ obj'.observed = 0 /\ obj'.life = obj.life /\ obj'.scope = "principal"
      BY <2>1, <2>3, <3>1, <3>2
    <3>4. ObservedOK' /\ WorkOK'
      BY <2>3, <3>2, <3>3 DEF ObservedOK, WorkOK, BeforeFinalizer
    <3>5. ~Pending'
      BY <1>0, <3>2, <3>3 DEF Pending, TypeOK, ObjectType
    <3> QED
      BY <3>4, <3>5 DEF BusyOK
  <2> QED
    BY <1>2, <2>2, <2>3 DEF UpdateDeploymentScope, Write, WriteFails, Return, localVars
<1>3. CASE UpdateAnnotation
  <2> DEFINE new == [obj EXCEPT !.annot = AfterInSync(@, obj.scope)]
  <2>0. pc = "annotate" /\ UNCHANGED <<report, res, losses, restarts>>
    BY <1>3 DEF UpdateAnnotation
  <2>1. Keeps(new)
    BY <1>0 DEF Keeps, TypeOK, ObjectType
  <2>2. Keeps(obj')
    BY <1>3, <2>1, KeepsRefl DEF UpdateAnnotation, ReadAndWrite
  <2>3. copy' = obj' /\ (Return(TRUE) \/ pc' = "observe")
    BY <1>3 DEF UpdateAnnotation, ReadAndWrite, Return
  <2>4. ~Changing'
    BY <2>3 DEF Changing, Return
  <2>5. ObservedOK' /\ WorkOK'
    <3>1. CASE Return(TRUE)
      BY <1>0, <2>2, <3>1, ObjectKept
    <3>2. CASE pc' = "observe"
      BY <1>0, <2>0, <2>2, <2>3, <3>2 DEF ObservedOK, WorkOK, Keeps, BeforeFinalizer
    <3> QED
      BY <2>3, <3>1, <3>2
  <2> QED
    BY <1>0, <2>0, <2>2, <2>4, <2>5, BusyKept
<1>4. CASE UpdateObserved
  <2> DEFINE new == [obj EXCEPT !.observed = obj.gen, !.reconciled = @ /\ ~Day2Change]
  <2>0. pc = "observe" /\ UNCHANGED <<res, losses, restarts>>
    BY <1>4 DEF UpdateObserved
  <2>1. /\ new.gen = obj.gen /\ new.spec = obj.spec /\ new.want = obj.want
        /\ new.scope = obj.scope /\ new.observed = obj.gen /\ new.life = obj.life
        /\ new.reconciled = (obj.reconciled /\ ~Day2Change)
    BY <1>0 DEF TypeOK, ObjectType
  <2>2. copy' = obj' /\ obj' \in {obj, new} /\ pc' \in {"idle", "finalizer"}
        /\ (pc' = "finalizer" => obj' = new)
    BY <1>4 DEF UpdateObserved, ReadAndWrite, Return
  <2>3. ObservedOK' /\ WorkOK'
    <3>1. /\ obj.gen > 0 /\ obj.observed <= obj.gen /\ obj.want = "principal"
          /\ obj.scope = "principal"
      BY <1>0, <2>0 DEF ObservedOK
    <3>2. /\ obj'.gen = obj.gen /\ obj'.want = "principal" /\ obj'.scope = "principal"
          /\ obj'.observed \in {obj.observed, obj.gen}
      BY <2>1, <2>2, <3>1
    <3>3. obj.gen <= obj.gen
      BY <1>0 DEF TypeOK, ObjectType
    <3> QED
      BY <2>2, <3>1, <3>2, <3>3 DEF ObservedOK, WorkOK, BeforeFinalizer
  <2>4. ~Changing'
    BY <2>2 DEF Changing
  <2>5. BusyOK'
    <3>1. CASE obj' = obj
      <4>1. report' \in {"busy", report}
        BY <1>4 DEF UpdateObserved
      <4>2. CASE report' = "busy"
        BY <4>2 DEF BusyOK
      <4>3. CASE report' = report
        BY <1>0, <2>0, <2>4, <3>1, <4>3, KeepsRefl, BusyKept
      <4> QED
        BY <4>1, <4>2, <4>3
    <3>2. CASE obj' = new /\ obj' # obj
      <4>1. obj.life # "gone"
        BY <1>4, <3>2 DEF UpdateObserved, ReadAndWrite
      <4>2. CASE Day2Change
        BY <1>4, <3>2, <4>1, <4>2 DEF UpdateObserved, BusyOK
      <4>3. CASE ~Day2Change
        <5>1. report' = report
          BY <1>4, <3>2, <4>3 DEF UpdateObserved
        <5>2. new.reconciled = obj.reconciled
          BY <1>0, <2>1, <4>3
        <5>3. obj.scope = "principal"
          BY <1>0, <2>0 DEF ObservedOK
        <5>4. CASE obj.observed # obj.gen
          <6>1. obj.reconciled
            BY <4>3, <5>3, <5>4 DEF Day2Change
          <6> QED
            BY <3>2, <5>2, <6>1 DEF BusyOK, Pending
        <5>5. CASE obj.observed = obj.gen
          <6>1. Keeps(obj')
            BY <2>1, <3>2, <5>2, <5>5 DEF Keeps
          <6> QED
            BY <1>0, <2>0, <2>4, <5>1, <6>1, BusyKept
        <5> QED
          BY <5>4, <5>5
      <4> QED
        BY <4>2, <4>3
    <3> QED
      BY <2>2, <3>1, <3>2
  <2> QED
    BY <2>3, <2>5
<1> QED
  BY <1>1, <1>2, <1>3, <1>4

LEMMA StepsOnFinalizerBusy ==
  ASSUME BInv, AddFinalizer \/ RemoveFinalizer
  PROVE  ObservedOK' /\ WorkOK' /\ BusyOK'
<1>0. TypeOK /\ FreshOK /\ ErrorOK /\ ObservedOK /\ WorkOK /\ BusyOK
  BY DEF BInv, QInv, WInv, TInv
<1>1. copy \in ObjectType /\ obj.reconciled \in BOOLEAN
  BY <1>0 DEF TypeOK, ObjectType
<1>2. UNCHANGED <<report, res, losses, restarts>>
  BY DEF AddFinalizer, RemoveFinalizer
<1>3. pc \in BeforeNew /\ pc \notin BeforeFinalizer
  BY DEF AddFinalizer, RemoveFinalizer, BeforeNew, BeforeFinalizer
<1>4. fresh => copy = obj
  BY <1>0, <1>3 DEF FreshOK, BeforeFinalizer
<1>5. CASE AddFinalizer
  <2> DEFINE new == [copy EXCEPT !.finalizer = TRUE]
  <2>1. fresh => Keeps(new)
    BY <1>1, <1>4 DEF Keeps, ObjectType
  <2>2. Keeps(obj')
    BY <1>5, <2>1, KeepsRefl DEF AddFinalizer, WriteFails
  <2>3. Return(TRUE) \/ Return(FALSE) \/ (pc' = "find" /\ copy' = copy)
    BY <1>5 DEF AddFinalizer, localVars
  <2>4. ~Changing'
    BY <2>3, IdleChangesNothing DEF Changing
  <2>5. ObservedOK' /\ WorkOK'
    BY <1>0, <1>3, <2>2, <2>3, ObjectKept DEF BeforeFinalizer
  <2> QED
    BY <1>0, <1>1, <1>2, <2>2, <2>4, <2>5, BusyKept
<1>6. CASE RemoveFinalizer
  <2> DEFINE new == [copy EXCEPT !.finalizer = FALSE,
                                 !.life = IF @ = "deleting" THEN "gone" ELSE @]
             off == [copy EXCEPT !.finalizer = FALSE]
  <2>1. /\ new.gen = copy.gen /\ new.spec = copy.spec /\ new.want = copy.want
        /\ new.scope = copy.scope /\ new.observed = copy.observed
        /\ new.reconciled = copy.reconciled
        /\ new.life = IF copy.life = "deleting" THEN "gone" ELSE copy.life
        /\ off.spec = copy.spec /\ off.want = copy.want /\ off.life = copy.life
    BY <1>1 DEF ObjectType
  <2>2. fresh => Keeps(new)
    BY <1>4, <2>1 DEF Keeps
  <2>3. Keeps(obj')
    BY <1>6, <2>2, KeepsRefl DEF RemoveFinalizer, Write, WriteFails
  <2>4. \/ Return(TRUE) \/ Return(FALSE)
        \/ /\ pc' = "new" /\ copy' \in {new, off} /\ mode' = mode /\ mode = "replace"
    <3>1. CASE mode = "delete"
      <4>1. Return(error = "retry")
        BY <1>6, <3>1 DEF RemoveFinalizer
      <4> QED
        BY <4>1
    <3>2. CASE mode = "replace"
      BY <1>6, <3>2 DEF RemoveFinalizer, Write
    <3> QED
      BY <1>6, <3>1, <3>2 DEF RemoveFinalizer
  <2>5. Changing' => Changing
    <3>1. mode = "replace" => Changing
      BY <1>6 DEF RemoveFinalizer, Changing
    <3> QED
      BY <2>4, <3>1, IdleChangesNothing
  <2>6. ObservedOK' /\ WorkOK'
    <3>1. CASE Return(TRUE) \/ Return(FALSE)
      BY <1>0, <2>3, <3>1, ObjectKept
    <3>2. CASE pc' = "new" /\ copy' \in {new, off}
      <4>1. /\ copy'.spec = copy.spec /\ copy'.want = copy.want
            /\ copy'.life = "deleting" => copy.life = "deleting"
        BY <2>1, <3>2
      <4>2. pc' \notin BeforeFinalizer
        BY <3>2 DEF BeforeFinalizer
      <4> QED
        BY <1>0, <1>3, <2>3, <4>1, <4>2, ObjectKept
    <3> QED
      BY <2>4, <3>1, <3>2
  <2> QED
    BY <1>0, <1>1, <1>2, <2>3, <2>5, <2>6, BusyKept
<1> QED
  BY <1>5, <1>6

\* Reconcile comes to change the resource when it is not as the copy says, and the
\* copy says what the object does as long as the change is the one observed.
LEMMA StepFindBusy ==
  ASSUME BInv, FindExistingResource
  PROVE  ObservedOK' /\ WorkOK' /\ BusyOK'
<1>0. TypeOK /\ ObservedOK /\ WorkOK /\ BusyOK /\ obj.reconciled \in BOOLEAN
  BY DEF BInv, QInv, WInv, TInv, TypeOK, ObjectType
<1>1. pc = "find" /\ obj' = obj /\ UNCHANGED <<report, res, losses, restarts>>
  BY DEF FindExistingResource
<1>2. Keeps(obj')
  BY <1>1, KeepsRefl
<1>3. CASE Return(TRUE)
  <2>1. ObservedOK' /\ WorkOK'
    BY <1>0, <1>2, <1>3, ObjectKept
  <2> QED
    BY <1>0, <1>1, <1>2, <1>3, <2>1, BusyKept, IdleChangesNothing
<1>4. CASE copy.life = "deleting" /\ mode' = "delete" /\ pc' = "unfinalize" /\ copy' = copy
  <2>1. ObservedOK' /\ WorkOK'
    BY <1>0, <1>1, <1>2, <1>4, ObjectKept DEF BeforeFinalizer
  <2>2. ~Changing'
    BY <1>4 DEF Changing
  <2> QED
    BY <1>0, <1>1, <1>2, <2>1, <2>2, BusyKept
<1>5. CASE Decide(ExistingResource) /\ copy' = copy
  <2> DEFINE r == ExistingResource
  <2>1. r.id = 0 \/ r = res
    BY DEF ExistingResource, NoRes
  <2> HIDE DEF r
  <2>2. Decide(r)
    BY <1>5 DEF r
  <2>3. pc' \in {"delete", "unfinalize", "new", "status", "modify", "addParams"}
    BY <2>2 DEF Decide, UpdateInPlace, UpdateOrReplace
  <2>4. Changing' => /\ r.id # 0
                     /\ r.type # copy.spec.type \/ r.params # copy.spec.params
    BY <2>2 DEF Decide, UpdateInPlace, UpdateOrReplace, Changing
  <2>5. ObservedOK' /\ WorkOK'
    BY <1>0, <1>1, <1>2, <1>5, <2>3, ObjectKept DEF BeforeFinalizer
  <2>6. CASE ~Changing'
    BY <1>0, <1>1, <1>2, <2>5, <2>6, BusyKept
  <2>7. CASE Changing'
    <3>1. res.type # copy.spec.type \/ res.params # copy.spec.params
      BY <2>1, <2>4, <2>7
    <3>2. Pending => copy.spec = obj.spec
      BY <1>0, <1>1 DEF Pending, WorkOK, BeforeFinalizer
    <3>3. Pending => ~Matches
      BY <3>1, <3>2 DEF Matches
    <3>4. Pending' => Pending
      BY <1>1 DEF Pending
    <3> QED
      BY <1>0, <1>1, <2>5, <3>3, <3>4 DEF BusyOK
  <2> QED
    BY <2>6, <2>7
<1> QED
  BY <1>3, <1>4, <1>5 DEF FindExistingResource

LEMMA StepsOnResourceBusy ==
  ASSUME BInv, DeleteResource \/ ReconcileNew \/ ModifyResource \/ AddParam \/ RemoveParam
  PROVE  ObservedOK' /\ WorkOK' /\ BusyOK'
<1>0. TypeOK /\ ErrorOK /\ ObservedOK /\ WorkOK /\ BusyOK /\ obj.reconciled \in BOOLEAN
  BY DEF BInv, QInv, WInv, TInv, TypeOK, ObjectType
<1>1. /\ UNCHANGED <<obj, copy, mode, report, losses, restarts>>
      /\ pc \in {"delete", "new", "modify", "addParams", "dropParams"}
      /\ pc' \in {"unfinalize", "addParams", "dropParams", "status"}
  BY DEF DeleteResource, ReconcileNew, ModifyResource, AddParam, RemoveParam, ChangeParams
<1>2. Keeps(obj')
  BY <1>1, KeepsRefl
<1>3. ObservedOK' /\ WorkOK'
  BY <1>0, <1>1, <1>2, ObjectKept DEF BeforeFinalizer
<1>4. Pending' => Pending
  BY <1>1 DEF Pending
<1>5. CASE ReconcileNew /\ res' = res /\ pc' = "status"
  BY <1>0, <1>1, <1>2, <1>3, <1>5, BusyKept DEF Changing
<1>6. CASE ~(ReconcileNew /\ res' = res /\ pc' = "status")
  <2>1. Pending => ~Matches \/ Changing
    <3>1. CASE ReconcileNew
      <4>1. ~Exists
        BY <1>6, <3>1 DEF ReconcileNew
      <4> QED
        BY <4>1 DEF Matches
    <3>2. CASE DeleteResource
      <4>1. pc = "delete"
        BY <3>2 DEF DeleteResource
      <4>2. mode = "delete" => obj.life # "live"
        BY <1>0, <4>1 DEF ErrorOK, WorkOK
      <4> QED
        BY <4>1, <4>2 DEF Pending, Changing
    <3>3. CASE ModifyResource \/ AddParam \/ RemoveParam
      BY <3>3 DEF ModifyResource, AddParam, RemoveParam, Changing
    <3> QED
      BY <3>1, <3>2, <3>3
  <2> QED
    BY <1>0, <1>1, <1>3, <1>4, <2>1 DEF BusyOK
<1> QED
  BY <1>5, <1>6

\* "Settled" is reported when the resource is as the object says.
LEMMA StepStatusBusy ==
  ASSUME BInv, UpdateStatus
  PROVE  ObservedOK' /\ WorkOK' /\ BusyOK'
<1> DEFINE new == StatusOf(error = "none")
<1>0. TypeOK /\ ResourceOK /\ ObservedOK /\ WorkOK /\ BusyOK /\ obj.reconciled \in BOOLEAN
  BY DEF BInv, QInv, WInv, TInv, TypeOK, ObjectType
<1>1. pc = "status" /\ UNCHANGED <<res, losses, restarts>>
  BY DEF UpdateStatus
<1>2. Keeps(new)
  <2>1. ASSUME NEW b \in BOOLEAN
        PROVE  Keeps(StatusOf(b))
    BY <1>0, <2>1 DEF StatusOf, Keeps, TypeOK, ObjectType
  <2> QED
    BY <2>1
<1>3. Keeps(obj')
  BY <1>2, KeepsRefl DEF UpdateStatus, WriteFails
<1>4. Return(TRUE) \/ Return(FALSE)
  <2>1. CASE error = "retry"
    BY <2>1 DEF UpdateStatus
  <2>2. CASE error # "retry"
    <3>1. (error = "retry") = FALSE
      BY <2>2
    <3> QED
      BY <3>1 DEF UpdateStatus
  <2> QED
    BY <2>1, <2>2
<1>5. ObservedOK' /\ WorkOK'
  BY <1>0, <1>3, <1>4, ObjectKept
<1>6. ~Changing'
  BY <1>4, IdleChangesNothing
<1>7. report' = report \/ (Pending => Matches)
  <2>1. CASE error # "none"
    BY <2>1 DEF UpdateStatus
  <2>2. CASE error = "none"
    <3>1. Pending => As(copy.spec, {}, {}) /\ copy.spec = obj.spec
      BY <1>0, <1>1, <2>2 DEF Pending, ResourceOK, WorkOK, BeforeFinalizer
    <3> QED
      BY <3>1 DEF As, Matches
  <2> QED
    BY <2>1, <2>2
<1> QED
  BY <1>0, <1>1, <1>3, <1>5, <1>6, <1>7, BusyKept

LEMMA StepBusy ==
  ASSUME OnlyDay2, BInv, [Next]_vars
  PROVE  BInv'
<1>0. QInv /\ TypeOK /\ ObservedOK /\ WorkOK /\ BusyOK /\ obj \in ObjectType
  BY DEF BInv, QInv, TInv, TypeOK
<1>q. QInv'
  BY <1>0, StepQuiet
<1> SUFFICES ObservedOK' /\ WorkOK' /\ BusyOK'
  BY <1>q DEF BInv
<1>1. CASE Reconcile
  BY <1>1, StepsBeforeFinalizerBusy, StepsOnFinalizerBusy, StepFindBusy, StepsOnResourceBusy,
     StepStatusBusy DEF Reconcile
<1>2. ASSUME NEW spec \in Specs, NEW want \in Scopes, UserApplies(spec, want)
      PROVE  ObservedOK' /\ WorkOK' /\ BusyOK'
  <2>1. UNCHANGED <<pc, copy, mode, res, report, losses, restarts>> /\ want = "principal"
    BY <1>2 DEF UserApplies, boundVars, OnlyDay2
  <2>2. ASSUME NEW g, obj' = [obj EXCEPT !.spec = spec, !.want = want, !.gen = g]
        PROVE  /\ obj'.spec = spec /\ obj'.want = want /\ obj'.gen = g
               /\ obj'.life = obj.life /\ obj'.scope = obj.scope
               /\ obj'.observed = obj.observed /\ obj'.reconciled = obj.reconciled
    BY <1>0, <2>2 DEF ObjectType
  <2>3. CASE spec = obj.spec
    <3>1. /\ obj'.spec = obj.spec /\ obj'.want = "principal" /\ obj'.gen = obj.gen
          /\ obj'.life = obj.life /\ obj'.scope = obj.scope
          /\ obj'.observed = obj.observed /\ obj'.reconciled = obj.reconciled
      BY <1>2, <2>1, <2>2, <2>3 DEF UserApplies
    <3>2. Keeps(obj')
      BY <1>0, <3>1 DEF Keeps, ObservedOK
    <3>3. ObservedOK' /\ WorkOK'
      BY <1>0, <2>1, <3>1 DEF ObservedOK, WorkOK
    <3>4. Changing' => Changing
      BY <2>1 DEF Changing
    <3>5. obj.reconciled \in BOOLEAN
      BY <1>0 DEF ObjectType
    <3> QED
      BY <1>0, <2>1, <3>2, <3>3, <3>4, <3>5, BusyKept
  <2>4. CASE spec # obj.spec
    <3>1. /\ obj'.want = "principal" /\ obj'.gen = obj.gen + 1
          /\ obj'.life = obj.life /\ obj'.scope = obj.scope
          /\ obj'.observed = obj.observed
      BY <1>2, <2>1, <2>2, <2>4 DEF UserApplies
    <3>2. obj.gen \in Nat /\ obj.observed \in Nat /\ obj.observed <= obj.gen
      BY <1>0 DEF ObjectType, ObservedOK
    <3>3. obj'.gen > 0 /\ obj'.observed <= obj'.gen /\ obj'.observed # obj'.gen
      BY <3>1, <3>2
    <3>4. ObservedOK' /\ WorkOK'
      BY <1>0, <2>1, <3>1, <3>3 DEF ObservedOK, WorkOK
    <3> QED
      BY <3>3, <3>4 DEF BusyOK, Pending
  <2> QED
    BY <2>3, <2>4
<1>a. ASSUME NEW annot \in Annotations, UserAnnotates(annot)
      PROVE  ObservedOK' /\ WorkOK' /\ BusyOK'
  <2>1. UNCHANGED <<pc, copy, mode, res, report, losses, restarts>>
    BY <1>a DEF UserAnnotates, boundVars
  <2>2. /\ obj'.spec = obj.spec /\ obj'.want = obj.want /\ obj'.gen = obj.gen
        /\ obj'.life = obj.life /\ obj'.scope = obj.scope
        /\ obj'.observed = obj.observed /\ obj'.reconciled = obj.reconciled
    BY <1>0, <1>a DEF UserAnnotates, ObjectType
  <2>3. Keeps(obj')
    BY <1>0, <2>2 DEF Keeps, ObservedOK
  <2>4. ObservedOK' /\ WorkOK'
    BY <1>0, <2>1, <2>2 DEF ObservedOK, WorkOK
  <2>5. (Changing' => Changing) /\ obj.reconciled \in BOOLEAN
    BY <1>0, <2>1 DEF Changing, ObjectType
  <2> QED
    BY <1>0, <2>1, <2>3, <2>4, <2>5, BusyKept
<1>3. CASE UserDeletes
  <2>1. UNCHANGED <<pc, copy>>
    BY <1>3 DEF UserDeletes
  <2>2. /\ obj'.spec = obj.spec /\ obj'.want = obj.want /\ obj'.gen = obj.gen
        /\ obj'.life # "live" /\ obj'.scope = obj.scope /\ obj'.observed = obj.observed
    BY <1>0, <1>3 DEF UserDeletes, ObjectType
  <2> QED
    BY <1>0, <2>1, <2>2 DEF ObservedOK, WorkOK, BusyOK, Pending
<1>4. CASE ResourceLost
  <2>1. losses' # 0 /\ UNCHANGED <<obj, pc, copy>>
    BY <1>0, <1>4 DEF ResourceLost, TypeOK, localVars
  <2> QED
    BY <1>0, <2>1 DEF ObservedOK, WorkOK, BusyOK, Pending
<1>5. CASE Restart
  <2>1. restarts' # 0 /\ obj' = obj
    BY <1>0, <1>5 DEF Restart, TypeOK
  <2>2. Return(TRUE) \/ Return(FALSE)
    BY <1>5 DEF Restart, Return
  <2>3. ObservedOK' /\ WorkOK'
    BY <1>0, <2>1, <2>2, KeepsRefl, ObjectKept
  <2> QED
    BY <2>1, <2>3 DEF BusyOK, Pending
<1>6. CASE UNCHANGED vars
  BY <1>0, <1>6 DEF vars, localVars, boundVars, ObservedOK, WorkOK, BusyOK, Pending, Matches,
     Exists, Changing
<1> QED
  BY <1>1, <1>2, <1>a, <1>3, <1>4, <1>5, <1>6 DEF Next, Environment

LEMMA InitBusy ==
  ASSUME OnlyDay2, Init
  PROVE  BInv
<1>1. PICK spec \in Specs, want \in Scopes :
        obj \in {NewObject(spec, want),
                 [NewObject(spec, want) EXCEPT !.finalizer = TRUE, !.id = 1,
                                               !.reconciled = TRUE, !.inSync = TRUE]}
  BY DEF Init
<1>2. obj.gen = 1 /\ obj.observed = 0 /\ obj.want = "principal"
  <2> DEFINE o == NewObject(spec, want)
  <2>1. o \in ObjectType
    BY NewObjectTyped
  <2>2. o.gen = 1 /\ o.observed = 0 /\ o.want = "principal"
    BY DEF NewObject, OnlyDay2
  <2> HIDE DEF o
  <2>3. obj \in {o, [o EXCEPT !.finalizer = TRUE, !.id = 1, !.reconciled = TRUE, !.inSync = TRUE]}
    BY <1>1 DEF o
  <2> QED
    BY <2>1, <2>2, <2>3 DEF ObjectType
<1>3. pc = "idle" /\ copy = obj
  BY DEF Init
<1> QED
  BY <1>2, <1>3, InitQuiet DEF BInv, ObservedOK, WorkOK, BusyOK, Pending, BeforeFinalizer

\* For every kind of resource and an object whose user asks for Day-2 operation: as
\* long as the process lives, a change that was observed and is not applied is
\* under reconcile for the strategy manager, whatever conflicts, fails or comes late.
THEOREM BusyReported ==
  ASSUME OnlyDay2
  PROVE  Spec => []BusyIsReported
<1>1. Init => BInv
  BY InitBusy
<1>2. BInv /\ [Next]_vars => BInv'
  BY StepBusy
<1>3. BInv => BusyIsReported
  BY DEF BInv, BusyOK, Pending, BusyIsReported
<1> QED
  BY <1>1, <1>2, <1>3, PTL DEF Spec

=============================================================================
