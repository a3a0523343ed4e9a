----------------------------- MODULE SystemProofs -----------------------------
(***************************************************************************)
(* Proofs about SystemReconciler, for every system, object and sequence of *)
(* what the user does and what fails.                                      *)
(***************************************************************************)
EXTENDS SystemReconciler, TLAPS

-----------------------------------------------------------------------------
(* The types of the variables.                                             *)

Requests == Values \cup Parameters \cup FileSystems \cup Names \cup Licenses \cup {"kube"}
            \cup SUBSET FileSystems
Strategies == {"not_required", "unlock_required"}

EarlyPCs == {"idle", "factory", "factoryFlag", "clean", "annotation", "config"}
LatePCs == {"defaults", "defaultFlag", "merge", "compare", "ready", "status"} \cup Stages

EarlyWork == [pc : EarlyPCs]
PopulateWork == [pc : {"populate"}, copy : ObjectType]
LateWork ==
  [pc : LatePCs, copy : ObjectType, info : SystemType, nodes : Nat, spec : SettingsType,
   done : SUBSET Requests, kube : BOOLEAN, ready : BOOLEAN, ok : BOOLEAN, wait : BOOLEAN]

TypeInv ==
  /\ simplex \in BOOLEAN /\ obj \in ObjectType /\ queued \in BOOLEAN /\ fresh \in BOOLEAN
  /\ sys \in SystemType /\ env \in EnvType /\ factory \in FactoryType
  /\ mgr \in [ready : BOOLEAN, notified : BOOLEAN,
              report : [reconciled : BOOLEAN, strategy : Strategies \cup {"none"}]]
  /\ mon \in {"none", "controllers", "resize"}
  /\ wk \in EarlyWork \cup PopulateWork \cup LateWork
  /\ later \in Seq(ActType) /\ faults \in Nat

LEMMA StagesDef == Stages = {"attributes", "certificates", "license", "drbd", "dns", "ntp", "ptp",
    "parameters", "staleParameters", "apply", "backends", "hosts", "fileSystems", "resize",
    "staleFileSystems"}
BY DEF Stages, Calls

LEMMA AfterDef ==
  /\ After("attributes") = "certificates" /\ After("certificates") = "license"
  /\ After("license") = "drbd" /\ After("drbd") = "dns" /\ After("dns") = "ntp"
  /\ After("ntp") = "ptp" /\ After("ptp") = "parameters"
  /\ After("parameters") = "staleParameters" /\ After("staleParameters") = "apply"
  /\ After("apply") = "backends" /\ After("backends") = "hosts"
  /\ After("hosts") = "fileSystems" /\ After("fileSystems") = "resize"
  /\ After("resize") = "staleFileSystems" /\ After("staleFileSystems") = "ready"
<1>1. ASSUME NEW n \in 1..15
      PROVE  After(Calls[n]) = Calls[n + 1]
  <2> DEFINE j == CHOOSE i \in 1..Len(Calls) : Calls[i] = Calls[n]
  <2>1. j \in 1..16 /\ Calls[j] = Calls[n]
    BY <1>1 DEF Calls
  <2>2. j = n
    BY <1>1, <2>1 DEF Calls
  <2>3. After(Calls[n]) = Calls[1 + j]
    BY DEF After
  <2> HIDE DEF j
  <2> QED
    BY <2>2, <2>3
<1> QED
  BY <1>1 DEF Calls

-----------------------------------------------------------------------------
(* The operators keep the types.                                           *)

LEMMA ConstantsTyped ==
  NoSettings \in SettingsType /\ NoDefaults \in SettingsType
<1>1. /\ [k \in Values |-> 0] \in [Values -> Nat]
      /\ [q \in Parameters |-> 0] \in [Parameters -> Nat]
      /\ [f \in FileSystems |-> 0] \in [FileSystems -> Nat]
  OBVIOUS
<1>2. NoSettings \in SettingsType
  BY <1>1 DEF NoSettings, SettingsType, Licenses
<1> QED
  BY <1>2 DEF NoDefaults, SettingsType, Licenses

LEMMA ObjectTyped ==
  ASSUME NEW o \in ObjectType
  PROVE  /\ \A t \in Scopes : [o EXCEPT !.scope = t] \in ObjectType
         /\ \A t \in Scopes : [o EXCEPT !.asked = t] \in ObjectType
         /\ \A u \in Strategies : [o EXCEPT !.strategy = u] \in ObjectType
         /\ \A b \in BOOLEAN : [o EXCEPT !.reconciled = b] \in ObjectType
         /\ \A a \in Annotations : [o EXCEPT !.after = a] \in ObjectType
         /\ \A b \in BOOLEAN, e \in SUBSET Deltas :
              [o EXCEPT !.inSync = b, !.delta = e] \in ObjectType
         /\ \A s \in SettingsType : [o EXCEPT !.defaults = s] \in ObjectType
         /\ \A s \in SettingsType, n \in Nat : [o EXCEPT !.spec = s, !.gen = n] \in ObjectType
         /\ \A d \in SUBSET Names, n \in Nat :
              [o EXCEPT !.spec.deprecated = d, !.gen = n] \in ObjectType
BY DEF ObjectType, SettingsType, Strategies

LEMMA ObserveTyped ==
  ASSUME NEW o \in ObjectType
  PROVE  /\ Observe(o) \in ObjectType
         /\ Observe(o).scope = o.scope /\ Observe(o).after = o.after
         /\ Observe(o).defaults = o.defaults /\ Observe(o).spec = o.spec
<1> DEFINE new(b, c) == [o EXCEPT !.observed = o.gen, !.strategy = "not_required",
                                 !.updated = b, !.reconciled = c]
<1>1. ASSUME NEW b \in BOOLEAN, NEW c \in BOOLEAN
      PROVE  /\ new(b, c) \in ObjectType
             /\ new(b, c).scope = o.scope /\ new(b, c).after = o.after
             /\ new(b, c).defaults = o.defaults /\ new(b, c).spec = o.spec
  BY DEF ObjectType
<1>2. o.reconciled \in BOOLEAN /\ (o.reconciled /\ o.scope # "principal") \in BOOLEAN
  BY DEF ObjectType
<1>3. \/ Observe(o) = o
      \/ Observe(o) = new(FALSE, o.reconciled)
      \/ Observe(o) = new(TRUE, o.reconciled /\ o.scope # "principal")
  BY DEF Observe, ObjectType
<1> QED
  BY <1>1, <1>2, <1>3

LEMMA StatusTyped ==
  ASSUME NEW o \in ObjectType, NEW b \in BOOLEAN
  PROVE  /\ statusUpdateRequired(o, b) \in ObjectType
         /\ statusUpdateRequired(o, b).defaults = o.defaults
<1>1. CASE b /\ ~o.reconciled
  BY <1>1 DEF statusUpdateRequired, ObjectType
<1>2. CASE ~(b /\ ~o.reconciled)
  BY <1>2 DEF statusUpdateRequired, ObjectType
<1> QED
  BY <1>1, <1>2

LEMMA MergeTyped ==
  ASSUME NEW d \in SettingsType, NEW s \in SettingsType
  PROVE  /\ MergeSystemSpecs(d, s) \in SettingsType
         /\ MergeSystemSpecs(d, s).certs = s.certs \cup d.certs
<1>1. /\ Over(d.val, s.val) \in [Values -> Nat]
      /\ Over(d.params, s.params) \in [Parameters -> Nat]
      /\ Over(d.fs, s.fs) \in [FileSystems -> Nat]
  BY DEF Over, SettingsType
<1> QED
  BY <1>1 DEF MergeSystemSpecs, SettingsType

LEMMA DifferencesTyped ==
  ASSUME NEW s \in SettingsType, NEW i \in SettingsType
  PROVE  Differences(s, i) \in SUBSET Deltas
BY DEF Differences, SettingsType, Deltas

-----------------------------------------------------------------------------
(* Type correctness.                                                       *)

LEMMA InitTyped == Init => TypeInv
<1> SUFFICES ASSUME Init PROVE TypeInv
  OBVIOUS
<1>1. PICK c \in Cases :
        /\ simplex = c.simplex /\ obj = c.obj /\ sys = c.sys /\ env = c.env
        /\ factory = c.factory /\ later = c.later /\ faults = c.faults
        /\ queued = TRUE /\ fresh = FALSE /\ mon = "none" /\ wk = NoWork
        /\ mgr = [ready |-> FALSE, notified |-> FALSE, report |-> NoReport]
  BY DEF Init
<1>2. mgr \in [ready : BOOLEAN, notified : BOOLEAN,
               report : [reconciled : BOOLEAN, strategy : Strategies \cup {"none"}]]
  BY <1>1 DEF NoReport
<1>3. wk \in EarlyWork
  BY <1>1 DEF NoWork, EarlyWork, EarlyPCs
<1>4. queued \in BOOLEAN /\ fresh \in BOOLEAN
  BY <1>1
<1>5. simplex \in BOOLEAN
  BY <1>1, CasesAssumption, Zenon
<1> QED
  BY <1>1, <1>2, <1>3, <1>4, <1>5, CasesAssumption DEF TypeInv

LEMMA FaultTyped ==
  ASSUME TypeInv, Fault \/ NoFault
  PROVE  faults' \in Nat
BY DEF TypeInv, Fault, NoFault

\* What a pass of Reconcile that starts over leaves.
LEMMA RetryTyped ==
  ASSUME Retry
  PROVE  wk' \in EarlyWork /\ wk'.pc = "idle" /\ queued' = TRUE
BY DEF Retry, NoWork, EarlyWork, EarlyPCs

LEMMA WriteTyped ==
  ASSUME TypeInv, NEW new \in ObjectType, Write(new) \/ ReadAndWrite(new)
  PROVE  /\ obj' = new /\ obj' \in ObjectType /\ queued' \in BOOLEAN /\ fresh' \in BOOLEAN
         /\ faults' \in Nat
BY DEF TypeInv, Write, ReadAndWrite, NoFault

LEMMA WriteFailsTyped ==
  ASSUME TypeInv, WriteFails
  PROVE  /\ obj' = obj /\ obj' \in ObjectType /\ fresh' \in BOOLEAN /\ faults' \in Nat
BY DEF TypeInv, WriteFails, Fault, NoFault

LEMMA GotoTyped ==
  ASSUME TypeInv, NEW pc, Goto(pc)
  PROVE  /\ wk \in EarlyWork /\ pc \in EarlyPCs => wk' \in EarlyWork /\ wk'.pc = pc
         /\ wk \in LateWork /\ pc \in LatePCs =>
              /\ wk' \in LateWork /\ wk'.pc = pc /\ wk'.copy = wk.copy /\ wk'.info = wk.info
              /\ wk'.spec = wk.spec /\ wk'.done = wk.done /\ wk'.ready = wk.ready
              /\ wk'.ok = wk.ok /\ wk'.wait = wk.wait
BY DEF Goto, EarlyWork, LateWork

\* The program counter tells which fields the worker has.
LEMMA PhaseTyped ==
  ASSUME TypeInv
  PROVE  /\ wk.pc \in EarlyPCs => wk \in EarlyWork
         /\ wk.pc = "populate" => wk \in PopulateWork
         /\ wk.pc \in LatePCs => wk \in LateWork
<1>1. Stages \cap (EarlyPCs \cup {"populate"}) = {}
  BY StagesDef DEF EarlyPCs
<1> QED
  BY <1>1 DEF TypeInv, EarlyWork, PopulateWork, LateWork, EarlyPCs, LatePCs

LEMMA ItemsTyped ==
  ASSUME TypeInv, wk.pc \in Stages
  PROVE  Items \subseteq Requests
<1>1. wk \in LateWork
  BY PhaseTyped DEF LatePCs
<1>2. S \in SettingsType /\ I \in SettingsType
  BY <1>1 DEF S, I, LateWork, SystemType
<1>3. DOMAIN S.params = Parameters
  BY <1>2 DEF SettingsType
<1>4. /\ ReconcileSystemAttributes \subseteq Values /\ ReconcileDRBD \subseteq Values
      /\ ReconcileDNS \subseteq Values /\ ReconcileNTP \subseteq Values
      /\ ReconcilePTP \subseteq Values
  BY DEF ReconcileSystemAttributes, ReconcileDRBD, ReconcileDNS, ReconcileNTP, ReconcilePTP,
     Differs, Values
<1>5. /\ ReconcileCertificates \subseteq Names /\ ReconcileLicense \subseteq Licenses
      /\ ReconcileStorageBackends \subseteq Names
  BY <1>2 DEF ReconcileCertificates, ReconcileLicense, ReconcileStorageBackends, SettingsType
<1>6. /\ ReconcileServiceParameters \subseteq Parameters /\ StaleServiceParameters \subseteq Parameters
      /\ ApplyServiceParameters \subseteq {"kube"}
  BY <1>3 DEF ReconcileServiceParameters, Changed, StaleServiceParameters, ApplyServiceParameters
<1>7. /\ ReconcileFileSystems \subseteq FileSystems
      /\ ResizeFileSystems \subseteq SUBSET FileSystems
      /\ StaleFileSystems \subseteq FileSystems
  BY DEF ReconcileFileSystems, ResizeFileSystems, Growing, StaleFileSystems
<1> QED
  BY <1>4, <1>5, <1>6, <1>7, StagesDef DEF Items, Requests

\* Assigning one field of the settings leaves the others.
LEMMA AssignTyped ==
  ASSUME NEW s \in SystemType, NEW set \in SettingsType
  PROVE  /\ [s EXCEPT !.set = set] \in SystemType
         /\ [s EXCEPT !.set = set].first = s.first /\ [s EXCEPT !.set = set].set = set
BY DEF SystemType

LEMMA SettingTyped ==
  ASSUME NEW s \in SettingsType
  PROVE  /\ \A v \in [Values -> Nat] :
              LET t == [s EXCEPT !.val = v] IN
              /\ t \in SettingsType /\ t.val = v /\ t.certs = s.certs /\ t.license = s.license
              /\ t.params = s.params /\ t.backends = s.backends
         /\ \A v \in SUBSET Names :
              LET t == [s EXCEPT !.certs = v] IN
              /\ t \in SettingsType /\ t.val = s.val /\ t.certs = v /\ t.license = s.license
              /\ t.params = s.params /\ t.backends = s.backends
         /\ \A v \in Licenses :
              LET t == [s EXCEPT !.license = v] IN
              /\ t \in SettingsType /\ t.val = s.val /\ t.certs = s.certs /\ t.license = v
              /\ t.params = s.params /\ t.backends = s.backends
         /\ \A v \in [Parameters -> Nat] :
              LET t == [s EXCEPT !.params = v] IN
              /\ t \in SettingsType /\ t.val = s.val /\ t.certs = s.certs
              /\ t.license = s.license /\ t.params = v /\ t.backends = s.backends
         /\ \A v \in SUBSET Names :
              LET t == [s EXCEPT !.backends = v] IN
              /\ t \in SettingsType /\ t.val = s.val /\ t.certs = s.certs
              /\ t.license = s.license /\ t.params = s.params /\ t.backends = v
         /\ \A v \in [FileSystems -> Nat] :
              LET t == [s EXCEPT !.fs = v] IN
              /\ t \in SettingsType /\ t.val = s.val /\ t.certs = s.certs
              /\ t.license = s.license /\ t.params = s.params /\ t.backends = s.backends
BY DEF SettingsType

\* What a request that the system accepts changes, and that it changes nothing else.
LEMMA ApplyEffect ==
  ASSUME TypeInv, wk.pc \in Stages, NEW i \in Items
  PROVE  /\ Apply(i) \in SystemType
         /\ Apply(i).first = sys.first
         /\ Apply(i).set.val = IF wk.pc \in Values THEN [sys.set.val EXCEPT ![i] = S.val[i]]
                               ELSE sys.set.val
         /\ Apply(i).set.certs = IF wk.pc = "certificates" THEN sys.set.certs \cup {i}
                                 ELSE sys.set.certs
         /\ Apply(i).set.license = IF wk.pc = "license" THEN i ELSE sys.set.license
         /\ Apply(i).set.params =
              IF wk.pc = "parameters" THEN [sys.set.params EXCEPT ![i] = S.params[i]]
              ELSE IF wk.pc = "staleParameters" THEN [sys.set.params EXCEPT ![i] = 0]
              ELSE sys.set.params
         /\ Apply(i).set.backends = IF wk.pc = "backends" THEN sys.set.backends \cup {i}
                                    ELSE sys.set.backends
<1>1. wk \in LateWork
  BY PhaseTyped DEF LatePCs
<1>2. S \in SettingsType /\ I \in SettingsType
  BY <1>1 DEF S, I, LateWork, SystemType
<1>3. sys \in SystemType /\ sys.set \in SettingsType
  BY DEF TypeInv, SystemType
<1>4. CASE wk.pc \in Values
  <2> DEFINE v == [sys.set.val EXCEPT ![i] = S.val[i]]
             s == [sys.set EXCEPT !.val = v]
  <2>1. i = wk.pc
    BY <1>4 DEF Items, ReconcileSystemAttributes, ReconcileDRBD, ReconcileDNS, ReconcileNTP,
       ReconcilePTP, Differs, Values
  <2>2. v \in [Values -> Nat]
    BY <1>2, <1>3, <1>4, <2>1 DEF SettingsType
  <2>3. Apply(i) = [sys EXCEPT !.set = s]
    BY <1>4 DEF Apply, Values
  <2>4. /\ s \in SettingsType /\ s.val = v /\ s.certs = sys.set.certs
        /\ s.license = sys.set.license /\ s.params = sys.set.params
        /\ s.backends = sys.set.backends
    BY <1>3, <2>2, SettingTyped
  <2> HIDE DEF v, s
  <2>5. Apply(i) \in SystemType /\ Apply(i).first = sys.first /\ Apply(i).set = s
    BY <1>3, <2>3, <2>4, AssignTyped
  <2> QED
    BY <1>4, <2>4, <2>5 DEF Values, v
<1>5. CASE wk.pc = "certificates"
  <2> DEFINE v == sys.set.certs \cup {i}
             s == [sys.set EXCEPT !.certs = v]
  <2>1. i \in Names
    BY <1>2, <1>5 DEF Items, ReconcileCertificates, SettingsType
  <2>2. v \in SUBSET Names
    BY <1>2, <1>3, <2>1 DEF SettingsType
  <2>3. Apply(i) = [sys EXCEPT !.set = s]
    BY <1>5 DEF Apply, Values
  <2>4. /\ s \in SettingsType /\ s.val = sys.set.val /\ s.certs = v
        /\ s.license = sys.set.license /\ s.params = sys.set.params
        /\ s.backends = sys.set.backends
    BY <1>3, <2>2, SettingTyped
  <2> HIDE DEF v, s
  <2>5. Apply(i) \in SystemType /\ Apply(i).first = sys.first /\ Apply(i).set = s
    BY <1>3, <2>3, <2>4, AssignTyped
  <2> QED
    BY <1>5, <2>4, <2>5 DEF Values, v
<1>6. CASE wk.pc = "license"
  <2> DEFINE v == i
             s == [sys.set EXCEPT !.license = v]
  <2>1. i \in Licenses
    BY <1>2, <1>6 DEF Items, ReconcileLicense, SettingsType
  <2>2. v \in Licenses
    BY <1>2, <1>3, <2>1 DEF SettingsType
  <2>3. Apply(i) = [sys EXCEPT !.set = s]
    BY <1>6 DEF Apply, Values
  <2>4. /\ s \in SettingsType /\ s.val = sys.set.val /\ s.certs = sys.set.certs
        /\ s.license = v /\ s.params = sys.set.params
        /\ s.backends = sys.set.backends
    BY <1>3, <2>2, SettingTyped
  <2> HIDE DEF v, s
  <2>5. Apply(i) \in SystemType /\ Apply(i).first = sys.first /\ Apply(i).set = s
    BY <1>3, <2>3, <2>4, AssignTyped
  <2> QED
    BY <1>6, <2>4, <2>5 DEF Values, v
<1>7. CASE wk.pc = "parameters"
  <2> DEFINE v == [sys.set.params EXCEPT ![i] = S.params[i]]
             s == [sys.set EXCEPT !.params = v]
  <2>1. i \in Parameters
    BY <1>2, <1>7 DEF Items, ReconcileServiceParameters, Changed, SettingsType
  <2>2. v \in [Parameters -> Nat]
    BY <1>2, <1>3, <2>1 DEF SettingsType
  <2>3. Apply(i) = [sys EXCEPT !.set = s]
    BY <1>7 DEF Apply, Values
  <2>4. /\ s \in SettingsType /\ s.val = sys.set.val /\ s.certs = sys.set.certs
        /\ s.license = sys.set.license /\ s.params = v
        /\ s.backends = sys.set.backends
    BY <1>3, <2>2, SettingTyped
  <2> HIDE DEF v, s
  <2>5. Apply(i) \in SystemType /\ Apply(i).first = sys.first /\ Apply(i).set = s
    BY <1>3, <2>3, <2>4, AssignTyped
  <2> QED
    BY <1>7, <2>4, <2>5 DEF Values, v
<1>8. CASE wk.pc = "staleParameters"
  <2> DEFINE v == [sys.set.params EXCEPT ![i] = 0]
             s == [sys.set EXCEPT !.params = v]
  <2>1. i \in Parameters
    BY <1>2, <1>8 DEF Items, StaleServiceParameters, SettingsType
  <2>2. v \in [Parameters -> Nat]
    BY <1>2, <1>3, <2>1 DEF SettingsType
  <2>3. Apply(i) = [sys EXCEPT !.set = s]
    BY <1>8 DEF Apply, Values
  <2>4. /\ s \in SettingsType /\ s.val = sys.set.val /\ s.certs = sys.set.certs
        /\ s.license = sys.set.license /\ s.params = v
        /\ s.backends = sys.set.backends
    BY <1>3, <2>2, SettingTyped
  <2> HIDE DEF v, s
  <2>5. Apply(i) \in SystemType /\ Apply(i).first = sys.first /\ Apply(i).set = s
    BY <1>3, <2>3, <2>4, AssignTyped
  <2> QED
    BY <1>8, <2>4, <2>5 DEF Values, v
<1>9. CASE wk.pc = "apply"
  <2> DEFINE v == [p \in Kube |-> sys.set.params[p]]
  <2>1. v \in [Kube -> Nat]
    BY <1>3 DEF SettingsType, Parameters
  <2>2. Apply(i) = [sys EXCEPT !.running = v]
    BY <1>9 DEF Apply, Values
  <2> HIDE DEF v
  <2> QED
    BY <1>3, <1>9, <2>1, <2>2 DEF SystemType, Values
<1>10. CASE wk.pc = "backends"
  <2> DEFINE v == sys.set.backends \cup {i}
             s == [sys.set EXCEPT !.backends = v]
  <2>1. i \in Names
    BY <1>2, <1>10 DEF Items, ReconcileStorageBackends, SettingsType
  <2>2. v \in SUBSET Names
    BY <1>2, <1>3, <2>1 DEF SettingsType
  <2>3. Apply(i) = [sys EXCEPT !.set = s]
    BY <1>10 DEF Apply, Values
  <2>4. /\ s \in SettingsType /\ s.val = sys.set.val /\ s.certs = sys.set.certs
        /\ s.license = sys.set.license /\ s.params = sys.set.params
        /\ s.backends = v
    BY <1>3, <2>2, SettingTyped
  <2> HIDE DEF v, s
  <2>5. Apply(i) \in SystemType /\ Apply(i).first = sys.first /\ Apply(i).set = s
    BY <1>3, <2>3, <2>4, AssignTyped
  <2> QED
    BY <1>10, <2>4, <2>5 DEF Values, v
<1>11. CASE wk.pc = "fileSystems"
  <2> DEFINE v == [sys.set.fs EXCEPT ![i] = S.fs[i]]
             s == [sys.set EXCEPT !.fs = v]
  <2>1. i \in FileSystems
    BY <1>2, <1>11 DEF Items, ReconcileFileSystems, SettingsType
  <2>2. v \in [FileSystems -> Nat]
    BY <1>2, <1>3, <2>1 DEF SettingsType
  <2>3. Apply(i) = [sys EXCEPT !.set = s]
    BY <1>11 DEF Apply, Values
  <2>4. /\ s \in SettingsType /\ s.val = sys.set.val /\ s.certs = sys.set.certs
        /\ s.license = sys.set.license /\ s.params = sys.set.params
        /\ s.backends = sys.set.backends
    BY <1>3, <2>2, SettingTyped
  <2> HIDE DEF v, s
  <2>5. Apply(i) \in SystemType /\ Apply(i).first = sys.first /\ Apply(i).set = s
    BY <1>3, <2>3, <2>4, AssignTyped
  <2> QED
    BY <1>11, <2>4, <2>5 DEF Values
<1>12. CASE wk.pc = "resize"
  <2> DEFINE v == [f \in FileSystems |-> IF f \in i THEN S.fs[f] ELSE sys.set.fs[f]]
             s == [sys.set EXCEPT !.fs = v]
  <2>1. i \in SUBSET FileSystems
    BY <1>12 DEF Items, ResizeFileSystems, Growing
  <2>2. v \in [FileSystems -> Nat]
    BY <1>2, <1>3 DEF SettingsType
  <2>3. Apply(i) = [sys EXCEPT !.set = s, !.resizing = @ \cup i]
    BY <1>12 DEF Apply, Values
  <2>4. /\ s \in SettingsType /\ s.val = sys.set.val /\ s.certs = sys.set.certs
        /\ s.license = sys.set.license /\ s.params = sys.set.params
        /\ s.backends = sys.set.backends
    BY <1>3, <2>2, SettingTyped
  <2> HIDE DEF v, s
  <2> QED
    BY <1>3, <1>12, <2>1, <2>3, <2>4 DEF SystemType, Values
<1>13. CASE wk.pc = "staleFileSystems"
  <2> DEFINE v == [sys.set.fs EXCEPT ![i] = 0]
             s == [sys.set EXCEPT !.fs = v]
  <2>1. i \in FileSystems
    BY <1>2, <1>13 DEF Items, StaleFileSystems, SettingsType
  <2>2. v \in [FileSystems -> Nat]
    BY <1>2, <1>3, <2>1 DEF SettingsType
  <2>3. Apply(i) = [sys EXCEPT !.set = s]
    BY <1>13 DEF Apply, Values
  <2>4. /\ s \in SettingsType /\ s.val = sys.set.val /\ s.certs = sys.set.certs
        /\ s.license = sys.set.license /\ s.params = sys.set.params
        /\ s.backends = sys.set.backends
    BY <1>3, <2>2, SettingTyped
  <2> HIDE DEF v, s
  <2>5. Apply(i) \in SystemType /\ Apply(i).first = sys.first /\ Apply(i).set = s
    BY <1>3, <2>3, <2>4, AssignTyped
  <2> QED
    BY <1>13, <2>4, <2>5 DEF Values
<1>14. wk.pc # "hosts"
  BY DEF Items
<1> QED
  BY <1>4, <1>5, <1>6, <1>7, <1>8, <1>9, <1>10, <1>11, <1>12, <1>13, <1>14, StagesDef DEF Values

MgrType == [ready : BOOLEAN, notified : BOOLEAN,
            report : [reconciled : BOOLEAN, strategy : Strategies \cup {"none"}]]

LEMMA ReportTyped ==
  ASSUME NEW m \in MgrType, NEW o \in ObjectType, NEW b \in BOOLEAN
  PROVE  /\ [m EXCEPT !.report = Report(o)] \in MgrType
         /\ [m EXCEPT !.report = [reconciled |-> b, strategy |-> "not_required"]] \in MgrType
         /\ [m EXCEPT !.ready = TRUE, !.notified = TRUE] \in MgrType
BY DEF MgrType, Report, ObjectType, Strategies

\* The outcomes of the sub-reconcilers.
LEMMA LateTyped ==
  ASSUME NEW w \in LateWork, NEW p \in LatePCs
  PROVE  /\ \A o \in ObjectType : [w EXCEPT !.copy = o, !.pc = p] \in LateWork
         /\ \A s \in SettingsType : [w EXCEPT !.pc = p, !.spec = s] \in LateWork
         /\ \A a, b \in BOOLEAN, o \in ObjectType :
              [w EXCEPT !.pc = p, !.ready = a, !.ok = b, !.copy = o] \in LateWork
         /\ \A a, b \in BOOLEAN, s \in SettingsType, n \in Nat :
              [w EXCEPT !.pc = p, !.done = {}, !.info.set = s, !.nodes = n, !.ready = a, !.ok = b]
                \in LateWork
         /\ \A a, b \in BOOLEAN, o \in ObjectType :
              [w EXCEPT !.pc = p, !.ready = a, !.wait = b, !.done = {}, !.copy = o] \in LateWork
<1>1. \A o \in ObjectType : [w EXCEPT !.copy = o, !.pc = p] \in LateWork
  BY DEF LateWork
<1>2. \A s \in SettingsType : [w EXCEPT !.pc = p, !.spec = s] \in LateWork
  BY DEF LateWork
<1>3. \A a, b \in BOOLEAN, o \in ObjectType :
        [w EXCEPT !.pc = p, !.ready = a, !.ok = b, !.copy = o] \in LateWork
  BY DEF LateWork
<1>4. ASSUME NEW a \in BOOLEAN, NEW b \in BOOLEAN, NEW s \in SettingsType, NEW n \in Nat
      PROVE  [w EXCEPT !.pc = p, !.done = {}, !.info.set = s, !.nodes = n, !.ready = a, !.ok = b]
               \in LateWork
  <2>1. [w.info EXCEPT !.set = s] \in SystemType
    BY AssignTyped DEF LateWork
  <2> QED
    BY <2>1 DEF LateWork
<1>5. \A a, b \in BOOLEAN, o \in ObjectType :
        [w EXCEPT !.pc = p, !.ready = a, !.wait = b, !.done = {}, !.copy = o] \in LateWork
  BY DEF LateWork
<1> QED
  BY <1>1, <1>2, <1>3, <1>4, <1>5

LEMMA RequestTyped ==
  ASSUME NEW w \in LateWork, NEW r \in Requests, NEW a \in BOOLEAN
  PROVE  [w EXCEPT !.done = @ \cup {r}, !.kube = a] \in LateWork
BY DEF LateWork

LEMMA FailsTyped ==
  ASSUME TypeInv, wk.pc \in Stages, Fails
  PROVE  /\ wk' \in LateWork /\ wk'.pc = "ready" /\ wk'.copy = wk.copy /\ wk'.spec = wk.spec
         /\ wk'.ready = ReadyOnError /\ wk'.ok = FALSE
<1>1. wk \in LateWork
  BY PhaseTyped DEF LatePCs
<1>2. ReadyOnError \in BOOLEAN
  BY <1>1 DEF ReadyOnError, LateWork, ObjectType
<1> QED
  BY <1>1, <1>2 DEF Fails, LateWork, LatePCs

LEMMA StepTyped == TypeInv /\ [Next]_vars => TypeInv'
<1> SUFFICES ASSUME TypeInv, [Next]_vars PROVE TypeInv'
  OBVIOUS
<1>0. obj \in ObjectType /\ sys \in SystemType /\ env \in EnvType /\ mgr \in MgrType
      /\ factory \in FactoryType
  BY DEF TypeInv, MgrType
<1>1. CASE FetchInstance
  <2> DEFINE new == [obj EXCEPT !.scope = obj.asked]
  <2>1. new \in ObjectType
    BY <1>0, ObjectTyped DEF ObjectType
  <2>2. wk' \in EarlyWork
    <3>1. Retry \/ wk' = [pc |-> "factory"]
      BY <1>1 DEF FetchInstance
    <3>2. [pc |-> "factory"] \in EarlyWork
      BY DEF EarlyWork, EarlyPCs
    <3> QED
      BY <3>1, <3>2, RetryTyped
  <2>3. faults' \in Nat
    BY <1>1, FaultTyped DEF FetchInstance
  <2>4. obj' \in ObjectType /\ fresh' \in BOOLEAN /\ queued' \in BOOLEAN
    BY <1>1, <2>1, RetryTyped DEF FetchInstance, TypeInv
  <2> QED
    BY <1>1, <2>2, <2>3, <2>4 DEF FetchInstance, TypeInv
<1>2. CASE UpdateStatusForFactoryInstall
  <2> DEFINE new == [obj EXCEPT !.reconciled = FALSE]
  <2>1. new \in ObjectType
    BY <1>0 DEF ObjectType
  <2>2. wk' \in EarlyWork
    BY <1>2, RetryTyped, GotoTyped, PhaseTyped DEF UpdateStatusForFactoryInstall, EarlyPCs
  <2>3. /\ obj' \in ObjectType /\ queued' \in BOOLEAN /\ fresh' \in BOOLEAN /\ faults' \in Nat
    BY <1>2, <2>1, WriteTyped, WriteFailsTyped, RetryTyped
       DEF UpdateStatusForFactoryInstall, TypeInv, NoFault
  <2> QED
    BY <1>2, <2>2, <2>3 DEF UpdateStatusForFactoryInstall, TypeInv
<1>3. CASE SetFactoryReconciledUpdated
  <2>1. wk' \in EarlyWork
    BY <1>3, RetryTyped, GotoTyped, PhaseTyped DEF SetFactoryReconciledUpdated, EarlyPCs
  <2>2. factory' \in FactoryType /\ faults' \in Nat
    BY <1>0, <1>3, FaultTyped DEF SetFactoryReconciledUpdated, FactoryType
  <2> QED
    BY <1>3, <2>1, <2>2, RetryTyped DEF SetFactoryReconciledUpdated, TypeInv
<1>4. CASE cleanDeprecatedCerts
  <2> DEFINE new == [obj EXCEPT !.spec.deprecated = {}, !.gen = @ + 1]
  <2>1. new \in ObjectType
    <3>1. obj.gen + 1 \in Nat /\ {} \in SUBSET Names
      BY <1>0 DEF ObjectType
    <3>2. new = [obj EXCEPT !.spec.deprecated = {}, !.gen = obj.gen + 1]
      BY <1>0 DEF ObjectType
    <3> QED
      BY <1>0, <3>1, <3>2, ObjectTyped
  <2>2. wk' \in EarlyWork
    BY <1>4, RetryTyped, GotoTyped, PhaseTyped DEF cleanDeprecatedCerts, EarlyPCs
  <2>3. /\ obj' \in ObjectType /\ queued' \in BOOLEAN /\ fresh' \in BOOLEAN /\ faults' \in Nat
    BY <1>4, <2>1, WriteTyped, WriteFailsTyped, RetryTyped
       DEF cleanDeprecatedCerts, TypeInv, NoFault
  <2> QED
    BY <1>4, <2>2, <2>3 DEF cleanDeprecatedCerts, TypeInv
<1>5. CASE UpdateAnnotation
  <2> DEFINE new == [obj EXCEPT !.after = AfterInSync(obj)]
  <2>1. new \in ObjectType
    <3>1. AfterInSync(obj) \in Annotations
      BY <1>0 DEF ObjectType, AfterInSync, Annotations
    <3> QED
      BY <1>0, <3>1, ObjectTyped
  <2>2. wk' \in EarlyWork
    BY <1>5, RetryTyped, GotoTyped, PhaseTyped DEF UpdateAnnotation, EarlyPCs
  <2>3. /\ obj' \in ObjectType /\ queued' \in BOOLEAN /\ fresh' \in BOOLEAN /\ faults' \in Nat
    BY <1>5, <2>1, WriteTyped, FaultTyped, RetryTyped DEF UpdateAnnotation, TypeInv
  <2> QED
    BY <1>5, <2>2, <2>3 DEF UpdateAnnotation, TypeInv
<1>6. CASE UpdateConfigStatus
  <2> DEFINE new == Observe(obj)
  <2>1. new \in ObjectType /\ new.reconciled \in BOOLEAN
    BY <1>0, ObserveTyped DEF ObjectType
  <2>2. wk' \in EarlyWork \cup PopulateWork
    <3>1. Retry \/ wk' = [pc |-> "populate", copy |-> new]
      BY <1>6 DEF UpdateConfigStatus
    <3>2. [pc |-> "populate", copy |-> new] \in PopulateWork
      BY <2>1 DEF PopulateWork
    <3> QED
      BY <3>1, <3>2, RetryTyped
  <2>3. /\ obj' \in ObjectType /\ queued' \in BOOLEAN /\ fresh' \in BOOLEAN /\ faults' \in Nat
    BY <1>6, <2>1, WriteTyped, FaultTyped, RetryTyped DEF UpdateConfigStatus, TypeInv
  <2>4. mgr' \in MgrType
    BY <1>0, <1>6, <2>1, ReportTyped DEF UpdateConfigStatus
  <2> QED
    BY <1>6, <2>2, <2>3, <2>4 DEF UpdateConfigStatus, TypeInv, MgrType
<1>7. CASE PopulateSystemInfo
  <2>1. wk \in PopulateWork
    BY <1>7, PhaseTyped DEF PopulateSystemInfo
  <2> DEFINE w == [pc |-> "defaults", copy |-> wk.copy, info |-> sys, nodes |-> 0,
                   spec |-> NoSettings, done |-> {}, kube |-> FALSE,
                   ready |-> FALSE, ok |-> FALSE, wait |-> FALSE]
  <2>2. Retry \/ wk' = w
    BY <1>7 DEF PopulateSystemInfo
  <2>3. w \in LateWork
    BY <1>0, <2>1, ConstantsTyped DEF PopulateWork, LateWork, LatePCs
  <2> HIDE DEF w
  <2>4. wk' \in EarlyWork \cup LateWork
    BY <2>2, <2>3, RetryTyped
  <2>5. faults' \in Nat /\ queued' \in BOOLEAN
    BY <1>7, FaultTyped, RetryTyped DEF PopulateSystemInfo, TypeInv
  <2> QED
    BY <1>7, <2>4, <2>5 DEF PopulateSystemInfo, TypeInv
<1>8. CASE BuildSystemDefaults
  <2> DEFINE new == [wk.copy EXCEPT !.defaults = wk.info.set]
  <2>1. wk \in LateWork
    BY <1>8, PhaseTyped DEF BuildSystemDefaults, LatePCs
  <2>2. new \in ObjectType
    BY <2>1, ObjectTyped DEF LateWork, SystemType
  <2> HIDE DEF new
  <2>3. wk' \in EarlyWork \cup LateWork
    <3> DEFINE pc == IF factory.on THEN "defaultFlag" ELSE "merge"
    <3>1. Retry \/ Goto("merge") \/ wk' = [wk EXCEPT !.copy = new, !.pc = pc]
      BY <1>8 DEF BuildSystemDefaults, new
    <3>2. pc \in LatePCs /\ "merge" \in LatePCs
      BY DEF LatePCs
    <3> HIDE DEF pc
    <3>3. [wk EXCEPT !.copy = new, !.pc = pc] \in LateWork
      BY <2>1, <2>2, <3>2, LateTyped
    <3> QED
      BY <2>1, <3>1, <3>2, <3>3, RetryTyped, GotoTyped
  <2>4. /\ obj' \in ObjectType /\ queued' \in BOOLEAN /\ fresh' \in BOOLEAN /\ faults' \in Nat
    BY <1>8, <2>2, WriteTyped, WriteFailsTyped, RetryTyped
       DEF BuildSystemDefaults, TypeInv, NoFault, new
  <2> QED
    BY <1>8, <2>3, <2>4 DEF BuildSystemDefaults, TypeInv
<1>9. CASE SetFactoryDefaultUpdated
  <2>1. wk \in LateWork
    BY <1>9, PhaseTyped DEF SetFactoryDefaultUpdated, LatePCs
  <2>2. wk' \in EarlyWork \cup LateWork
    BY <1>9, <2>1, RetryTyped, GotoTyped DEF SetFactoryDefaultUpdated, LatePCs
  <2>3. factory' \in FactoryType /\ faults' \in Nat
    BY <1>0, <1>9, FaultTyped DEF SetFactoryDefaultUpdated, FactoryType
  <2> QED
    BY <1>9, <2>2, <2>3, RetryTyped DEF SetFactoryDefaultUpdated, TypeInv
<1>10. CASE Merge
  <2>1. wk \in LateWork
    BY <1>10, PhaseTyped DEF Merge, LatePCs
  <2>2. MergeSystemSpecs(wk.copy.defaults, wk.copy.spec) \in SettingsType
    BY <2>1, MergeTyped DEF LateWork, ObjectType
  <2>3. wk' \in EarlyWork \cup LateWork
    <3> DEFINE s == MergeSystemSpecs(wk.copy.defaults, wk.copy.spec)
    <3>1. Retry \/ wk' = [wk EXCEPT !.pc = "compare", !.spec = s]
      BY <1>10 DEF Merge
    <3>2. "compare" \in LatePCs
      BY DEF LatePCs
    <3> HIDE DEF s
    <3>3. s \in SettingsType
      BY <2>2 DEF s
    <3>4. [wk EXCEPT !.pc = "compare", !.spec = s] \in LateWork
      BY <2>1, <3>2, <3>3, LateTyped
    <3> QED
      BY <3>1, <3>4, RetryTyped
  <2> QED
    BY <1>10, <2>3, RetryTyped DEF Merge, TypeInv, NoFault
<1>11. CASE Compare
  <2> DEFINE o == wk.copy
             diff == Differences(wk.spec, wk.info.set)
             new == IF o.reconciled THEN [o EXCEPT !.inSync = (diff = {}), !.delta = diff] ELSE o
  <2>1. wk \in LateWork
    BY <1>11, PhaseTyped DEF Compare, LatePCs
  <2>2. o \in ObjectType /\ wk.spec \in SettingsType /\ wk.info.set \in SettingsType
    BY <2>1 DEF LateWork, SystemType
  <2>3. diff \in SUBSET Deltas
    BY <2>2, DifferencesTyped
  <2> HIDE DEF diff
  <2>4. [o EXCEPT !.inSync = (diff = {}), !.delta = diff] \in ObjectType
    BY <2>2, <2>3, ObjectTyped
  <2>5. new \in ObjectType
    BY <2>2, <2>4
  <2>6. ReconcileRequired(o) \in BOOLEAN /\ o.reconciled \in BOOLEAN
    BY <2>2 DEF ReconcileRequired, ObjectType
  <2> HIDE DEF new
  <2>7. wk' = [wk EXCEPT !.pc = IF ReconcileRequired(o) THEN "attributes" ELSE "ready",
                         !.ready = o.reconciled, !.ok = ~ReconcileRequired(o), !.copy = new]
    BY <1>11 DEF Compare, new, diff
  <2>8. (IF ReconcileRequired(o) THEN "attributes" ELSE "ready") \in LatePCs
    BY StagesDef DEF LatePCs
  <2>9. wk' \in LateWork
    BY <2>1, <2>5, <2>6, <2>7, <2>8, LateTyped
  <2>10. \/ UNCHANGED <<obj, queued, fresh, faults>>
         \/ Write(new)
         \/ WriteFails /\ UNCHANGED queued
    BY <1>11 DEF Compare, new, diff, NoFault
  <2>11. /\ obj' \in ObjectType /\ queued' \in BOOLEAN /\ fresh' \in BOOLEAN /\ faults' \in Nat
    BY <2>5, <2>10, WriteTyped, WriteFailsTyped DEF TypeInv
  <2> QED
    BY <1>11, <2>9, <2>11 DEF Compare, TypeInv
<1>12. CASE Request
  <2>1. wk \in LateWork /\ wk.pc \in Stages
    BY <1>12, PhaseTyped DEF Request, LatePCs
  <2>2. PICK i \in Items \ wk.done :
       \/ /\ NoFault /\ Accepted(i) /\ sys' = Apply(i)
          /\ wk' = [wk EXCEPT !.done = @ \cup {i},
                              !.kube = @ \/ (wk.pc = "parameters" /\ i \in Kube)]
       \/ NoFault /\ ~Accepted(i) /\ UNCHANGED sys /\ Fails
       \/ Fault /\ Fails /\ (UNCHANGED sys \/ (Accepted(i) /\ sys' = Apply(i)))
    BY <1>12 DEF Request
  <2>3. sys' \in SystemType
    BY <1>0, <2>1, <2>2, ApplyEffect
  <2>4. i \in Requests /\ (wk.kube \/ (wk.pc = "parameters" /\ i \in Kube)) \in BOOLEAN
    BY <2>1, ItemsTyped DEF LateWork
  <2>5. wk' \in LateWork
    BY <2>1, <2>2, <2>4, RequestTyped, FailsTyped
  <2>6. faults' \in Nat
    BY <2>2, FaultTyped
  <2> QED
    BY <1>12, <2>3, <2>5, <2>6 DEF Request, TypeInv
<1>13. CASE Advance
  <2>1. wk \in LateWork /\ wk.pc \in Stages
    BY <1>13, PhaseTyped DEF Advance, LatePCs
  <2>2. After(wk.pc) \in LatePCs
    BY <2>1, StagesDef, AfterDef DEF LatePCs
  <2>3. sys.set \in SettingsType /\ env.nodes \in Nat /\ wk.nodes \in Nat
    BY <1>0, <2>1 DEF SystemType, EnvType, LateWork
  <2>4. wk' \in LateWork
    <3> DEFINE pc == After(wk.pc)
               n == IF wk.pc = "hosts" THEN env.nodes ELSE wk.nodes
               b == (pc = "ready")
    <3>1. \/ Fails
          \/ wk' = [wk EXCEPT !.pc = pc, !.done = {}, !.info.set = sys.set, !.nodes = n,
                             !.ready = b, !.ok = b]
      BY <1>13 DEF Advance
    <3>2. pc \in LatePCs /\ n \in Nat /\ b \in BOOLEAN
      BY <2>2, <2>3
    <3> HIDE DEF pc, n, b
    <3>3. [wk EXCEPT !.pc = pc, !.done = {}, !.info.set = sys.set, !.nodes = n,
                     !.ready = b, !.ok = b] \in LateWork
      BY <2>1, <2>3, <3>2, LateTyped
    <3> QED
      BY <2>1, <3>1, <3>3, FailsTyped
  <2>5. faults' \in Nat
    BY <1>13, FaultTyped DEF Advance
  <2> QED
    BY <1>13, <2>4, <2>5 DEF Advance, TypeInv
<1>14. CASE FileSystemResizeAllowed
  <2> DEFINE strategic == ~ControllerNodesAvailable(wk.nodes) /\ wk.copy.scope = "principal"
             new == IF strategic THEN [wk.copy EXCEPT !.strategy = "unlock_required"] ELSE wk.copy
             waits == [wk EXCEPT !.pc = "ready", !.ready = TRUE, !.wait = TRUE, !.done = {},
                                 !.copy = new]
  <2>1. wk \in LateWork
    BY <1>14, PhaseTyped, StagesDef DEF FileSystemResizeAllowed, Barred, LatePCs
  <2>2. wk.copy \in ObjectType /\ [wk.copy EXCEPT !.strategy = "unlock_required"] \in ObjectType
    BY <2>1, ObjectTyped DEF LateWork, Strategies
  <2>3. new \in ObjectType
    BY <2>2
  <2> HIDE DEF new
  <2>4. waits \in LateWork /\ [waits EXCEPT !.wait = FALSE] \in LateWork
    <3>1. "ready" \in LatePCs
      BY DEF LatePCs
    <3>2. waits \in LateWork
      BY <2>1, <2>3, <3>1, LateTyped
    <3> HIDE DEF waits
    <3> QED
      BY <3>2 DEF LateWork
  <2> HIDE DEF waits, strategic
  <2>5. /\ UNCHANGED <<simplex, sys, env, factory, later>>
        /\ mgr' = IF strategic THEN [mgr EXCEPT !.report = Report(new)] ELSE mgr
        /\ \/ /\ IF strategic THEN Write(new) ELSE NoFault /\ UNCHANGED <<obj, queued, fresh>>
              /\ mon' = IF ControllerNodesAvailable(wk.nodes) THEN "resize" ELSE "controllers"
              /\ wk' = waits
           \/ strategic /\ WriteFails /\ UNCHANGED <<queued, mon>>
              /\ wk' = [waits EXCEPT !.wait = FALSE]
    BY <1>14 DEF FileSystemResizeAllowed, strategic, new, waits
  <2>6. mgr' \in MgrType
    BY <1>0, <2>3, <2>5, ReportTyped
  <2>7. /\ obj' \in ObjectType /\ queued' \in BOOLEAN /\ fresh' \in BOOLEAN /\ faults' \in Nat
    BY <2>3, <2>5, WriteTyped, WriteFailsTyped DEF TypeInv, NoFault
  <2> QED
    BY <2>4, <2>5, <2>6, <2>7 DEF TypeInv, MgrType
<1>15. CASE SystemReady
  <2>1. wk \in LateWork
    BY <1>15, PhaseTyped DEF SystemReady, LatePCs
  <2>2. wk' \in EarlyWork \cup LateWork
    BY <1>15, <2>1, RetryTyped, GotoTyped DEF SystemReady, LatePCs
  <2>3. mgr' \in MgrType
    BY <1>0, <1>15, ReportTyped DEF SystemReady
  <2>4. faults' \in Nat /\ queued' \in BOOLEAN
    BY <1>15, FaultTyped, RetryTyped DEF SystemReady, TypeInv
  <2> QED
    BY <1>15, <2>2, <2>3, <2>4 DEF SystemReady, TypeInv, MgrType
<1>16. CASE StatusUpdate
  <2> DEFINE new == statusUpdateRequired(wk.copy, wk.ok)
  <2>1. wk \in LateWork
    BY <1>16, PhaseTyped DEF StatusUpdate, LatePCs
  <2>2. new \in ObjectType
    BY <2>1, StatusTyped DEF LateWork
  <2> HIDE DEF new
  <2>3. mgr' \in MgrType
    BY <1>0, <1>16, <2>2, ReportTyped DEF StatusUpdate, new
  <2>4. wk' \in EarlyWork
    BY <1>16, RetryTyped DEF StatusUpdate, Retry, NoWork, EarlyWork, EarlyPCs
  <2>5. obj' \in ObjectType /\ fresh' \in BOOLEAN /\ faults' \in Nat
    BY <1>0, <1>16, <2>2, WriteFailsTyped DEF StatusUpdate, new, NoFault, TypeInv
  <2>6. queued' \in BOOLEAN
    BY <1>16, RetryTyped DEF StatusUpdate, TypeInv
  <2> QED
    BY <1>16, <2>3, <2>4, <2>5, <2>6 DEF StatusUpdate, TypeInv, MgrType
<1>17. CASE MonitorFires
  BY <1>17 DEF MonitorFires, TypeInv
<1>18. CASE ResizeEnds
  BY <1>0, <1>18 DEF ResizeEnds, TypeInv, SystemType
<1>19. CASE Happens
  <2> DEFINE e == Head(later)
  <2>1. e \in ActType /\ later' \in Seq(ActType)
    BY <1>19 DEF Happens, TypeInv
  <2> HIDE DEF e
  <2>2. UNCHANGED <<simplex, sys, faults>>
    BY <1>19 DEF Happens
  <2>3. CASE /\ e.kind = "spec" /\ UserWrites([obj EXCEPT !.spec = e.value, !.gen = @ + 1])
             /\ UNCHANGED <<env, mgr, factory, mon, wk>>
    <3>1. e.value \in SettingsType
      BY <2>1, <2>3 DEF ActType
    <3>2. obj' = [obj EXCEPT !.spec = e.value, !.gen = obj.gen + 1] /\ obj.gen + 1 \in Nat
      BY <1>0, <2>3 DEF UserWrites, ObjectType
    <3>3. obj' \in ObjectType
      BY <1>0, <3>1, <3>2, ObjectTyped
    <3> QED
      BY <2>1, <2>2, <2>3, <3>3 DEF UserWrites, TypeInv
  <2>4. CASE /\ e.kind = "scope" /\ UserWrites([obj EXCEPT !.asked = e.value])
             /\ UNCHANGED <<env, mgr, factory, mon, wk>>
    <3>1. e.value \in Scopes
      BY <2>1, <2>4 DEF ActType
    <3>2. obj' \in ObjectType
      BY <1>0, <2>4, <3>1, ObjectTyped DEF UserWrites
    <3> QED
      BY <2>1, <2>2, <2>4, <3>2 DEF UserWrites, TypeInv
  <2>5. CASE /\ e.kind = "secret" /\ env' = [env EXCEPT !.secrets = @ \cup {e.value}]
             /\ UNCHANGED <<obj, queued, fresh, mgr, factory, mon, wk>>
    <3>1. e.value \in Names
      BY <2>1, <2>5 DEF ActType
    <3>2. env' \in EnvType
      BY <1>0, <2>5, <3>1 DEF EnvType
    <3> QED
      BY <2>1, <2>2, <2>5, <3>2 DEF TypeInv
  <2>6. CASE /\ e.kind = "nodes" /\ env' = [env EXCEPT !.nodes = e.value]
             /\ UNCHANGED <<obj, queued, fresh, mgr, factory, mon, wk>>
    <3>1. e.value \in Nat
      BY <2>1, <2>6 DEF ActType
    <3>2. env' \in EnvType
      BY <1>0, <2>6, <3>1 DEF EnvType
    <3> QED
      BY <2>1, <2>2, <2>6, <3>2 DEF TypeInv
  <2>7. CASE /\ e.kind = "factoryEnds" /\ mgr.ready /\ factory' = [factory EXCEPT !.on = FALSE]
             /\ UNCHANGED <<obj, queued, fresh, env, mgr, mon, wk>>
    <3>1. factory' \in FactoryType
      BY <1>0, <2>7 DEF FactoryType
    <3> QED
      BY <2>1, <2>2, <2>7, <3>1 DEF TypeInv
  <2>8. CASE /\ e.kind = "restart" /\ wk' = NoWork /\ queued' = TRUE /\ mon' = "none"
             /\ fresh' = FALSE
             /\ mgr' = [ready |-> FALSE, notified |-> FALSE, report |-> NoReport]
             /\ UNCHANGED <<obj, env, factory>>
    <3>1. wk' \in EarlyWork
      BY <2>8 DEF NoWork, EarlyWork, EarlyPCs
    <3>2. mgr' \in MgrType
      BY <2>8 DEF MgrType, NoReport
    <3> QED
      BY <2>1, <2>2, <2>8, <3>1, <3>2 DEF TypeInv, MgrType
  <2>9. CASE /\ e.kind = "annotate" /\ UserWrites([obj EXCEPT !.after = e.value])
             /\ UNCHANGED <<env, mgr, factory, mon, wk>>
    <3>1. e.value \in Annotations
      BY <2>1, <2>9 DEF ActType, Annotations
    <3>2. obj' \in ObjectType
      BY <1>0, <2>9, <3>1, ObjectTyped DEF UserWrites
    <3> QED
      BY <2>1, <2>2, <2>9, <3>2 DEF UserWrites, TypeInv
  <2> QED
    BY <1>19, <2>3, <2>4, <2>5, <2>6, <2>7, <2>8, <2>9 DEF Happens, e
<1>20. CASE UNCHANGED vars
  BY <1>20 DEF vars, TypeInv
<1> QED
  BY <1>1, <1>2, <1>3, <1>4, <1>5, <1>6, <1>7, <1>8, <1>9, <1>10, <1>11, <1>12, <1>13, <1>14,
     <1>15, <1>16, <1>17, <1>18, <1>19, <1>20 DEF Next, Reconcile

-----------------------------------------------------------------------------
(* The defaults.                                                           *)

HasCopy == wk.pc \notin EarlyPCs
Started == wk.pc \in Stages \cup {"merge", "compare", "ready", "status"}

\* The defaults of this system are saved, and a factory install has noted it.
Collected == obj.defaults = sys.first /\ (factory.on => factory.default)

\* Nothing is changed, and the others are not told to start, before the defaults are
\* collected; and as only Reconcile writes them, its copy of the defaults is that of
\* the object even if the copy is out of date.
DefaultsInv ==
  /\ DefaultsAreOriginal
  /\ sys.first # NoDefaults
  /\ mgr.ready /\ factory.on => factory.default
  /\ sys.set # sys.first => Collected
  /\ HasCopy => wk.copy.defaults = obj.defaults
  /\ wk.pc = "defaults" => wk.info.set = sys.set
  /\ wk.pc = "defaultFlag" => obj.defaults = sys.first
  /\ Started => Collected

\* The counters that HasCopy and Started tell apart.
LEMMA PhasesDef ==
  /\ "idle" \in EarlyPCs /\ "factory" \in EarlyPCs /\ "factoryFlag" \in EarlyPCs
  /\ "clean" \in EarlyPCs /\ "annotation" \in EarlyPCs /\ "config" \in EarlyPCs
  /\ \A pc \in EarlyPCs \cup {"populate", "defaults", "defaultFlag"} :
       pc \notin Stages \cup {"merge", "compare", "ready", "status"}
  /\ \A pc \in Stages \cup {"merge", "compare", "ready", "status"} :
       pc \notin EarlyPCs \cup {"populate", "defaults", "defaultFlag"}
  /\ \A pc \in EarlyPCs : pc \notin {"populate", "defaults", "defaultFlag"}
BY StagesDef DEF EarlyPCs

\* A step of the first part of Reconcile, or one that starts it over.
LEMMA EarlyDefaults ==
  ASSUME DefaultsInv, wk'.pc \in EarlyPCs, obj'.defaults = obj.defaults, sys' = sys,
         mgr'.ready => mgr.ready, factory'.on = factory.on, factory'.default = factory.default
  PROVE  DefaultsInv'
BY PhasesDef DEF DefaultsInv, DefaultsAreOriginal, HasCopy, Started, Collected

\* A step of the last part, which changes no settings.
LEMMA StartedDefaults ==
  ASSUME DefaultsInv, Collected, HasCopy, wk'.pc \in Stages \cup {"merge", "compare", "ready", "status"},
         wk'.copy.defaults = wk.copy.defaults, obj'.defaults = obj.defaults,
         sys'.first = sys.first, factory' = factory
  PROVE  DefaultsInv'
BY PhasesDef DEF DefaultsInv, DefaultsAreOriginal, HasCopy, Started, Collected

LEMMA StepDefaults == TypeInv /\ DefaultsInv /\ [Next]_vars => DefaultsInv'
<1> SUFFICES ASSUME TypeInv, DefaultsInv, [Next]_vars PROVE DefaultsInv'
  OBVIOUS
<1>0. obj \in ObjectType /\ factory \in FactoryType /\ mgr \in MgrType /\ sys \in SystemType
  BY DEF TypeInv, MgrType
<1>1. CASE FetchInstance
  <2>1. wk'.pc \in EarlyPCs
    <3>1. Retry \/ wk' = [pc |-> "factory"]
      BY <1>1 DEF FetchInstance
    <3>2. CASE Retry
      BY <3>2, RetryTyped, PhasesDef
    <3>3. CASE wk' = [pc |-> "factory"]
      BY <3>3 DEF EarlyPCs
    <3> QED
      BY <3>1, <3>2, <3>3
  <2>2. obj'.defaults = obj.defaults
    BY <1>0, <1>1 DEF FetchInstance, ObjectType
  <2> QED
    BY <1>1, <2>1, <2>2, EarlyDefaults DEF FetchInstance
<1>2. CASE UpdateStatusForFactoryInstall
  <2>1. wk'.pc \in EarlyPCs
    BY <1>2, RetryTyped, GotoTyped, PhaseTyped, PhasesDef DEF UpdateStatusForFactoryInstall
  <2>2. obj'.defaults = obj.defaults
    BY <1>0, <1>2 DEF UpdateStatusForFactoryInstall, Write, WriteFails, ObjectType
  <2> QED
    BY <1>2, <2>1, <2>2, EarlyDefaults DEF UpdateStatusForFactoryInstall
<1>3. CASE SetFactoryReconciledUpdated
  <2>1. wk'.pc \in EarlyPCs
    BY <1>3, RetryTyped, GotoTyped, PhaseTyped, PhasesDef DEF SetFactoryReconciledUpdated
  <2>2. factory'.on = factory.on /\ factory'.default = factory.default
    BY <1>0, <1>3 DEF SetFactoryReconciledUpdated, FactoryType
  <2> QED
    BY <1>3, <2>1, <2>2, EarlyDefaults DEF SetFactoryReconciledUpdated
<1>4. CASE cleanDeprecatedCerts
  <2>1. wk'.pc \in EarlyPCs
    BY <1>4, RetryTyped, GotoTyped, PhaseTyped, PhasesDef DEF cleanDeprecatedCerts
  <2>2. obj'.defaults = obj.defaults
    BY <1>0, <1>4 DEF cleanDeprecatedCerts, Write, WriteFails, ObjectType
  <2> QED
    BY <1>4, <2>1, <2>2, EarlyDefaults DEF cleanDeprecatedCerts
<1>5. CASE UpdateAnnotation
  <2>1. wk'.pc \in EarlyPCs
    BY <1>5, RetryTyped, GotoTyped, PhaseTyped, PhasesDef DEF UpdateAnnotation
  <2>2. obj'.defaults = obj.defaults
    BY <1>0, <1>5 DEF UpdateAnnotation, ReadAndWrite, ObjectType
  <2> QED
    BY <1>5, <2>1, <2>2, EarlyDefaults DEF UpdateAnnotation
<1>6. CASE UpdateConfigStatus
  <2>1. /\ UNCHANGED <<sys, factory>> /\ mgr'.ready = mgr.ready
    BY <1>0, <1>6 DEF UpdateConfigStatus, MgrType
  <2>2. CASE Retry /\ UNCHANGED obj
    BY <2>1, <2>2, RetryTyped, PhasesDef, EarlyDefaults
  <2>3. CASE obj' = Observe(obj) /\ wk' = [pc |-> "populate", copy |-> Observe(obj)]
    <3>1. /\ obj'.defaults = obj.defaults /\ wk'.pc = "populate"
          /\ wk'.copy.defaults = obj'.defaults
      BY <1>0, <2>3, ObserveTyped
    <3> QED
      BY <2>1, <3>1, PhasesDef
         DEF DefaultsInv, DefaultsAreOriginal, HasCopy, Started, Collected
  <2> QED
    BY <1>6, <2>2, <2>3 DEF UpdateConfigStatus, ReadAndWrite
<1>7. CASE PopulateSystemInfo
  <2>1. UNCHANGED <<obj, sys, mgr, factory>> /\ wk \in PopulateWork /\ wk.pc = "populate"
    BY <1>7, PhaseTyped DEF PopulateSystemInfo
  <2>2. CASE Retry
    BY <2>1, <2>2, RetryTyped, PhasesDef, EarlyDefaults
  <2>3. CASE ~Retry
    <3>1. wk'.pc = "defaults" /\ wk'.copy = wk.copy /\ wk'.info = sys
      BY <1>7, <2>3 DEF PopulateSystemInfo
    <3> QED
      BY <2>1, <3>1, PhasesDef
         DEF DefaultsInv, DefaultsAreOriginal, HasCopy, Started, Collected
  <2> QED
    BY <2>2, <2>3
<1>8. CASE BuildSystemDefaults
  <2> DEFINE new == [wk.copy EXCEPT !.defaults = wk.info.set]
  <2>1. /\ UNCHANGED <<sys, mgr, factory>> /\ wk \in LateWork /\ wk.pc = "defaults"
        /\ wk.copy \in ObjectType /\ wk.copy.defaults = obj.defaults
        /\ wk.info.set = sys.set /\ HasCopy
    BY <1>8, PhaseTyped, PhasesDef
       DEF BuildSystemDefaults, LatePCs, LateWork, DefaultsInv, HasCopy
  <2>2. CASE Retry /\ UNCHANGED obj
    BY <2>1, <2>2, RetryTyped, PhasesDef, EarlyDefaults
  <2>3. CASE /\ wk.copy.defaults = NoDefaults \/ (factory.on /\ ~factory.default)
             /\ obj' = new
             /\ wk' = [wk EXCEPT !.copy = new,
                                 !.pc = IF factory.on THEN "defaultFlag" ELSE "merge"]
    <3>1. sys.set = sys.first
      BY <2>1, <2>3 DEF DefaultsInv, Collected
    <3>2. /\ obj'.defaults = sys.first /\ wk'.copy = obj'
          /\ wk'.pc = IF factory.on THEN "defaultFlag" ELSE "merge"
      BY <2>1, <2>3, <3>1 DEF LateWork, ObjectType
    <3> QED
      BY <2>1, <3>1, <3>2, PhasesDef
         DEF DefaultsInv, DefaultsAreOriginal, HasCopy, Started, Collected
  <2>4. CASE /\ ~(wk.copy.defaults = NoDefaults \/ (factory.on /\ ~factory.default))
             /\ Goto("merge") /\ UNCHANGED obj
    <3>1. Collected
      BY <2>1, <2>4 DEF DefaultsInv, DefaultsAreOriginal, Collected, FactoryType
    <3>2. wk'.pc = "merge" /\ wk'.copy = wk.copy
      BY <2>1, <2>4, GotoTyped DEF LatePCs
    <3> QED
      BY <2>1, <2>4, <3>1, <3>2, StartedDefaults
  <2> QED
    BY <1>8, <2>2, <2>3, <2>4 DEF BuildSystemDefaults, Write, WriteFails
<1>9. CASE SetFactoryDefaultUpdated
  <2>1. /\ UNCHANGED <<obj, sys, mgr>> /\ wk \in LateWork /\ wk.pc = "defaultFlag"
        /\ obj.defaults = sys.first
    BY <1>9, PhaseTyped DEF SetFactoryDefaultUpdated, LatePCs, DefaultsInv
  <2>2. CASE Retry /\ UNCHANGED factory
    BY <2>1, <2>2, RetryTyped, PhasesDef, EarlyDefaults
  <2>3. CASE factory' = [factory EXCEPT !.default = TRUE] /\ Goto("merge")
    <3>1. wk'.pc = "merge" /\ wk'.copy = wk.copy
      BY <2>1, <2>3, GotoTyped DEF LatePCs
    <3>2. factory'.default /\ factory'.on = factory.on
      BY <1>0, <2>3 DEF FactoryType
    <3> QED
      BY <2>1, <3>1, <3>2, PhasesDef
         DEF DefaultsInv, DefaultsAreOriginal, HasCopy, Started, Collected
  <2> QED
    BY <1>9, <2>2, <2>3 DEF SetFactoryDefaultUpdated
<1>10. CASE Merge
  <2>1. /\ UNCHANGED <<obj, sys, mgr, factory>> /\ wk \in LateWork /\ wk.pc = "merge"
        /\ Collected /\ HasCopy
    BY <1>10, PhaseTyped, PhasesDef DEF Merge, LatePCs, DefaultsInv, Started, HasCopy
  <2>2. CASE Retry
    BY <2>1, <2>2, RetryTyped, PhasesDef, EarlyDefaults
  <2>3. CASE ~Retry
    <3>1. wk'.pc = "compare" /\ wk'.copy = wk.copy
      BY <1>10, <2>1, <2>3 DEF Merge, LateWork
    <3> QED
      BY <2>1, <3>1, StartedDefaults
  <2> QED
    BY <2>2, <2>3
<1>11. CASE Compare
  <2> DEFINE o == wk.copy
             diff == Differences(wk.spec, wk.info.set)
             new == IF o.reconciled THEN [o EXCEPT !.inSync = (diff = {}), !.delta = diff] ELSE o
  <2>1. /\ UNCHANGED <<sys, mgr, factory>> /\ wk \in LateWork /\ o \in ObjectType
        /\ Collected /\ HasCopy /\ o.defaults = obj.defaults
    BY <1>11, PhaseTyped, PhasesDef DEF Compare, LatePCs, LateWork, DefaultsInv, Started, HasCopy
  <2> HIDE DEF diff
  <2>2. new.defaults = o.defaults
    BY <2>1 DEF ObjectType
  <2> HIDE DEF new
  <2>3. wk' = [wk EXCEPT !.pc = IF ReconcileRequired(o) THEN "attributes" ELSE "ready",
                         !.ready = o.reconciled, !.ok = ~ReconcileRequired(o), !.copy = new]
    BY <1>11 DEF Compare, new, diff
  <2>4. wk'.copy = new /\ wk'.pc \in {"attributes", "ready"}
    BY <2>1, <2>3 DEF LateWork
  <2>5. obj' \in {obj, new}
    BY <1>11 DEF Compare, new, diff, Write, WriteFails
  <2>6. wk'.pc \in Stages \cup {"merge", "compare", "ready", "status"}
    BY <2>4, StagesDef
  <2> QED
    BY <2>1, <2>2, <2>4, <2>5, <2>6, StartedDefaults
<1>12. CASE Request
  <2>1. /\ UNCHANGED <<obj, mgr, factory>> /\ wk \in LateWork /\ wk.pc \in Stages
        /\ Collected /\ HasCopy
    BY <1>12, PhaseTyped, PhasesDef DEF Request, LatePCs, DefaultsInv, Started, HasCopy
  <2>2. sys'.first = sys.first
    BY <1>12, <2>1, ApplyEffect DEF Request
  <2>3. wk'.copy = wk.copy /\ wk'.pc \in Stages \cup {"ready"}
    <3>1. \/ Fails
          \/ \E i \in Items : wk' = [wk EXCEPT !.done = @ \cup {i},
                                  !.kube = @ \/ (wk.pc = "parameters" /\ i \in Kube)]
      BY <1>12 DEF Request
    <3> QED
      BY <2>1, <3>1, FailsTyped DEF LateWork
  <2> QED
    BY <2>1, <2>2, <2>3, StartedDefaults
<1>13. CASE Advance
  <2>1. /\ UNCHANGED <<obj, sys, mgr, factory>> /\ wk \in LateWork /\ wk.pc \in Stages
        /\ Collected /\ HasCopy
    BY <1>13, PhaseTyped, PhasesDef DEF Advance, LatePCs, DefaultsInv, Started, HasCopy
  <2>2. After(wk.pc) \in Stages \cup {"ready"}
    BY <2>1, StagesDef, AfterDef
  <2>3. wk'.copy = wk.copy /\ wk'.pc \in Stages \cup {"ready"}
    BY <1>13, <2>1, <2>2, FailsTyped DEF Advance, LateWork
  <2> QED
    BY <2>1, <2>3, StartedDefaults
<1>14. CASE FileSystemResizeAllowed
  <2>1. /\ UNCHANGED <<sys, factory>> /\ wk \in LateWork /\ wk.copy \in ObjectType
        /\ Collected /\ HasCopy /\ wk.copy.defaults = obj.defaults
    BY <1>14, PhaseTyped, PhasesDef, StagesDef
       DEF FileSystemResizeAllowed, Barred, LatePCs, LateWork, DefaultsInv, Started, HasCopy
  <2>2. PICK new \in {wk.copy, [wk.copy EXCEPT !.strategy = "unlock_required"]}, b \in BOOLEAN :
          /\ wk' = [[wk EXCEPT !.pc = "ready", !.ready = TRUE, !.wait = TRUE, !.done = {},
                               !.copy = new] EXCEPT !.wait = b]
          /\ obj' \in {obj, new}
    BY <1>14, <2>1 DEF FileSystemResizeAllowed, Write, WriteFails, LateWork
  <2>3. new.defaults = wk.copy.defaults
    BY <2>1 DEF ObjectType
  <2>4. wk'.pc = "ready" /\ wk'.copy = new
    BY <2>1, <2>2 DEF LateWork
  <2> QED
    BY <2>1, <2>2, <2>3, <2>4, StartedDefaults
<1>15. CASE SystemReady
  <2>1. /\ UNCHANGED <<obj, sys, factory>> /\ wk \in LateWork /\ Collected /\ HasCopy
    BY <1>15, PhaseTyped, PhasesDef DEF SystemReady, LatePCs, DefaultsInv, Started, HasCopy
  <2>2. CASE Retry /\ UNCHANGED mgr
    BY <2>1, <2>2, RetryTyped, PhasesDef, EarlyDefaults
  <2>3. CASE Goto("status")
    <3>1. wk'.pc = "status" /\ wk'.copy = wk.copy
      BY <2>1, <2>3, GotoTyped DEF LatePCs
    <3> QED
      BY <2>1, <3>1, StartedDefaults
  <2> QED
    BY <1>15, <2>2, <2>3 DEF SystemReady
<1>16. CASE StatusUpdate
  <2>1. /\ UNCHANGED <<sys, factory>> /\ wk \in LateWork /\ wk.copy \in ObjectType
        /\ wk.ok \in BOOLEAN /\ wk.copy.defaults = obj.defaults
    BY <1>16, PhaseTyped, PhasesDef
       DEF StatusUpdate, LatePCs, LateWork, DefaultsInv, Started, HasCopy
  <2>2. obj' \in {obj, statusUpdateRequired(wk.copy, wk.ok)}
    BY <1>16 DEF StatusUpdate, WriteFails
  <2>3. obj'.defaults = obj.defaults
    BY <2>1, <2>2, StatusTyped
  <2>4. wk'.pc \in EarlyPCs /\ mgr'.ready = mgr.ready
    BY <1>0, <1>16, PhasesDef DEF StatusUpdate, Retry, NoWork, MgrType
  <2> QED
    BY <2>1, <2>3, <2>4, EarlyDefaults
<1>17. CASE MonitorFires
  BY <1>17 DEF MonitorFires, DefaultsInv, DefaultsAreOriginal, HasCopy, Started, Collected
<1>18. CASE ResizeEnds
  <2>1. sys'.set = sys.set /\ sys'.first = sys.first /\ UNCHANGED <<obj, mgr, factory, wk>>
    BY <1>0, <1>18 DEF ResizeEnds, SystemType
  <2> QED
    BY <2>1 DEF DefaultsInv, DefaultsAreOriginal, HasCopy, Started, Collected
<1>19. CASE Happens
  <2>0. UNCHANGED sys
    BY <1>19 DEF Happens
  <2>1. CASE obj'.defaults = obj.defaults /\ UNCHANGED <<mgr, factory, wk>>
    BY <2>0, <2>1 DEF DefaultsInv, DefaultsAreOriginal, HasCopy, Started, Collected
  <2>2. CASE mgr.ready /\ factory' = [factory EXCEPT !.on = FALSE] /\ UNCHANGED <<obj, mgr, wk>>
    <3>1. ~factory'.on /\ factory'.default = factory.default
      BY <1>0, <2>2 DEF FactoryType
    <3> QED
      BY <2>0, <2>2, <3>1 DEF DefaultsInv, DefaultsAreOriginal, HasCopy, Started, Collected
  <2>3. CASE /\ wk' = NoWork /\ UNCHANGED <<obj, factory>>
             /\ mgr' = [ready |-> FALSE, notified |-> FALSE, report |-> NoReport]
    BY <2>0, <2>3, PhasesDef, EarlyDefaults DEF NoWork
  <2>4. \/ obj'.defaults = obj.defaults /\ UNCHANGED <<mgr, factory, wk>>
        \/ mgr.ready /\ factory' = [factory EXCEPT !.on = FALSE] /\ UNCHANGED <<obj, mgr, wk>>
        \/ /\ wk' = NoWork /\ UNCHANGED <<obj, factory>>
           /\ mgr' = [ready |-> FALSE, notified |-> FALSE, report |-> NoReport]
    BY <1>0, <1>19 DEF Happens, UserWrites, ObjectType
  <2> QED
    BY <2>1, <2>2, <2>3, <2>4
<1>20. CASE UNCHANGED vars
  BY <1>20 DEF vars, DefaultsInv, DefaultsAreOriginal, HasCopy, Started, Collected
<1> QED
  BY <1>1, <1>2, <1>3, <1>4, <1>5, <1>6, <1>7, <1>8, <1>9, <1>10, <1>11, <1>12, <1>13, <1>14,
     <1>15, <1>16, <1>17, <1>18, <1>19, <1>20 DEF Next, Reconcile

\* Whatever fails and however often Reconcile starts over, the saved defaults are the
\* settings that the system had before the first change that Reconcile made.
THEOREM DefaultsKept == Spec => []DefaultsAreOriginal
<1>1. Init => DefaultsInv
  BY CasesAssumption, PhasesDef
     DEF Init, NoWork, DefaultsInv, DefaultsAreOriginal, HasCopy, Started, Collected
<1>2. Spec => [](TypeInv /\ DefaultsInv)
  BY <1>1, InitTyped, StepTyped, StepDefaults, PTL DEF Spec
<1>3. DefaultsInv => DefaultsAreOriginal
  BY DEF DefaultsInv
<1> QED
  BY <1>2, <1>3, PTL

-----------------------------------------------------------------------------
(* The settings of a reconciled system.                                    *)

\* The annotation of day 2 is there in day 2 only, from UpdateAnnotation until Reconcile
\* returns, although the user may ask for another scope in between, and annotate.
DayTwoOnly(o) == o.after = "day2" => o.scope = "principal"
AnnotationInv ==
  /\ wk.pc = "config" => DayTwoOnly(obj)
  /\ HasCopy => DayTwoOnly(wk.copy)
  /\ wk.pc \in Stages => ReconcileRequired(wk.copy)

LEMMA EarlyAnnotation ==
  ASSUME wk'.pc \in EarlyPCs, wk'.pc # "config"
  PROVE  AnnotationInv'
BY PhasesDef DEF AnnotationInv, HasCopy

\* What the steps after UpdateConfigStatus make of the copy.
LEMMA SameCopy ==
  ASSUME AnnotationInv, HasCopy, wk'.pc \notin {"config"} \cup Stages,
         wk'.copy.after = wk.copy.after, wk'.copy.scope = wk.copy.scope
  PROVE  AnnotationInv'
BY DEF AnnotationInv, HasCopy, DayTwoOnly

LEMMA StepAnnotation == TypeInv /\ AnnotationInv /\ [Next]_vars => AnnotationInv'
<1> SUFFICES ASSUME TypeInv, AnnotationInv, [Next]_vars PROVE AnnotationInv'
  OBVIOUS
<1>0. obj \in ObjectType
  BY DEF TypeInv
<1>1. CASE FetchInstance
  <2>1. Retry \/ wk' = [pc |-> "factory"]
    BY <1>1 DEF FetchInstance
  <2>2. CASE Retry
    BY <2>2, RetryTyped, PhasesDef, EarlyAnnotation
  <2>3. CASE wk' = [pc |-> "factory"]
    <3>1. wk'.pc = "factory"
      BY <2>3
    <3> QED
      BY <3>1, PhasesDef, EarlyAnnotation
  <2> QED
    BY <2>1, <2>2, <2>3
<1>2. CASE UpdateStatusForFactoryInstall \/ SetFactoryReconciledUpdated \/ cleanDeprecatedCerts
  <2>1. wk'.pc \in {"idle", "factoryFlag", "clean", "annotation"}
    BY <1>2, RetryTyped, GotoTyped, PhaseTyped, PhasesDef
       DEF UpdateStatusForFactoryInstall, SetFactoryReconciledUpdated, cleanDeprecatedCerts
  <2> QED
    BY <2>1, PhasesDef, EarlyAnnotation
<1>3. CASE UpdateAnnotation
  <2>1. CASE Retry
    BY <2>1, RetryTyped, PhasesDef, EarlyAnnotation
  <2>2. CASE obj' = [obj EXCEPT !.after = AfterInSync(obj)] /\ Goto("config")
    <3>1. wk'.pc = "config"
      BY <1>3, <2>2, GotoTyped, PhaseTyped, PhasesDef DEF UpdateAnnotation
    <3>2. DayTwoOnly(obj')
      BY <1>0, <2>2 DEF AfterInSync, ObjectType, DayTwoOnly
    <3> QED
      BY <3>1, <3>2, PhasesDef DEF AnnotationInv, HasCopy
  <2> QED
    BY <1>3, <2>1, <2>2 DEF UpdateAnnotation, ReadAndWrite
<1>4. CASE UpdateConfigStatus
  <2>1. CASE Retry
    BY <2>1, RetryTyped, PhasesDef, EarlyAnnotation
  <2>2. CASE wk' = [pc |-> "populate", copy |-> Observe(obj)]
    <3>1. wk'.pc = "populate" /\ wk'.copy.after = obj.after /\ wk'.copy.scope = obj.scope
      BY <1>0, <2>2, ObserveTyped
    <3>2. DayTwoOnly(obj)
      BY <1>4 DEF UpdateConfigStatus, AnnotationInv
    <3> QED
      BY <3>1, <3>2, StagesDef DEF AnnotationInv, DayTwoOnly
  <2> QED
    BY <1>4, <2>1, <2>2 DEF UpdateConfigStatus
<1>5. CASE PopulateSystemInfo
  <2>1. HasCopy
    BY <1>5 DEF PopulateSystemInfo, HasCopy, EarlyPCs
  <2>2. CASE Retry
    BY <2>2, RetryTyped, PhasesDef, EarlyAnnotation
  <2>3. CASE ~Retry
    <3>1. wk'.pc = "defaults" /\ wk'.copy = wk.copy
      BY <1>5, <2>3 DEF PopulateSystemInfo
    <3> QED
      BY <2>1, <3>1, StagesDef, SameCopy
  <2> QED
    BY <2>2, <2>3
<1>6. CASE BuildSystemDefaults
  <2> DEFINE new == [wk.copy EXCEPT !.defaults = wk.info.set]
  <2>1. wk \in LateWork /\ wk.copy \in ObjectType /\ HasCopy
    BY <1>6, PhaseTyped DEF BuildSystemDefaults, LatePCs, LateWork, HasCopy, EarlyPCs
  <2>2. new.after = wk.copy.after /\ new.scope = wk.copy.scope
    BY <2>1 DEF ObjectType
  <2> HIDE DEF new
  <2>3. CASE Retry
    BY <2>3, RetryTyped, PhasesDef, EarlyAnnotation
  <2>4. CASE ~Retry
    <3>1. \/ Goto("merge")
          \/ wk' = [wk EXCEPT !.copy = new, !.pc = IF factory.on THEN "defaultFlag" ELSE "merge"]
      BY <1>6, <2>4 DEF BuildSystemDefaults, new
    <3>2. wk'.pc \in {"defaultFlag", "merge"} /\ wk'.copy \in {new, wk.copy}
      BY <2>1, <3>1, GotoTyped DEF LatePCs, LateWork
    <3> QED
      BY <2>1, <2>2, <3>2, StagesDef, SameCopy
  <2> QED
    BY <2>3, <2>4
<1>7. CASE SetFactoryDefaultUpdated \/ Merge \/ SystemReady
  <2>1. wk \in LateWork /\ HasCopy
    BY <1>7, PhaseTyped
       DEF SetFactoryDefaultUpdated, Merge, SystemReady, LatePCs, HasCopy, EarlyPCs
  <2>2. CASE Retry
    BY <2>2, RetryTyped, PhasesDef, EarlyAnnotation
  <2>3. CASE ~Retry
    <3>1. wk'.pc \in {"merge", "compare", "status"} /\ wk'.copy = wk.copy
      BY <1>7, <2>1, <2>3, GotoTyped
         DEF SetFactoryDefaultUpdated, Merge, SystemReady, LateWork, LatePCs
    <3> QED
      BY <2>1, <3>1, StagesDef, SameCopy
  <2> QED
    BY <2>2, <2>3
<1>8. CASE Compare
  <2> DEFINE o == wk.copy
             diff == Differences(wk.spec, wk.info.set)
             new == IF o.reconciled THEN [o EXCEPT !.inSync = (diff = {}), !.delta = diff] ELSE o
  <2>1. wk \in LateWork /\ o \in ObjectType /\ HasCopy
    BY <1>8, PhaseTyped DEF Compare, LatePCs, LateWork, HasCopy, EarlyPCs
  <2> HIDE DEF diff
  <2>2. new.after = o.after /\ new.scope = o.scope /\ new.reconciled = o.reconciled
    BY <2>1 DEF ObjectType
  <2> HIDE DEF new
  <2>3. wk' = [wk EXCEPT !.pc = IF ReconcileRequired(o) THEN "attributes" ELSE "ready",
                         !.ready = o.reconciled, !.ok = ~ReconcileRequired(o), !.copy = new]
    BY <1>8 DEF Compare, new, diff
  <2>4. wk'.copy = new /\ wk'.pc = IF ReconcileRequired(o) THEN "attributes" ELSE "ready"
    BY <2>1, <2>3 DEF LateWork
  <2> QED
    BY <2>1, <2>2, <2>4, StagesDef DEF AnnotationInv, HasCopy, ReconcileRequired, DayTwoOnly
<1>9. CASE Request \/ Advance
  <2>1. wk \in LateWork /\ wk.pc \in Stages /\ HasCopy
    BY <1>9, PhaseTyped, PhasesDef DEF Request, Advance, LatePCs, HasCopy
  <2>2. wk'.copy = wk.copy /\ wk'.pc \in Stages \cup {"ready"}
    <3>1. After(wk.pc) \in Stages \cup {"ready"}
      BY <2>1, StagesDef, AfterDef
    <3>2. \/ Fails
          \/ \E i \in Items : wk' = [wk EXCEPT !.done = @ \cup {i},
                                  !.kube = @ \/ (wk.pc = "parameters" /\ i \in Kube)]
          \/ Advance
      BY <1>9 DEF Request
    <3> QED
      BY <2>1, <3>1, <3>2, FailsTyped DEF Advance, LateWork
  <2> QED
    BY <2>1, <2>2, PhasesDef DEF AnnotationInv, HasCopy
<1>10. CASE FileSystemResizeAllowed
  <2>1. wk \in LateWork /\ wk.copy \in ObjectType /\ HasCopy
    BY <1>10, PhaseTyped, StagesDef
       DEF FileSystemResizeAllowed, Barred, LatePCs, LateWork, HasCopy, EarlyPCs
  <2>2. PICK new \in {wk.copy, [wk.copy EXCEPT !.strategy = "unlock_required"]}, b \in BOOLEAN :
          wk' = [[wk EXCEPT !.pc = "ready", !.ready = TRUE, !.wait = TRUE, !.done = {},
                            !.copy = new] EXCEPT !.wait = b]
    BY <1>10, <2>1 DEF FileSystemResizeAllowed, LateWork
  <2>3. new.after = wk.copy.after /\ new.scope = wk.copy.scope
    BY <2>1 DEF ObjectType
  <2>4. wk'.pc = "ready" /\ wk'.copy = new
    BY <2>1, <2>2 DEF LateWork
  <2> QED
    BY <2>1, <2>3, <2>4, StagesDef, SameCopy
<1>11. CASE StatusUpdate
  <2>1. wk'.pc = "idle"
    BY <1>11 DEF StatusUpdate, Retry, NoWork
  <2> QED
    BY <2>1, PhasesDef, EarlyAnnotation
<1>12. CASE UNCHANGED <<wk, obj>>
  BY <1>12 DEF AnnotationInv, HasCopy, ReconcileRequired
<1>13. CASE Happens
  <2>1. CASE wk' = NoWork
    BY <2>1, PhasesDef, EarlyAnnotation DEF NoWork
  <2>2. CASE wk' = wk /\ obj'.scope = obj.scope /\ (obj'.after = "day2" => obj.after = "day2")
    BY <2>2 DEF AnnotationInv, HasCopy, ReconcileRequired, DayTwoOnly
  <2>3. CASE \E a \in UserAnnotations : obj' = [obj EXCEPT !.after = a] /\ wk' = wk
    BY <1>0, <2>2, <2>3 DEF ObjectType, UserAnnotations
  <2> DEFINE e == Head(later)
  <2>4. e \in ActType
    BY <1>13 DEF Happens, TypeInv
  <2> HIDE DEF e
  <2>5. CASE e.kind = "annotate" /\ obj' = [obj EXCEPT !.after = e.value] /\ wk' = wk
    BY <2>3, <2>4, <2>5 DEF ActType
  <2>6. \/ wk' = NoWork \/ (wk' = wk /\ obj' = obj)
        \/ e.kind = "annotate" /\ obj' = [obj EXCEPT !.after = e.value] /\ wk' = wk
        \/ obj' = [obj EXCEPT !.asked = e.value] /\ wk' = wk
        \/ obj' = [obj EXCEPT !.spec = e.value, !.gen = @ + 1] /\ wk' = wk
    BY <1>13 DEF Happens, UserWrites, e
  <2> QED
    BY <1>0, <2>1, <2>2, <2>5, <2>6 DEF ObjectType
<1> QED
  BY <1>1, <1>2, <1>3, <1>4, <1>5, <1>6, <1>7, <1>8, <1>9, <1>10, <1>11, <1>12, <1>13
     DEF Next, Reconcile, MonitorFires, ResizeEnds, vars

\* Only the requests of the sub-reconcilers change the settings, and these are
\* reached only if Reconcile may process changes.
LEMMA ChangeNeedsScope ==
  TypeInv /\ AnnotationInv /\ [Next]_vars =>
    (sys'.set # sys.set => \/ ~wk.copy.reconciled \/ wk.copy.scope = "principal"
                           \/ wk.copy.after \in UserAnnotations)
<1> SUFFICES ASSUME TypeInv, AnnotationInv, Next, sys'.set # sys.set
             PROVE  \/ ~wk.copy.reconciled \/ wk.copy.scope = "principal"
                    \/ wk.copy.after \in UserAnnotations
  BY DEF vars
<1>1. ~ResizeEnds
  BY DEF ResizeEnds, TypeInv, SystemType
<1>2. Request
  BY <1>1 DEF Next, Reconcile, FetchInstance, UpdateStatusForFactoryInstall,
     SetFactoryReconciledUpdated, cleanDeprecatedCerts, UpdateAnnotation, UpdateConfigStatus,
     PopulateSystemInfo, BuildSystemDefaults, SetFactoryDefaultUpdated, Merge, Compare, Advance,
     FileSystemResizeAllowed, SystemReady, StatusUpdate, MonitorFires, Happens
<1>3. wk.pc \in Stages /\ HasCopy
  BY <1>2, PhasesDef DEF Request, HasCopy
<1>4. wk.copy \in ObjectType
  BY <1>3, PhaseTyped, PhasesDef DEF LatePCs, LateWork
<1> QED
  BY <1>3, <1>4 DEF AnnotationInv, ReconcileRequired, DayTwoOnly, ObjectType, Annotations

\* For every sequence of scopes, annotations, changes and faults: once Reconcile has
\* seen the object reconciled in day 1, and no annotation of the user, it changes no
\* setting of the system.
THEOREM ReconciledSystemKept == Spec => RefusesChanges
<1>1. Init => AnnotationInv
  BY PhasesDef DEF Init, NoWork, AnnotationInv, HasCopy
<1>2. Spec => [](TypeInv /\ AnnotationInv)
  BY <1>1, InitTyped, StepTyped, StepAnnotation, PTL DEF Spec
<1> QED
  BY <1>2, ChangeNeedsScope, PTL DEF Spec, RefusesChanges

-----------------------------------------------------------------------------
(* The others start when the system is configured.                         *)

Pos(s) == CHOOSE i \in 1..Len(Calls) : Calls[i] = s

LEMMA PosDef ==
  /\ Pos("attributes") = 1 /\ Pos("certificates") = 2 /\ Pos("license") = 3 /\ Pos("drbd") = 4
  /\ Pos("dns") = 5 /\ Pos("ntp") = 6 /\ Pos("ptp") = 7 /\ Pos("parameters") = 8
  /\ Pos("staleParameters") = 9 /\ Pos("apply") = 10 /\ Pos("backends") = 11
  /\ Pos("hosts") = 12 /\ Pos("fileSystems") = 13 /\ Pos("resize") = 14
  /\ Pos("staleFileSystems") = 15
<1>1. ASSUME NEW n \in 1..15
      PROVE  Pos(Calls[n]) = n
  <2> DEFINE j == CHOOSE i \in 1..Len(Calls) : Calls[i] = Calls[n]
  <2>1. j \in 1..16 /\ Calls[j] = Calls[n]
    BY <1>1 DEF Calls
  <2>2. j = n
    BY <1>1, <2>1 DEF Calls
  <2> QED
    BY <2>2 DEF Pos
<1> QED
  BY <1>1 DEF Calls

\* The system is as it was when the sub-reconciler began, but for what it has
\* requested since.
InStage ==
  /\ \A k \in Values :
       sys.set.val[k] = IF k = wk.pc /\ k \in wk.done THEN S.val[k] ELSE I.val[k]
  /\ sys.set.certs = IF wk.pc = "certificates" THEN I.certs \cup wk.done ELSE I.certs
  /\ sys.set.license = IF wk.pc = "license" /\ wk.done # {} THEN S.license ELSE I.license
  /\ \A p \in Parameters :
       sys.set.params[p] = IF wk.pc = "parameters" /\ p \in wk.done THEN S.params[p]
                           ELSE IF wk.pc = "staleParameters" /\ p \in wk.done THEN 0
                           ELSE I.params[p]
  /\ wk.pc = "staleParameters" => \A p \in wk.done : S.params[p] = 0
  /\ sys.set.backends = IF wk.pc = "backends" THEN I.backends \cup wk.done ELSE I.backends

\* What the sub-reconcilers before the current one have achieved.
Passed(k) == Pos(k) < Pos(wk.pc)
Achieved ==
  /\ \A k \in Values : Passed(k) => I.val[k] = S.val[k]
  /\ Passed("certificates") => S.certs \subseteq I.certs
  /\ Passed("license") => S.license \in {"none", I.license}
  /\ Passed("parameters") => \A p \in Parameters : S.params[p] # 0 => I.params[p] = S.params[p]
  /\ Passed("staleParameters") => \A p \in Parameters : I.params[p] = S.params[p]
  /\ Passed("backends") => S.backends \subseteq I.backends

\* A certificate is installed, or there is a secret to install it from.
Installable == S.certs \subseteq env.secrets \cup I.certs

ProgressInv ==
  /\ sys.first.certs \subseteq sys.set.certs
  /\ wk.pc \in {"defaults", "defaultFlag", "merge", "compare"} =>
       wk.info.set = sys.set /\ wk.done = {}
  /\ wk.pc \in Stages \cup {"compare"} => Installable
  /\ wk.pc \in Stages => InStage /\ Achieved
  /\ wk.pc = "ready" /\ wk.ready => wk.copy.reconciled \/ InitialDone(wk.spec, sys.set)

\* A step after which Reconcile has no snapshot.
LEMMA EarlyProgress ==
  ASSUME ProgressInv, sys' = sys, wk'.pc \in EarlyPCs \cup {"populate"}
  PROVE  ProgressInv'
BY PhasesDef DEF ProgressInv

\* A step that only moves on, before the comparison or after the sub-reconcilers.
LEMMA MovedProgress ==
  ASSUME ProgressInv, sys' = sys, wk'.pc \in {"defaultFlag", "merge", "status"},
         wk'.info = wk.info, wk'.done = wk.done,
         wk'.pc # "status" => wk.pc \in {"defaults", "defaultFlag"}
  PROVE  ProgressInv'
<1>1. wk'.pc \notin Stages
  BY StagesDef
<1> QED
  BY <1>1 DEF ProgressInv

\* What the system has achieved at the end of a stage is as much as is required.
LEMMA AchievedDone ==
  ASSUME TypeInv, wk.pc \in Final, InStage, Achieved
  PROVE  InitialDone(wk.spec, sys.set)
<1>1. wk \in LateWork /\ wk.pc \in Stages
  BY PhaseTyped, StagesDef DEF Final, LatePCs
<1>2. S \in SettingsType /\ sys.set \in SettingsType
  BY <1>1 DEF S, LateWork, TypeInv, SystemType
<1>3. \A k \in Values \cup {"certificates", "license", "parameters", "staleParameters", "backends"} :
        Passed(k) /\ wk.pc # k
  BY PosDef DEF Passed, Final, Values
<1>4. \A k \in Values : sys.set.val[k] = S.val[k]
  BY <1>3 DEF InStage, Achieved
<1>5. \A p \in Parameters : sys.set.params[p] = S.params[p]
  BY <1>3 DEF InStage, Achieved
<1>6. sys.set.val = S.val
  BY <1>2, <1>4 DEF SettingsType
<1>7. sys.set.params = S.params
  BY <1>2, <1>5 DEF SettingsType
<1>8. /\ S.certs \subseteq sys.set.certs /\ S.backends \subseteq sys.set.backends
      /\ S.license \in {"none", sys.set.license}
  BY <1>3 DEF InStage, Achieved
<1> QED
  BY <1>6, <1>7, <1>8 DEF InitialDone, S

\* When a sub-reconciler has nothing left to request, the system has what it is for.
LEMMA StageDone ==
  ASSUME TypeInv, wk.pc \in Stages, InStage, Achieved, Installable, Items \subseteq wk.done
  PROVE  /\ \A k \in Values : Passed(k) \/ k = wk.pc => sys.set.val[k] = S.val[k]
         /\ Passed("certificates") \/ wk.pc = "certificates" => S.certs \subseteq sys.set.certs
         /\ Passed("license") \/ wk.pc = "license" => S.license \in {"none", sys.set.license}
         /\ Passed("parameters") \/ wk.pc = "parameters" =>
              \A p \in Parameters : S.params[p] # 0 => sys.set.params[p] = S.params[p]
         /\ Passed("staleParameters") \/ wk.pc = "staleParameters" =>
              \A p \in Parameters : sys.set.params[p] = S.params[p]
         /\ Passed("backends") \/ wk.pc = "backends" => S.backends \subseteq sys.set.backends
<1>1. wk \in LateWork
  BY PhaseTyped DEF LatePCs
<1>2. S \in SettingsType /\ I \in SettingsType
  BY <1>1 DEF S, I, LateWork, SystemType
<1>3. ASSUME NEW k \in Values, Passed(k) \/ k = wk.pc
      PROVE  sys.set.val[k] = S.val[k]
  <2>1. CASE k = wk.pc
    <3>1. Items = Differs(k)
      BY <2>1 DEF Items, Values, ReconcileSystemAttributes, ReconcileDRBD, ReconcileDNS,
         ReconcileNTP, ReconcilePTP
    <3> QED
      BY <2>1, <3>1 DEF Differs, InStage
  <2>2. CASE Passed(k) /\ k # wk.pc
    BY <2>2 DEF InStage, Achieved
  <2> QED
    BY <1>3, <2>1, <2>2
<1>4. Passed("certificates") \/ wk.pc = "certificates" => S.certs \subseteq sys.set.certs
  <2>1. CASE wk.pc = "certificates"
    <3>1. Items = (S.certs \cap env.secrets) \ I.certs
      BY <2>1 DEF Items, ReconcileCertificates
    <3> QED
      BY <2>1, <3>1 DEF InStage, Installable
  <2> QED
    BY <2>1 DEF InStage, Achieved
<1>5. Passed("license") \/ wk.pc = "license" => S.license \in {"none", sys.set.license}
  <2>1. CASE wk.pc = "license"
    <3>1. S.license \in {"none", I.license} \/ Items = {S.license}
      BY <2>1 DEF Items, ReconcileLicense
    <3> QED
      BY <2>1, <3>1 DEF InStage
  <2> QED
    BY <2>1 DEF InStage, Achieved
<1>6. Passed("parameters") \/ wk.pc = "parameters" =>
        \A p \in Parameters : S.params[p] # 0 => sys.set.params[p] = S.params[p]
  <2>1. CASE wk.pc = "parameters"
    <3>1. Items = {p \in Parameters : S.params[p] # 0 /\ S.params[p] # I.params[p]}
      BY <1>2, <2>1 DEF Items, ReconcileServiceParameters, Changed, SettingsType
    <3> QED
      BY <2>1, <3>1 DEF InStage
  <2>2. CASE wk.pc # "parameters" /\ Passed("parameters")
    BY <2>2 DEF InStage, Achieved
  <2> QED
    BY <2>1, <2>2
<1>7. Passed("staleParameters") \/ wk.pc = "staleParameters" =>
        \A p \in Parameters : sys.set.params[p] = S.params[p]
  <2>1. CASE wk.pc = "staleParameters"
    <3>1. Items = {p \in Parameters : I.params[p] # 0 /\ S.params[p] = 0}
      BY <2>1 DEF Items, StaleServiceParameters
    <3>2. \A p \in Parameters : S.params[p] # 0 => I.params[p] = S.params[p]
      BY <2>1, PosDef DEF Achieved, Passed
    <3> QED
      BY <2>1, <3>1, <3>2 DEF InStage
  <2>2. CASE wk.pc # "staleParameters" /\ Passed("staleParameters")
    <3>1. wk.pc # "parameters"
      BY <2>2, PosDef DEF Passed
    <3> QED
      BY <2>2, <3>1 DEF InStage, Achieved
  <2> QED
    BY <2>1, <2>2
<1>8. Passed("backends") \/ wk.pc = "backends" => S.backends \subseteq sys.set.backends
  <2>1. CASE wk.pc = "backends"
    <3>1. Items = S.backends \ I.backends
      BY <2>1 DEF Items, ReconcileStorageBackends
    <3> QED
      BY <2>1, <3>1 DEF InStage
  <2> QED
    BY <2>1 DEF InStage, Achieved
<1> QED
  BY <1>3, <1>4, <1>5, <1>6, <1>7, <1>8

\* A request is for something that differs, and what it changes is accounted for.
LEMMA RequestInStage ==
  ASSUME TypeInv, wk.pc \in Stages, InStage, NEW i \in Items, sys' = Apply(i),
         wk'.pc = wk.pc, wk'.spec = wk.spec, wk'.info = wk.info, wk'.done = wk.done \cup {i}
  PROVE  InStage'
<1>1. wk \in LateWork
  BY PhaseTyped DEF LatePCs
<1>2. S \in SettingsType /\ I \in SettingsType /\ sys.set \in SettingsType
  BY <1>1 DEF S, I, LateWork, SystemType, TypeInv
<1>3. S' = S /\ I' = I
  BY DEF S, I
<1>4. ASSUME NEW k \in Values
      PROVE  sys'.set.val[k] = IF k = wk'.pc /\ k \in wk'.done THEN S.val[k] ELSE I.val[k]
  <2>1. CASE wk.pc \in Values
    <3>1. i = wk.pc
      BY <2>1 DEF Items, ReconcileSystemAttributes, ReconcileDRBD, ReconcileDNS, ReconcileNTP,
         ReconcilePTP, Differs, Values
    <3>2. sys'.set.val = [sys.set.val EXCEPT ![i] = S.val[i]]
      BY <2>1, ApplyEffect
    <3>3. sys'.set.val[k] = IF k = i THEN S.val[i] ELSE sys.set.val[k]
      BY <1>2, <3>2 DEF SettingsType
    <3> QED
      BY <3>1, <3>3 DEF InStage
  <2>2. CASE wk.pc \notin Values
    BY <2>2, ApplyEffect DEF InStage
  <2> QED
    BY <2>1, <2>2
<1>5. sys'.set.certs = IF wk'.pc = "certificates" THEN I.certs \cup wk'.done ELSE I.certs
  BY ApplyEffect DEF InStage
<1>6. sys'.set.license = IF wk'.pc = "license" /\ wk'.done # {} THEN S.license ELSE I.license
  <2>1. wk.pc = "license" => i = S.license
    BY DEF Items, ReconcileLicense
  <2> QED
    BY <2>1, ApplyEffect DEF InStage
<1>7. ASSUME NEW p \in Parameters
      PROVE  sys'.set.params[p] = IF wk'.pc = "parameters" /\ p \in wk'.done THEN S.params[p]
                                  ELSE IF wk'.pc = "staleParameters" /\ p \in wk'.done THEN 0
                                  ELSE I.params[p]
  <2>1. CASE wk.pc = "parameters"
    <3>1. sys'.set.params = [sys.set.params EXCEPT ![i] = S.params[i]]
      BY <2>1, ApplyEffect
    <3>2. sys'.set.params[p] = IF p = i THEN S.params[i] ELSE sys.set.params[p]
      BY <1>2, <3>1 DEF SettingsType
    <3> QED
      BY <2>1, <3>2 DEF InStage
  <2>2. CASE wk.pc = "staleParameters"
    <3>1. sys'.set.params = [sys.set.params EXCEPT ![i] = 0]
      BY <2>2, ApplyEffect
    <3>2. sys'.set.params[p] = IF p = i THEN 0 ELSE sys.set.params[p]
      BY <1>2, <3>1 DEF SettingsType
    <3> QED
      BY <2>2, <3>2 DEF InStage
  <2>3. CASE wk.pc \notin {"parameters", "staleParameters"}
    BY <2>3, ApplyEffect DEF InStage
  <2> QED
    BY <2>1, <2>2, <2>3
<1>8. wk'.pc = "staleParameters" => \A p \in wk'.done : S.params[p] = 0
  <2>1. wk.pc = "staleParameters" => S.params[i] = 0
    BY DEF Items, StaleServiceParameters
  <2> QED
    BY <2>1 DEF InStage
<1>9. sys'.set.backends = IF wk'.pc = "backends" THEN I.backends \cup wk'.done ELSE I.backends
  BY ApplyEffect DEF InStage
<1> QED
  BY <1>3, <1>4, <1>5, <1>6, <1>7, <1>8, <1>9 DEF InStage

LEMMA StepProgress ==
  TypeInv /\ DefaultsInv /\ ProgressInv /\ [Next]_vars => ProgressInv'
<1> SUFFICES ASSUME TypeInv, DefaultsInv, ProgressInv, [Next]_vars PROVE ProgressInv'
  OBVIOUS
<1>1. CASE FetchInstance \/ UpdateStatusForFactoryInstall \/ SetFactoryReconciledUpdated
           \/ cleanDeprecatedCerts \/ UpdateAnnotation \/ UpdateConfigStatus
  <2>1. UNCHANGED sys
    BY <1>1 DEF FetchInstance, UpdateStatusForFactoryInstall, SetFactoryReconciledUpdated,
       cleanDeprecatedCerts, UpdateAnnotation, UpdateConfigStatus
  <2>2. \/ Retry \/ \E pc \in EarlyPCs : Goto(pc) /\ wk \in EarlyWork
        \/ wk' = [pc |-> "factory"] \/ \E o : wk' = [pc |-> "populate", copy |-> o]
    BY <1>1, PhasesDef, PhaseTyped DEF FetchInstance, UpdateStatusForFactoryInstall,
       SetFactoryReconciledUpdated, cleanDeprecatedCerts, UpdateAnnotation, UpdateConfigStatus
  <2>3. CASE Retry
    BY <2>1, <2>3, RetryTyped, PhasesDef, EarlyProgress
  <2>4. CASE \E pc \in EarlyPCs : Goto(pc) /\ wk \in EarlyWork
    BY <2>1, <2>4, GotoTyped, EarlyProgress
  <2>5. CASE wk' = [pc |-> "factory"]
    <3>1. wk'.pc = "factory"
      BY <2>5
    <3> QED
      BY <2>1, <3>1, PhasesDef, EarlyProgress
  <2>6. CASE \E o : wk' = [pc |-> "populate", copy |-> o]
    <3>1. wk'.pc = "populate"
      BY <2>6
    <3> QED
      BY <2>1, <3>1, EarlyProgress
  <2> QED
    BY <2>2, <2>3, <2>4, <2>5, <2>6
<1>2. CASE PopulateSystemInfo
  <2>1. UNCHANGED sys
    BY <1>2 DEF PopulateSystemInfo
  <2>2. CASE Retry
    BY <2>1, <2>2, RetryTyped, PhasesDef, EarlyProgress
  <2>3. CASE ~Retry
    <3>1. wk'.pc = "defaults" /\ wk'.info = sys /\ wk'.done = {}
      BY <1>2, <2>3 DEF PopulateSystemInfo
    <3> QED
      BY <2>1, <3>1, StagesDef DEF ProgressInv
  <2> QED
    BY <2>2, <2>3
<1>3. CASE BuildSystemDefaults \/ SetFactoryDefaultUpdated \/ SystemReady
  <2>1. UNCHANGED sys /\ wk \in LateWork
    BY <1>3, PhaseTyped DEF BuildSystemDefaults, SetFactoryDefaultUpdated, SystemReady, LatePCs
  <2>2. CASE Retry
    BY <2>1, <2>2, RetryTyped, PhasesDef, EarlyProgress
  <2>3. CASE ~Retry
    <3>1. /\ wk'.pc \in {"defaultFlag", "merge", "status"}
          /\ wk'.info = wk.info /\ wk'.done = wk.done
          /\ wk'.pc # "status" => wk.pc \in {"defaults", "defaultFlag"}
      BY <1>3, <2>1, <2>3, GotoTyped
         DEF BuildSystemDefaults, SetFactoryDefaultUpdated, SystemReady, LatePCs, LateWork
    <3> QED
      BY <2>1, <3>1, MovedProgress
  <2> QED
    BY <2>2, <2>3
<1>4. CASE Merge
  <2>1. UNCHANGED <<sys, env>> /\ wk \in LateWork /\ wk.pc = "merge"
    BY <1>4, PhaseTyped DEF Merge, LatePCs
  <2>2. CASE Retry
    BY <2>1, <2>2, RetryTyped, PhasesDef, EarlyProgress
  <2>3. CASE ~Retry
    <3>1. /\ wk'.pc = "compare" /\ wk'.info = wk.info /\ wk'.done = wk.done
          /\ wk'.spec = MergeSystemSpecs(wk.copy.defaults, wk.copy.spec)
          /\ wk.copy.spec.certs \subseteq env.secrets
      BY <1>4, <2>1, <2>3 DEF Merge, LateWork
    <3>2. wk'.spec.certs = wk.copy.spec.certs \cup wk.copy.defaults.certs
      BY <2>1, <3>1, MergeTyped DEF LateWork, ObjectType
    <3>3. wk.copy.defaults = sys.first
      BY <2>1, PhasesDef DEF DefaultsInv, HasCopy, Started, Collected
    <3>4. wk.info.set = sys.set /\ wk.done = {} /\ sys.first.certs \subseteq sys.set.certs
      BY <2>1 DEF ProgressInv
    <3>5. Installable'
      BY <2>1, <3>1, <3>2, <3>3, <3>4 DEF Installable, S, I
    <3> QED
      BY <2>1, <3>1, <3>4, <3>5, StagesDef DEF ProgressInv
  <2> QED
    BY <2>2, <2>3
<1>5. CASE Compare
  <2> DEFINE o == wk.copy
             diff == Differences(wk.spec, wk.info.set)
             new == IF o.reconciled THEN [o EXCEPT !.inSync = (diff = {}), !.delta = diff] ELSE o
  <2>1. UNCHANGED <<sys, env>> /\ wk \in LateWork /\ wk.pc = "compare" /\ o \in ObjectType
    BY <1>5, PhaseTyped DEF Compare, LatePCs, LateWork
  <2> HIDE DEF diff
  <2>2. new.reconciled = o.reconciled
    BY <2>1 DEF ObjectType
  <2> HIDE DEF new
  <2>3. wk' = [wk EXCEPT !.pc = IF ReconcileRequired(o) THEN "attributes" ELSE "ready",
                         !.ready = o.reconciled, !.ok = ~ReconcileRequired(o), !.copy = new]
    BY <1>5 DEF Compare, new, diff
  <2>4. /\ wk'.copy = new /\ wk'.pc \in {"attributes", "ready"} /\ wk'.ready = o.reconciled
        /\ wk'.info = wk.info /\ wk'.spec = wk.spec /\ wk'.done = wk.done
    BY <2>1, <2>3 DEF LateWork
  <2>5. wk.info.set = sys.set /\ wk.done = {} /\ Installable
    BY <2>1 DEF ProgressInv
  <2>6. Installable'
    BY <2>1, <2>4, <2>5 DEF Installable, S, I
  <2>7. CASE wk'.pc = "attributes"
    <3>1. InStage'
      BY <2>1, <2>4, <2>5, <2>7 DEF InStage, S, I
    <3>2. Achieved'
      BY <2>7, PosDef DEF Achieved, Passed, Values
    <3> QED
      BY <2>1, <2>6, <2>7, <3>1, <3>2 DEF ProgressInv
  <2>8. CASE wk'.pc = "ready"
    BY <2>1, <2>2, <2>4, <2>8, StagesDef DEF ProgressInv
  <2> QED
    BY <2>4, <2>7, <2>8
<1>6. CASE Request
  <2>1. wk \in LateWork /\ wk.pc \in Stages /\ UNCHANGED env
    BY <1>6, PhaseTyped DEF Request, LatePCs
  <2>2. PICK i \in Items \ wk.done :
       \/ /\ NoFault /\ Accepted(i) /\ sys' = Apply(i)
          /\ wk' = [wk EXCEPT !.done = @ \cup {i},
                              !.kube = @ \/ (wk.pc = "parameters" /\ i \in Kube)]
       \/ NoFault /\ ~Accepted(i) /\ UNCHANGED sys /\ Fails
       \/ Fault /\ Fails /\ (UNCHANGED sys \/ (Accepted(i) /\ sys' = Apply(i)))
    BY <1>6 DEF Request
  <2>3. sys'.first.certs \subseteq sys'.set.certs
    BY <2>1, <2>2, ApplyEffect DEF ProgressInv
  <2>4. Installable /\ InStage /\ Achieved
    BY <2>1 DEF ProgressInv
  <2>5. wk.pc \notin {"defaults", "defaultFlag", "merge", "compare", "ready"}
    BY <2>1, StagesDef
  <2>6. CASE /\ sys' = Apply(i)
             /\ wk' = [wk EXCEPT !.done = @ \cup {i},
                                 !.kube = @ \/ (wk.pc = "parameters" /\ i \in Kube)]
    <3>1. /\ wk'.pc = wk.pc /\ wk'.spec = wk.spec /\ wk'.info = wk.info
          /\ wk'.done = wk.done \cup {i}
      BY <2>1, <2>6 DEF LateWork
    <3>2. InStage'
      BY <2>1, <2>4, <2>6, <3>1, RequestInStage
    <3>3. Installable' /\ Achieved'
      BY <2>1, <2>4, <3>1 DEF Installable, Achieved, Passed, S, I
    <3> QED
      BY <2>1, <2>3, <2>5, <3>1, <3>2, <3>3 DEF ProgressInv
  <2>7. CASE Fails /\ sys' \in {sys, Apply(i)}
    <3>1. /\ wk'.pc = "ready" /\ wk'.copy = wk.copy /\ wk'.spec = wk.spec
          /\ wk'.ready = ReadyOnError
      BY <2>1, <2>7, FailsTyped
    <3>2. ASSUME wk.pc \in Final
          PROVE  InitialDone(wk'.spec, sys'.set)
      <4>1. InitialDone(wk.spec, sys.set)
        BY <2>4, <3>2, AchievedDone
      <4>2. /\ sys'.set.val = sys.set.val /\ sys'.set.certs = sys.set.certs
            /\ sys'.set.license = sys.set.license /\ sys'.set.params = sys.set.params
            /\ sys'.set.backends = sys.set.backends
        <5>1. wk.pc \notin Values \cup {"certificates", "license", "parameters",
                                        "staleParameters", "backends"}
          BY <3>2 DEF Final, Values
        <5>2. CASE sys' = Apply(i)
          BY <2>1, <5>1, <5>2, ApplyEffect
        <5> QED
          BY <2>7, <5>2
      <4> QED
        BY <3>1, <4>1, <4>2 DEF InitialDone
    <3> QED
      BY <2>3, <3>1, <3>2, StagesDef DEF ProgressInv, ReadyOnError
  <2> QED
    BY <2>2, <2>6, <2>7
<1>7. CASE Advance
  <2>1. wk \in LateWork /\ wk.pc \in Stages /\ UNCHANGED <<sys, env>> /\ Items \subseteq wk.done
    BY <1>7, PhaseTyped DEF Advance, LatePCs
  <2>2. Installable /\ InStage /\ Achieved
    BY <2>1 DEF ProgressInv
  <2>3. CASE Fails
    <3>1. /\ wk'.pc = "ready" /\ wk'.copy = wk.copy /\ wk'.spec = wk.spec
          /\ wk'.ready = ReadyOnError
      BY <2>1, <2>3, FailsTyped
    <3>2. wk.pc \in Final => InitialDone(wk'.spec, sys'.set)
      BY <2>1, <2>2, <3>1, AchievedDone
    <3> QED
      BY <2>1, <3>1, <3>2, StagesDef DEF ProgressInv, ReadyOnError
  <2>4. CASE ~Fails
    <3>1. /\ wk'.pc = After(wk.pc) /\ wk'.done = {} /\ wk'.info.set = sys.set
          /\ wk'.spec = wk.spec /\ wk'.copy = wk.copy
      <4>1. wk' = [wk EXCEPT !.pc = After(wk.pc), !.done = {}, !.info.set = sys.set,
                             !.nodes = IF wk.pc = "hosts" THEN env.nodes ELSE @,
                             !.ready = After(wk.pc) = "ready", !.ok = After(wk.pc) = "ready"]
        BY <1>7, <2>4 DEF Advance
      <4>2. wk.info \in SystemType
        BY <2>1 DEF LateWork
      <4> QED
        BY <2>1, <4>1, <4>2 DEF LateWork, SystemType
    <3>2. S' = S /\ I' = sys.set
      BY <3>1 DEF S, I
    <3>3. CASE wk.pc # "staleFileSystems"
      <4>1. wk'.pc \in Stages /\ Pos(wk'.pc) = Pos(wk.pc) + 1
        BY <2>1, <3>1, <3>3, AfterDef, StagesDef, PosDef
      <4>2. InStage'
        BY <2>1, <3>1, <3>2 DEF InStage
      <4>3. S.certs \subseteq env.secrets \cup sys.set.certs
        BY <2>2 DEF Installable, InStage
      <4>4. Installable'
        BY <2>1, <3>2, <4>3 DEF Installable
      <4>5. \A k \in Stages : Passed(k)' => Passed(k) \/ k = wk.pc
        BY <2>1, <4>1, StagesDef, PosDef DEF Passed
      <4>6. Values \subseteq Stages /\ {"certificates", "license", "parameters",
                                        "staleParameters", "backends"} \subseteq Stages
        BY StagesDef DEF Values
      <4>7. Achieved'
        BY <2>1, <2>2, <3>2, <4>5, <4>6, StageDone DEF Achieved
      <4> QED
        <5>1. wk'.pc \notin {"defaults", "defaultFlag", "merge", "compare", "ready"}
          BY <4>1, StagesDef
        <5> QED
          BY <2>1, <4>1, <4>2, <4>4, <4>7, <5>1 DEF ProgressInv
    <3>4. CASE wk.pc = "staleFileSystems"
      <4>1. wk'.pc = "ready" /\ InitialDone(wk'.spec, sys'.set)
        BY <2>1, <2>2, <3>1, <3>4, AfterDef, AchievedDone DEF Final
      <4> QED
        BY <2>1, <4>1, StagesDef DEF ProgressInv
    <3> QED
      BY <3>3, <3>4
  <2> QED
    BY <2>3, <2>4
<1>8. CASE FileSystemResizeAllowed
  <2>1. wk \in LateWork /\ wk.pc = "fileSystems" /\ wk.copy \in ObjectType /\ UNCHANGED sys
    BY <1>8, PhaseTyped, StagesDef DEF FileSystemResizeAllowed, Barred, LatePCs, LateWork
  <2>2. InitialDone(wk.spec, sys.set)
    BY <2>1, StagesDef, AchievedDone DEF ProgressInv, Final
  <2>3. PICK new \in {wk.copy, [wk.copy EXCEPT !.strategy = "unlock_required"]}, b \in BOOLEAN :
          wk' = [[wk EXCEPT !.pc = "ready", !.ready = TRUE, !.wait = TRUE, !.done = {},
                            !.copy = new] EXCEPT !.wait = b]
    BY <1>8, <2>1 DEF FileSystemResizeAllowed, LateWork
  <2>4. wk'.pc = "ready" /\ wk'.spec = wk.spec
    BY <2>1, <2>3 DEF LateWork
  <2> QED
    BY <2>1, <2>2, <2>4, StagesDef DEF ProgressInv
<1>9. CASE StatusUpdate
  <2>1. wk'.pc = "idle" /\ UNCHANGED sys
    BY <1>9 DEF StatusUpdate, Retry, NoWork
  <2> QED
    BY <2>1, PhasesDef, EarlyProgress
<1>10. CASE MonitorFires
  BY <1>10 DEF MonitorFires, ProgressInv, InStage, Achieved, Passed, Installable, S, I
<1>11. CASE ResizeEnds
  <2>1. UNCHANGED <<wk, env>> /\ sys'.set = sys.set /\ sys'.first = sys.first
    BY <1>11 DEF ResizeEnds, TypeInv, SystemType
  <2> QED
    BY <2>1 DEF ProgressInv, InStage, Achieved, Passed, Installable, S, I
<1>12. CASE Happens
  <2>1. UNCHANGED sys
    BY <1>12 DEF Happens
  <2>2. CASE wk' = NoWork
    BY <2>1, <2>2, PhasesDef, EarlyProgress DEF NoWork
  <2>3. CASE wk' = wk /\ env.secrets \subseteq env'.secrets
    <3>1. Installable => Installable'
      BY <2>3 DEF Installable, S, I
    <3> QED
      BY <2>1, <2>3, <3>1 DEF ProgressInv, InStage, Achieved, Passed, S, I
  <2> QED
    BY <1>12, <2>2, <2>3 DEF Happens, TypeInv, EnvType
<1>13. CASE UNCHANGED vars
  BY <1>13 DEF vars, ProgressInv, InStage, Achieved, Passed, Installable, S, I
<1> QED
  BY <1>1, <1>2, <1>3, <1>4, <1>5, <1>6, <1>7, <1>8, <1>9, <1>10, <1>11, <1>12, <1>13
     DEF Next, Reconcile

\* However many requests fail: when Reconcile lets the other controllers start, the
\* settings that do not depend on hosts are those of the object, or the object was
\* reconciled before.
THEOREM ReadyConfigured == Spec => ReadyMeansConfigured
<1>1. Init => DefaultsInv /\ ProgressInv
  BY CasesAssumption, PhasesDef
     DEF Init, NoWork, DefaultsInv, DefaultsAreOriginal, HasCopy, Started, Collected, ProgressInv
<1>2. Spec => [](TypeInv /\ DefaultsInv /\ ProgressInv)
  BY <1>1, InitTyped, StepTyped, StepDefaults, StepProgress, PTL DEF Spec
<1>3. TypeInv /\ ProgressInv /\ [Next]_vars =>
        (~mgr.ready /\ mgr'.ready => wk.copy.reconciled \/ InitialDone(wk.spec, sys.set))
  <2> SUFFICES ASSUME TypeInv, ProgressInv, Next, ~mgr.ready, mgr'.ready
               PROVE  wk.copy.reconciled \/ InitialDone(wk.spec, sys.set)
    BY DEF vars
  <2>1. mgr \in MgrType
    BY DEF TypeInv, MgrType
  <2>2. ~UpdateConfigStatus /\ ~FileSystemResizeAllowed /\ ~StatusUpdate /\ ~Happens
    BY <2>1 DEF UpdateConfigStatus, FileSystemResizeAllowed, StatusUpdate, Happens, MgrType
  <2>3. SystemReady
    BY <2>2 DEF Next, Reconcile, FetchInstance, UpdateStatusForFactoryInstall,
       SetFactoryReconciledUpdated, cleanDeprecatedCerts, UpdateAnnotation,
       PopulateSystemInfo, BuildSystemDefaults, SetFactoryDefaultUpdated, Merge, Compare,
       Request, Advance, MonitorFires, ResizeEnds
  <2> QED
    BY <2>3 DEF SystemReady, ProgressInv
<1> QED
  BY <1>2, <1>3, PTL DEF Spec, ReadyMeansConfigured
-----------------------------------------------------------------------------
(* What the manager was told.                                              *)

\* No file system that exists is smaller than the object wants it to be.
FsDone(o, s) ==
  \A f \in FileSystems :
    s.fs[f] # 0 => MergeSystemSpecs(o.defaults, o.spec).fs[f] <= s.fs[f]

\* The histories that ReportMatches is about: the user stays in day 2, and an object
\* that is reconciled was so under this deployment manager, which had collected the
\* defaults and had grown the file systems for the generation that it observed.
DayTwoActs == {a \in ActType : a.kind = "scope" => a.value = "principal"}
Observed == obj.observed = obj.gen
StartsInDayTwo ==
  /\ ~factory.on /\ later \in Seq(DayTwoActs) /\ obj.asked = "principal"
  /\ obj.gen > 0 /\ obj.observed <= obj.gen
  /\ obj.reconciled =>
       /\ obj.observed # 0 /\ obj.strategy = "not_required" /\ obj.defaults # NoDefaults
       /\ Observed => FsDone(obj, sys.set)

Ending == wk.pc \in {"ready", "status"}

\* The user and the generations.
DayTwoInv ==
  /\ ~factory.on /\ later \in Seq(DayTwoActs) /\ obj.asked = "principal"
  /\ wk.pc # "idle" => obj.scope = "principal"
  /\ obj.gen > 0 /\ obj.observed <= obj.gen /\ (obj.reconciled => obj.observed # 0)
  /\ wk.pc = "idle" /\ ~queued => Observed

\* The worker's copy may be out of date, but only the user and the worker write: what
\* the worker alone writes is in the copy, and the rest is if no update is queued.
CopyInv ==
  HasCopy =>
    /\ wk.copy.asked = "principal" /\ wk.copy.scope = "principal"
    /\ wk.copy.observed = wk.copy.gen /\ obj.observed = wk.copy.gen
    /\ wk.copy.gen # 0
    /\ wk.copy.reconciled = obj.reconciled
    /\ Observed => wk.copy.spec = obj.spec
    /\ fresh \/ ~queued => Observed

\* What the worker has for its copy.
WorkInv ==
  /\ wk.pc \in Stages \cup {"compare", "ready", "status"} =>
       wk.spec = MergeSystemSpecs(wk.copy.defaults, wk.copy.spec)
  /\ wk.pc \in LatePCs /\ ~Ending => ~wk.ok /\ ~wk.wait
  /\ Ending => ~(wk.ok /\ wk.wait)

\* An object that is reconciled, or was reported to be, has the file systems it wants;
\* so has the system once the sub-reconcilers are through.
FsDesired ==
  /\ obj.reconciled => obj.strategy = "not_required"
  /\ Observed /\ (obj.reconciled \/ mgr.report.reconciled) =>
       obj.defaults # NoDefaults /\ FsDone(obj, sys.set)
  /\ HasCopy /\ wk.copy.reconciled => wk.copy.strategy = "not_required" /\ FsDone(wk.copy, sys.set)
FsStages ==
  /\ wk.pc = "fileSystems" => \A f \in FileSystems : I.fs[f] # 0 => sys.set.fs[f] = I.fs[f]
  /\ wk.pc = "resize" => IF wk.done = {} THEN sys.set.fs = I.fs ELSE FsDone(wk.copy, sys.set)
  /\ wk.pc = "staleFileSystems" \/ (Ending /\ wk.ok) => FsDone(wk.copy, sys.set)
FsInv == FsDesired /\ FsStages

Unlock == [reconciled |-> FALSE, strategy |-> "unlock_required"]
AllDone == [reconciled |-> TRUE, strategy |-> "not_required"]

\* The report is that of the status, or one that the status could not be saved for.
ReportInv ==
  /\ Observed /\ mgr.report # NoReport /\ mgr.report # Report(obj) =>
       /\ ~obj.reconciled
       /\ mgr.report = AllDone \/ (mgr.report = Unlock /\ obj.strategy = "not_required")
  /\ HasCopy /\ wk.copy.strategy # obj.strategy =>
       Ending /\ ~wk.ok /\ ~wk.wait /\ mgr.report = Report(wk.copy)
  /\ wk.pc = "idle" \/ (Ending /\ wk.wait) =>
       \/ queued \/ mgr.report \in {NoReport, Report(obj)}
       \/ mon = "resize" /\ obj.strategy = "not_required"

-----------------------------------------------------------------------------

\* Requests that leave a file system, remove it or give it its size keep FsDone.
LEMMA FsDoneKept ==
  ASSUME NEW o, NEW s, NEW t, FsDone(o, s),
         \A f \in FileSystems :
           t.fs[f] \in {0, MergeSystemSpecs(o.defaults, o.spec).fs[f], s.fs[f]},
         \A f \in FileSystems : MergeSystemSpecs(o.defaults, o.spec).fs[f] \in Nat
  PROVE  FsDone(o, t)
BY DEF FsDone

\* FsDone looks at the defaults and the specification only.
LEMMA FsDoneSame ==
  ASSUME NEW o, NEW p, NEW s, o.defaults = p.defaults, o.spec = p.spec, FsDone(o, s)
  PROVE  FsDone(p, s)
BY DEF FsDone

\* What a request changes of the file systems.
LEMMA ApplyFs ==
  ASSUME TypeInv, wk.pc \in Stages, NEW i \in Items
  PROVE  Apply(i).set.fs =
           IF wk.pc = "fileSystems" THEN [sys.set.fs EXCEPT ![i] = S.fs[i]]
           ELSE IF wk.pc = "resize"
           THEN [f \in FileSystems |-> IF f \in i THEN S.fs[f] ELSE sys.set.fs[f]]
           ELSE IF wk.pc = "staleFileSystems" THEN [sys.set.fs EXCEPT ![i] = 0]
           ELSE sys.set.fs
<1>1. sys \in SystemType /\ sys.set \in SettingsType
  BY DEF TypeInv, SystemType
<1>2. wk.pc # "hosts"
  BY DEF Items
<1>3. CASE wk.pc \in Values
  BY <1>1, <1>3 DEF Apply, Values, SystemType, SettingsType
<1>4. CASE wk.pc \in {"certificates", "license", "backends"}
  BY <1>1, <1>4 DEF Apply, Values, SystemType, SettingsType
<1>5. CASE wk.pc \in {"parameters", "staleParameters", "apply"}
  BY <1>1, <1>5 DEF Apply, Values, SystemType, SettingsType
<1>6. CASE wk.pc \in {"fileSystems", "staleFileSystems"}
  BY <1>1, <1>6 DEF Apply, Values, SystemType, SettingsType
<1>7. CASE wk.pc = "resize"
  BY <1>1, <1>7 DEF Apply, Values, SystemType, SettingsType
<1> QED
  BY <1>2, <1>3, <1>4, <1>5, <1>6, <1>7, StagesDef DEF Values

LEMMA ApplyFsValues ==
  ASSUME TypeInv, wk.pc \in Stages, NEW i \in Items
  PROVE  \A f \in FileSystems : Apply(i).set.fs[f] \in {0, S.fs[f], sys.set.fs[f]}
<1>1. sys.set.fs \in [FileSystems -> Nat]
  BY DEF TypeInv, SystemType, SettingsType
<1>2. Apply(i).set.fs \in [FileSystems -> Nat]
  BY ApplyEffect DEF SystemType, SettingsType
<1>3. CASE wk.pc = "fileSystems"
  <2>1. Apply(i).set.fs = [sys.set.fs EXCEPT ![i] = S.fs[i]]
    BY <1>3, ApplyFs
  <2>2. \A f \in FileSystems : Apply(i).set.fs[f] = IF f = i THEN S.fs[f] ELSE sys.set.fs[f]
    BY <1>1, <2>1
  <2> QED
    BY <2>2
<1>4. CASE wk.pc = "resize"
  <2>1. Apply(i).set.fs =
          [f \in FileSystems |-> IF f \in i THEN S.fs[f] ELSE sys.set.fs[f]]
    BY <1>4, ApplyFs
  <2>2. \A f \in FileSystems :
          Apply(i).set.fs[f] = IF f \in i THEN S.fs[f] ELSE sys.set.fs[f]
    BY <2>1
  <2> QED
    BY <2>2
<1>5. CASE wk.pc = "staleFileSystems"
  BY <1>1, <1>5, ApplyFs
<1> QED
  BY <1>1, <1>3, <1>4, <1>5, ApplyFs

-----------------------------------------------------------------------------
(* What the steps leave alone.                                             *)

\* What the user writes of the object, and the generation that was observed.
SameUser(o, p) ==
  o.asked = p.asked /\ o.scope = p.scope /\ o.gen = p.gen /\ o.observed = p.observed
  /\ o.spec = p.spec

\* The outcomes of a write of the worker's copy.
LEMMA WriteSteps ==
  ASSUME NEW new, \/ UNCHANGED <<obj, queued, fresh>> \/ Write(new)
                  \/ (WriteFails /\ (UNCHANGED queued \/ Retry))
  PROVE  fresh' = fresh /\ (queued => queued') /\ (obj' = obj \/ (fresh /\ obj' = new))
<1>1. CASE UNCHANGED <<obj, queued, fresh>>
  BY <1>1
<1>2. CASE Write(new)
  BY <1>2 DEF Write
<1>3. CASE WriteFails /\ UNCHANGED queued
  BY <1>3 DEF WriteFails
<1>4. CASE WriteFails /\ Retry
  BY <1>4 DEF WriteFails, Retry
<1> QED
  BY <1>1, <1>2, <1>3, <1>4

LEMMA LateSteps ==
  ASSUME TypeInv, HasCopy, Reconcile
  PROVE  /\ factory'.on = factory.on /\ later' = later /\ (queued => queued') /\ fresh' = fresh
         /\ obj' = obj \/ (fresh /\ SameUser(obj', wk.copy))
         /\ wk.pc # "status" => obj' = obj \/ obj'.reconciled = wk.copy.reconciled
         /\ wk'.pc = "idle" \/ (HasCopy' /\ SameUser(wk'.copy, wk.copy)
                                /\ wk'.copy.reconciled = wk.copy.reconciled)
         /\ wk'.pc = "idle" /\ wk.pc # "status" => queued'
<1>0. factory \in FactoryType
  BY DEF TypeInv
<1>1. CASE PopulateSystemInfo
  <2>1. CASE Retry
    BY <1>1, <2>1, RetryTyped DEF PopulateSystemInfo
  <2>2. CASE ~Retry
    <3>1. wk'.pc = "defaults" /\ wk'.copy = wk.copy
      BY <1>1, <2>2 DEF PopulateSystemInfo
    <3> QED
      BY <1>1, <2>2, <3>1, PhasesDef DEF PopulateSystemInfo, HasCopy, SameUser
  <2> QED
    BY <2>1, <2>2
<1>2. CASE BuildSystemDefaults
  <2> DEFINE new == [wk.copy EXCEPT !.defaults = wk.info.set]
  <2>1. wk \in LateWork /\ wk.copy \in ObjectType
    BY <1>2, PhaseTyped DEF BuildSystemDefaults, LatePCs, LateWork
  <2>2. SameUser(new, wk.copy) /\ new.reconciled = wk.copy.reconciled
    BY <2>1 DEF ObjectType, SameUser
  <2> HIDE DEF new
  <2>3. CASE Retry
    <3>1. \/ UNCHANGED <<obj, queued, fresh>> \/ Write(new) \/ (WriteFails /\ Retry)
      BY <1>2 DEF BuildSystemDefaults, new
    <3>2. UNCHANGED <<factory, later>>
      BY <1>2 DEF BuildSystemDefaults
    <3> QED
      BY <2>2, <2>3, <3>1, <3>2, RetryTyped, WriteSteps
  <2>4. CASE ~Retry
    <3>1. \/ Goto("merge") /\ UNCHANGED <<obj, queued, fresh>>
          \/ /\ wk' = [wk EXCEPT !.copy = new, !.pc = IF factory.on THEN "defaultFlag" ELSE "merge"]
             /\ Write(new)
      BY <1>2, <2>4 DEF BuildSystemDefaults, new
    <3>2. wk'.pc \in {"defaultFlag", "merge"} /\ wk'.copy \in {new, wk.copy}
      BY <2>1, <3>1, GotoTyped DEF LatePCs, LateWork
    <3>3. HasCopy'
      BY <3>2, PhasesDef DEF HasCopy
    <3> QED
      <4>1. UNCHANGED <<factory, later>> /\ wk'.pc # "idle"
        BY <1>2, <3>2 DEF BuildSystemDefaults
      <4>2. SameUser(wk'.copy, wk.copy) /\ wk'.copy.reconciled = wk.copy.reconciled
        BY <2>2, <3>2 DEF SameUser
      <4> QED
        BY <2>2, <3>1, <3>3, <4>1, <4>2, WriteSteps
  <2> QED
    BY <2>3, <2>4
<1>3. CASE SetFactoryDefaultUpdated \/ Merge \/ SystemReady
  <2>1. wk \in LateWork
    BY <1>3, PhaseTyped DEF SetFactoryDefaultUpdated, Merge, SystemReady, LatePCs
  <2>2. UNCHANGED <<obj, fresh, later>> /\ factory'.on = factory.on
    BY <1>0, <1>3 DEF SetFactoryDefaultUpdated, Merge, SystemReady, FactoryType
  <2>3. CASE Retry
    BY <2>2, <2>3, RetryTyped
  <2>4. CASE ~Retry
    <3>1. wk'.pc \in {"merge", "compare", "status"} /\ wk'.copy = wk.copy /\ queued' = queued
      BY <1>3, <2>1, <2>4, GotoTyped
         DEF SetFactoryDefaultUpdated, Merge, SystemReady, LateWork, LatePCs
    <3> QED
      BY <2>2, <3>1, PhasesDef DEF HasCopy, SameUser
  <2> QED
    BY <2>3, <2>4
<1>4. CASE Compare
  <2> DEFINE o == wk.copy
             diff == Differences(wk.spec, wk.info.set)
             new == IF o.reconciled THEN [o EXCEPT !.inSync = (diff = {}), !.delta = diff] ELSE o
  <2>1. wk \in LateWork /\ o \in ObjectType
    BY <1>4, PhaseTyped DEF Compare, LatePCs, LateWork
  <2> HIDE DEF diff
  <2>2. SameUser(new, o) /\ new.reconciled = o.reconciled
    BY <2>1 DEF ObjectType, SameUser
  <2> HIDE DEF new
  <2>3. wk' = [wk EXCEPT !.pc = IF ReconcileRequired(o) THEN "attributes" ELSE "ready",
                         !.ready = o.reconciled, !.ok = ~ReconcileRequired(o), !.copy = new]
    BY <1>4 DEF Compare, new, diff
  <2>4. wk'.copy = new /\ wk'.pc \in Stages \cup {"ready"} /\ HasCopy'
    BY <2>1, <2>3, StagesDef, PhasesDef DEF LateWork, HasCopy
  <2>5. UNCHANGED <<obj, queued, fresh>> \/ Write(new) \/ (WriteFails /\ UNCHANGED queued)
    BY <1>4 DEF Compare, new, diff
  <2>6. factory' = factory /\ later' = later
    BY <1>4 DEF Compare
  <2>7. wk'.pc # "idle"
    BY <2>4, PhasesDef
  <2> QED
    BY <2>2, <2>4, <2>5, <2>6, <2>7, WriteSteps
<1>5. CASE Request \/ Advance
  <2>1. wk \in LateWork /\ wk.pc \in Stages
    BY <1>5, PhaseTyped, PhasesDef DEF Request, Advance, LatePCs
  <2>2. wk'.copy = wk.copy /\ wk'.pc \in Stages \cup {"ready"}
    <3>1. After(wk.pc) \in Stages \cup {"ready"}
      BY <2>1, StagesDef, AfterDef
    <3>2. \/ Fails
          \/ \E i \in Items : wk' = [wk EXCEPT !.done = @ \cup {i},
                                  !.kube = @ \/ (wk.pc = "parameters" /\ i \in Kube)]
          \/ Advance
      BY <1>5 DEF Request
    <3> QED
      BY <2>1, <3>1, <3>2, FailsTyped DEF Advance, LateWork
  <2>3. UNCHANGED <<obj, queued, fresh, factory, later>>
    BY <1>5 DEF Request, Advance
  <2> QED
    BY <2>2, <2>3, PhasesDef DEF HasCopy, SameUser
<1>6. CASE FileSystemResizeAllowed
  <2>1. wk \in LateWork /\ wk.copy \in ObjectType
    BY <1>6, PhaseTyped, StagesDef DEF FileSystemResizeAllowed, Barred, LatePCs, LateWork
  <2>2. PICK new \in {wk.copy, [wk.copy EXCEPT !.strategy = "unlock_required"]}, b \in BOOLEAN :
          /\ wk' = [[wk EXCEPT !.pc = "ready", !.ready = TRUE, !.wait = TRUE, !.done = {},
                               !.copy = new] EXCEPT !.wait = b]
          /\ UNCHANGED <<obj, queued, fresh>> \/ Write(new) \/ (WriteFails /\ UNCHANGED queued)
    BY <1>6, <2>1 DEF FileSystemResizeAllowed, LateWork
  <2>3. SameUser(new, wk.copy) /\ new.reconciled = wk.copy.reconciled
    BY <2>1 DEF ObjectType, SameUser
  <2>4. wk'.pc = "ready" /\ wk'.copy = new
    BY <2>1, <2>2 DEF LateWork
  <2>5. factory' = factory /\ later' = later
    BY <1>6 DEF FileSystemResizeAllowed
  <2> QED
    <3>1. HasCopy' /\ wk'.pc # "idle"
      BY <2>4, PhasesDef DEF HasCopy
    <3> QED
      BY <2>2, <2>3, <2>4, <2>5, <3>1, WriteSteps
<1>7. CASE StatusUpdate
  <2> DEFINE new == statusUpdateRequired(wk.copy, wk.ok)
  <2>1. wk \in LateWork /\ wk.copy \in ObjectType
    BY <1>7, PhaseTyped DEF StatusUpdate, LatePCs, LateWork
  <2>2. SameUser(new, wk.copy)
    BY <2>1 DEF ObjectType, SameUser, statusUpdateRequired
  <2> HIDE DEF new
  <2>3. wk'.pc = "idle" /\ fresh' = fresh /\ wk.pc = "status" /\ UNCHANGED <<factory, later>>
    BY <1>7 DEF StatusUpdate, Retry, NoWork, WriteFails
  <2>4. obj' = obj \/ (fresh /\ obj' = new)
    BY <1>7 DEF StatusUpdate, WriteFails, new
  <2>5. queued => queued'
    BY <1>7, RetryTyped DEF StatusUpdate
  <2> QED
    BY <2>2, <2>3, <2>4, <2>5
<1>8. ~(FetchInstance \/ UpdateStatusForFactoryInstall \/ SetFactoryReconciledUpdated
        \/ cleanDeprecatedCerts \/ UpdateAnnotation \/ UpdateConfigStatus)
  BY PhasesDef DEF HasCopy, FetchInstance, UpdateStatusForFactoryInstall,
     SetFactoryReconciledUpdated, cleanDeprecatedCerts, UpdateAnnotation, UpdateConfigStatus
<1> QED
  BY <1>1, <1>2, <1>3, <1>4, <1>5, <1>6, <1>7, <1>8 DEF Reconcile

\* What Observe makes of an object in day 2.
LEMMA ObserveDayTwo ==
  ASSUME NEW o \in ObjectType, o.scope = "principal", o.reconciled => o.observed # 0
  PROVE  /\ o.observed = o.gen => Observe(o) = o
         /\ o.observed # o.gen =>
              /\ Observe(o).reconciled = FALSE /\ Observe(o).strategy = "not_required"
              /\ Observe(o).updated = TRUE
         /\ Observe(o).observed = o.gen /\ Observe(o).gen = o.gen /\ Observe(o).asked = o.asked
<1>1. CASE o.observed = o.gen
  BY <1>1 DEF Observe
<1>2. CASE o.observed # o.gen
  <2> DEFINE new == [o EXCEPT !.observed = o.gen, !.strategy = "not_required"]
             c == o.reconciled /\ o.scope # "principal"
  <2>1. c = FALSE
    OBVIOUS
  <2> HIDE DEF c
  <2>2. new \in ObjectType /\ new.observed = o.gen /\ new.strategy = "not_required"
        /\ new.gen = o.gen /\ new.asked = o.asked
    BY DEF ObjectType
  <2>3. Observe(o) = [new EXCEPT !.updated = TRUE, !.reconciled = c]
    BY <1>2 DEF Observe, c
  <2> HIDE DEF new
  <2> QED
    BY <1>2, <2>1, <2>2, <2>3 DEF ObjectType
<1> QED
  BY <1>1, <1>2

\* What only Reconcile writes of the status.
SameStatus(o, p) ==
  o.observed = p.observed /\ o.reconciled = p.reconciled /\ o.strategy = p.strategy
  /\ o.defaults = p.defaults

\* A step of the first part of Reconcile; UpdateConfigStatus takes the copy.
LEMMA EarlySteps ==
  ASSUME TypeInv, DayTwoInv, ~HasCopy, Reconcile
  PROVE  /\ ~factory'.on /\ later' = later /\ sys' = sys
         /\ wk'.pc = "idle" => queued'
         /\ \/ /\ wk'.pc \in EarlyPCs /\ mgr' = mgr /\ SameStatus(obj', obj)
               /\ obj'.asked = "principal" /\ (wk'.pc # "idle" => obj'.scope = "principal")
               /\ \/ obj'.gen = obj.gen /\ obj'.spec = obj.spec
                  \/ obj'.gen = obj.gen + 1
            \/ /\ UpdateConfigStatus /\ wk'.pc = "idle" /\ obj' = obj
            \/ /\ UpdateConfigStatus /\ wk' = [pc |-> "populate", copy |-> Observe(obj)]
               /\ obj' = Observe(obj)
<1>0. obj \in ObjectType /\ ~factory.on /\ obj.asked = "principal" /\ factory \in FactoryType
  BY DEF TypeInv, DayTwoInv
<1>1. CASE FetchInstance
  <2> DEFINE new == [obj EXCEPT !.scope = obj.asked]
  <2>1. SameStatus(new, obj) /\ new.asked = "principal" /\ new.scope = "principal"
        /\ new.gen = obj.gen /\ new.spec = obj.spec
    BY <1>0 DEF ObjectType, SameStatus
  <2> HIDE DEF new
  <2>2. UNCHANGED <<factory, later, sys, mgr>>
    BY <1>1 DEF FetchInstance
  <2>3. (obj' = new /\ wk' = [pc |-> "factory"]) \/ (Retry /\ obj' = obj)
    BY <1>1 DEF FetchInstance, new
  <2>4. CASE obj' = new /\ wk' = [pc |-> "factory"]
    <3>1. wk'.pc = "factory"
      BY <2>4
    <3> QED
      BY <1>0, <2>1, <2>2, <2>4, <3>1, PhasesDef
  <2>5. CASE Retry /\ obj' = obj
    BY <1>0, <2>2, <2>5, RetryTyped, PhasesDef DEF SameStatus
  <2> QED
    BY <2>3, <2>4, <2>5
<1>2. CASE UpdateStatusForFactoryInstall
  <2>1. UNCHANGED <<factory, later, sys, mgr, obj>> /\ Goto("clean") /\ wk.pc = "factory"
    BY <1>0, <1>2 DEF UpdateStatusForFactoryInstall
  <2>2. wk'.pc = "clean" /\ obj.scope = "principal"
    BY <2>1, GotoTyped, PhaseTyped, PhasesDef DEF DayTwoInv
  <2> QED
    BY <1>0, <2>1, <2>2, PhasesDef DEF SameStatus
<1>3. CASE SetFactoryReconciledUpdated
  <2>1. UNCHANGED <<later, sys, mgr, obj>> /\ wk.pc = "factoryFlag" /\ factory'.on = factory.on
    BY <1>0, <1>3 DEF SetFactoryReconciledUpdated, FactoryType
  <2>2. wk'.pc = "clean" \/ (wk'.pc = "idle" /\ queued')
    BY <1>3, GotoTyped, PhaseTyped, PhasesDef, RetryTyped DEF SetFactoryReconciledUpdated
  <2>3. obj.scope = "principal"
    BY <2>1 DEF DayTwoInv
  <2> QED
    BY <1>0, <2>1, <2>2, <2>3, PhasesDef DEF SameStatus
<1>4. CASE cleanDeprecatedCerts
  <2> DEFINE new == [obj EXCEPT !.spec.deprecated = {}, !.gen = @ + 1]
  <2>1. SameStatus(new, obj) /\ new.asked = "principal" /\ new.scope = obj.scope
        /\ new.gen = obj.gen + 1
    BY <1>0 DEF ObjectType, SameStatus
  <2> HIDE DEF new
  <2>2. UNCHANGED <<factory, later, sys, mgr>> /\ wk.pc = "clean"
    BY <1>4 DEF cleanDeprecatedCerts
  <2>3. obj' = new \/ obj' = obj
    BY <1>4 DEF cleanDeprecatedCerts, new, Write, WriteFails
  <2>4. wk'.pc = "annotation" \/ (wk'.pc = "idle" /\ queued')
    BY <1>4, GotoTyped, PhaseTyped, PhasesDef, RetryTyped DEF cleanDeprecatedCerts
  <2>5. obj.scope = "principal"
    BY <2>2 DEF DayTwoInv
  <2>6. SameStatus(obj', obj) /\ obj'.asked = "principal" /\ obj'.scope = "principal"
    BY <1>0, <2>1, <2>3, <2>5 DEF SameStatus
  <2> QED
    BY <1>0, <2>1, <2>2, <2>3, <2>4, <2>6, PhasesDef
<1>5. CASE UpdateAnnotation
  <2> DEFINE new == [obj EXCEPT !.after = AfterInSync(obj)]
  <2>1. SameStatus(new, obj) /\ new.asked = "principal" /\ new.scope = obj.scope
        /\ new.gen = obj.gen /\ new.spec = obj.spec
    BY <1>0 DEF ObjectType, SameStatus
  <2> HIDE DEF new
  <2>2. UNCHANGED <<factory, later, sys, mgr>> /\ wk.pc = "annotation"
    BY <1>5 DEF UpdateAnnotation
  <2>3. obj' = new \/ obj' = obj
    BY <1>5 DEF UpdateAnnotation, new, ReadAndWrite
  <2>4. wk'.pc = "config" \/ (wk'.pc = "idle" /\ queued')
    BY <1>5, GotoTyped, PhaseTyped, PhasesDef, RetryTyped DEF UpdateAnnotation
  <2>5. obj.scope = "principal"
    BY <2>2 DEF DayTwoInv
  <2>6. SameStatus(obj', obj) /\ obj'.asked = "principal" /\ obj'.scope = "principal"
        /\ obj'.gen = obj.gen /\ obj'.spec = obj.spec
    BY <1>0, <2>1, <2>3, <2>5 DEF SameStatus
  <2> QED
    BY <1>0, <2>2, <2>4, <2>6, PhasesDef
<1>6. CASE UpdateConfigStatus
  <2>1. UNCHANGED <<factory, later, sys>>
    BY <1>6 DEF UpdateConfigStatus
  <2>2. \/ obj' = Observe(obj) /\ wk' = [pc |-> "populate", copy |-> Observe(obj)]
        \/ obj' = obj /\ Retry
    BY <1>6 DEF UpdateConfigStatus, ReadAndWrite
  <2>3. CASE obj' = Observe(obj) /\ wk' = [pc |-> "populate", copy |-> Observe(obj)]
    <3>1. wk'.pc = "populate"
      BY <2>3
    <3> QED
      BY <1>0, <1>6, <2>1, <2>3, <3>1
  <2>4. CASE obj' = obj /\ Retry
    BY <1>0, <1>6, <2>1, <2>4, RetryTyped
  <2> QED
    BY <2>2, <2>3, <2>4
<1>7. ~(\/ PopulateSystemInfo \/ BuildSystemDefaults \/ SetFactoryDefaultUpdated \/ Merge
        \/ Compare \/ Request \/ Advance \/ FileSystemResizeAllowed \/ SystemReady \/ StatusUpdate)
  BY PhasesDef, StagesDef DEF HasCopy, PopulateSystemInfo, BuildSystemDefaults,
     SetFactoryDefaultUpdated, Merge, Compare, Request, Advance, FileSystemResizeAllowed, Barred,
     SystemReady, StatusUpdate
<1> QED
  BY <1>1, <1>2, <1>3, <1>4, <1>5, <1>6, <1>7 DEF Reconcile

\* A step of a monitor, the system or the user, or a restart.
LEMMA OtherSteps ==
  ASSUME TypeInv, DayTwoInv, MonitorFires \/ ResizeEnds \/ Happens \/ UNCHANGED vars
  PROVE  /\ ~factory'.on /\ later' \in Seq(DayTwoActs) /\ sys'.set = sys.set
         /\ obj'.asked = "principal" /\ obj'.scope = obj.scope /\ SameStatus(obj', obj)
         /\ \/ obj'.gen = obj.gen /\ obj'.spec = obj.spec
            \/ obj'.gen = obj.gen + 1 /\ queued' /\ ~fresh'
         /\ \/ wk' = wk /\ mgr' = mgr /\ (mon' = mon \/ queued')
            \/ wk' = NoWork /\ queued' /\ mgr'.report = NoReport
         /\ (queued => queued') /\ (fresh' => fresh)
<1>0. obj \in ObjectType /\ ~factory.on /\ obj.asked = "principal" /\ factory \in FactoryType
      /\ later \in Seq(DayTwoActs) /\ sys \in SystemType
  BY DEF TypeInv, DayTwoInv
<1>1. CASE MonitorFires
  BY <1>0, <1>1 DEF MonitorFires, SameStatus
<1>2. CASE ResizeEnds
  BY <1>0, <1>2 DEF ResizeEnds, SameStatus, SystemType
<1>3. CASE UNCHANGED vars
  BY <1>0, <1>3 DEF vars, SameStatus
<1>4. CASE Happens
  <2> DEFINE e == Head(later)
  <2>1. later # <<>> /\ later' = Tail(later) /\ sys' = sys
    BY <1>4 DEF Happens
  <2>2. e \in DayTwoActs /\ later' \in Seq(DayTwoActs)
    BY <1>0, <2>1
  <2> HIDE DEF e
  <2>3. CASE /\ e.kind = "spec" /\ UserWrites([obj EXCEPT !.spec = e.value, !.gen = @ + 1])
             /\ UNCHANGED <<env, mgr, factory, mon, wk>>
    <3>1. obj'.asked = "principal" /\ obj'.scope = obj.scope /\ SameStatus(obj', obj)
          /\ obj'.gen = obj.gen + 1
      BY <1>0, <2>3 DEF UserWrites, ObjectType, SameStatus
    <3> QED
      BY <1>0, <2>1, <2>2, <2>3, <3>1 DEF UserWrites
  <2>4. CASE /\ e.kind = "scope" /\ UserWrites([obj EXCEPT !.asked = e.value])
             /\ UNCHANGED <<env, mgr, factory, mon, wk>>
    <3>1. e.value = "principal"
      BY <2>2, <2>4 DEF DayTwoActs
    <3>2. obj'.asked = "principal" /\ obj'.scope = obj.scope /\ SameStatus(obj', obj)
          /\ obj'.gen = obj.gen /\ obj'.spec = obj.spec
      BY <1>0, <2>4, <3>1 DEF UserWrites, ObjectType, SameStatus
    <3> QED
      BY <1>0, <2>1, <2>2, <2>4, <3>2 DEF UserWrites
  <2>5. CASE UNCHANGED <<obj, queued, fresh, mgr, mon, wk>> /\ factory'.on \in {FALSE, factory.on}
    BY <1>0, <2>1, <2>2, <2>5 DEF SameStatus
  <2>6. CASE /\ wk' = NoWork /\ queued' = TRUE /\ fresh' = FALSE
             /\ mgr' = [ready |-> FALSE, notified |-> FALSE, report |-> NoReport]
             /\ UNCHANGED <<obj, factory>>
    BY <1>0, <2>1, <2>2, <2>6 DEF SameStatus
  <2>7. CASE /\ e.kind = "annotate" /\ UserWrites([obj EXCEPT !.after = e.value])
             /\ UNCHANGED <<env, mgr, factory, mon, wk>>
    <3>1. obj'.asked = "principal" /\ obj'.scope = obj.scope /\ SameStatus(obj', obj)
          /\ obj'.gen = obj.gen /\ obj'.spec = obj.spec
      BY <1>0, <2>7 DEF UserWrites, ObjectType, SameStatus
    <3> QED
      BY <1>0, <2>1, <2>2, <2>7, <3>1 DEF UserWrites
  <2> QED
    BY <1>0, <1>4, <2>3, <2>4, <2>5, <2>6, <2>7 DEF Happens, e, FactoryType
<1> QED
  BY <1>1, <1>2, <1>3, <1>4

-----------------------------------------------------------------------------

LEMMA StepDayTwo == TypeInv /\ DayTwoInv /\ CopyInv /\ [Next]_vars => DayTwoInv'
<1> SUFFICES ASSUME TypeInv, DayTwoInv, CopyInv, [Next]_vars PROVE DayTwoInv'
  OBVIOUS
<1>0. obj \in ObjectType /\ obj.gen \in Nat /\ obj.observed \in Nat
  BY DEF TypeInv, ObjectType
<1>1. CASE ~HasCopy /\ Reconcile
  <2>1. CASE /\ wk'.pc \in EarlyPCs /\ mgr' = mgr /\ SameStatus(obj', obj)
             /\ obj'.asked = "principal" /\ (wk'.pc # "idle" => obj'.scope = "principal")
             /\ \/ obj'.gen = obj.gen /\ obj'.spec = obj.spec
                \/ obj'.gen = obj.gen + 1
    BY <1>0, <1>1, <2>1, EarlySteps DEF DayTwoInv, SameStatus, Observed
  <2>2. CASE wk'.pc = "idle" /\ obj' = obj
    BY <1>0, <1>1, <2>2, EarlySteps DEF DayTwoInv, Observed
  <2>3. CASE UpdateConfigStatus /\ obj' = Observe(obj)
    <3>1. obj.scope = "principal" /\ obj'.scope = "principal"
      BY <1>0, <2>3, ObserveTyped DEF UpdateConfigStatus, DayTwoInv
    <3>2. obj'.observed = obj.gen /\ obj'.gen = obj.gen /\ obj'.asked = "principal"
      BY <1>0, <2>3, <3>1, ObserveDayTwo DEF DayTwoInv
    <3> QED
      BY <1>0, <1>1, <3>1, <3>2, EarlySteps DEF DayTwoInv, Observed
  <2> QED
    BY <1>1, <2>1, <2>2, <2>3, EarlySteps
<1>2. CASE HasCopy /\ Reconcile
  <2>1. wk.pc # "idle" /\ obj.scope = "principal"
    BY <1>2, PhasesDef DEF HasCopy, DayTwoInv
  <2>2. ~factory'.on /\ later' \in Seq(DayTwoActs)
    BY <1>2, LateSteps DEF DayTwoInv
  <2>3. obj'.asked = "principal" /\ obj'.scope = "principal" /\ obj'.gen = obj.gen
        /\ obj'.observed = obj.observed
    BY <1>2, <2>1, LateSteps DEF CopyInv, DayTwoInv, SameUser, Observed
  <2>4. obj.observed # 0
    BY <1>2 DEF CopyInv, DayTwoInv
  <2>5. wk'.pc = "idle" /\ ~queued' => Observed
    BY <1>2, LateSteps DEF CopyInv
  <2> QED
    BY <1>0, <2>2, <2>3, <2>4, <2>5 DEF DayTwoInv, Observed
<1>3. CASE MonitorFires \/ ResizeEnds \/ Happens \/ UNCHANGED vars
  BY <1>0, <1>3, OtherSteps DEF DayTwoInv, SameStatus, Observed, NoWork
<1> QED
  BY <1>1, <1>2, <1>3 DEF Next

LEMMA StepCopy == TypeInv /\ DayTwoInv /\ CopyInv /\ [Next]_vars => CopyInv'
<1> SUFFICES ASSUME TypeInv, DayTwoInv, CopyInv, [Next]_vars PROVE CopyInv'
  OBVIOUS
<1>0. obj \in ObjectType /\ obj.gen \in Nat /\ obj.observed \in Nat
  BY DEF TypeInv, ObjectType
<1>1. CASE ~HasCopy /\ Reconcile
  <2>1. CASE wk'.pc \in EarlyPCs
    BY <2>1 DEF CopyInv, HasCopy
  <2>2. CASE /\ UpdateConfigStatus /\ wk' = [pc |-> "populate", copy |-> Observe(obj)]
             /\ obj' = Observe(obj)
    <3>1. obj.scope = "principal" /\ obj'.scope = "principal"
      BY <1>0, <2>2, ObserveTyped DEF UpdateConfigStatus, DayTwoInv
    <3>2. obj'.observed = obj.gen /\ obj'.gen = obj.gen /\ obj'.asked = "principal"
      BY <1>0, <2>2, <3>1, ObserveDayTwo DEF DayTwoInv
    <3>3. wk'.copy = obj'
      BY <2>2
    <3> QED
      BY <1>0, <3>1, <3>2, <3>3 DEF CopyInv, Observed, DayTwoInv
  <2> QED
    BY <1>1, <2>1, <2>2, EarlySteps, PhasesDef
<1>2. CASE HasCopy /\ Reconcile
  <2>1. CASE wk'.pc = "idle"
    BY <2>1, PhasesDef DEF CopyInv, HasCopy
  <2>2. CASE wk'.pc # "idle"
    <3>1. HasCopy' /\ SameUser(wk'.copy, wk.copy) /\ wk'.copy.reconciled = wk.copy.reconciled
          /\ fresh' = fresh /\ (queued => queued')
      BY <1>2, <2>2, LateSteps
    <3>2. wk.pc # "status"
      <4> SUFFICES ASSUME wk.pc = "status" PROVE FALSE
        OBVIOUS
      <4>1. StatusUpdate
        BY <1>2, StagesDef DEF Reconcile, FetchInstance, UpdateStatusForFactoryInstall,
           SetFactoryReconciledUpdated, cleanDeprecatedCerts, UpdateAnnotation,
           UpdateConfigStatus, PopulateSystemInfo, BuildSystemDefaults,
           SetFactoryDefaultUpdated, Merge, Compare, Request, Advance,
           FileSystemResizeAllowed, Barred, SystemReady
      <4>2. wk' = NoWork
        BY <4>1 DEF StatusUpdate, Retry
      <4> QED
        BY <2>2, <4>2 DEF NoWork
    <3>3. CASE obj' = obj
      BY <1>2, <3>1, <3>3 DEF CopyInv, SameUser, Observed
    <3>4. CASE obj' # obj
      <4>1. fresh /\ SameUser(obj', wk.copy) /\ obj'.reconciled = wk.copy.reconciled
        BY <1>2, <3>2, <3>4, LateSteps
      <4> QED
        BY <1>2, <3>1, <4>1 DEF CopyInv, SameUser, Observed
    <3> QED
      BY <3>3, <3>4
  <2> QED
    BY <2>1, <2>2
<1>3. CASE MonitorFires \/ ResizeEnds \/ Happens \/ UNCHANGED vars
  <2>1. CASE wk' = NoWork
    BY <2>1, PhasesDef DEF CopyInv, HasCopy, NoWork
  <2>2. CASE wk' = wk
    <3>1. CASE obj'.gen = obj.gen /\ obj'.spec = obj.spec
      BY <1>0, <1>3, <2>2, <3>1, OtherSteps DEF CopyInv, HasCopy, SameStatus, Observed
    <3>2. CASE obj'.gen = obj.gen + 1 /\ queued' /\ ~fresh'
      BY <1>0, <1>3, <2>2, <3>2, OtherSteps DEF CopyInv, HasCopy, SameStatus, Observed, DayTwoInv
    <3> QED
      BY <1>3, <3>1, <3>2, OtherSteps
  <2> QED
    BY <1>3, <2>1, <2>2, OtherSteps
<1> QED
  BY <1>1, <1>2, <1>3 DEF Next

-----------------------------------------------------------------------------
(* What each step of the last part does.                                   *)

\* The defaults, the specification and what the status says of the copy.
SameWants(o, p) == o.defaults = p.defaults /\ o.spec = p.spec /\ o.reconciled = p.reconciled

LEMMA CompareSteps ==
  ASSUME TypeInv, Compare
  PROVE  /\ SameWants(wk'.copy, wk.copy) /\ wk'.copy.strategy = wk.copy.strategy
         /\ wk'.spec = wk.spec /\ wk'.wait = wk.wait
         /\ wk'.pc = IF ReconcileRequired(wk.copy) THEN "attributes" ELSE "ready"
         /\ wk'.ok = ~ReconcileRequired(wk.copy)
         /\ obj' = obj \/ (fresh /\ obj' = wk'.copy)
         /\ UNCHANGED <<sys, mgr, mon>>
<1> DEFINE o == wk.copy
           diff == Differences(wk.spec, wk.info.set)
           new == IF o.reconciled THEN [o EXCEPT !.inSync = (diff = {}), !.delta = diff] ELSE o
<1>1. wk \in LateWork /\ o \in ObjectType
  BY PhaseTyped DEF Compare, LatePCs, LateWork
<1> HIDE DEF diff
<1>2. SameWants(new, o) /\ new.strategy = o.strategy
  BY <1>1 DEF ObjectType, SameWants
<1> HIDE DEF new
<1>3. wk' = [wk EXCEPT !.pc = IF ReconcileRequired(o) THEN "attributes" ELSE "ready",
                       !.ready = o.reconciled, !.ok = ~ReconcileRequired(o), !.copy = new]
  BY DEF Compare, new, diff
<1>4. UNCHANGED <<obj, queued, fresh>> \/ Write(new) \/ (WriteFails /\ UNCHANGED queued)
  BY DEF Compare, new, diff
<1>5. /\ wk'.copy = new /\ wk'.spec = wk.spec /\ wk'.wait = wk.wait
      /\ wk'.pc = IF ReconcileRequired(wk.copy) THEN "attributes" ELSE "ready"
      /\ wk'.ok = ~ReconcileRequired(wk.copy)
  BY <1>1, <1>3 DEF LateWork
<1>6. UNCHANGED <<sys, mgr, mon>>
  BY DEF Compare
<1> QED
  BY <1>2, <1>4, <1>5, <1>6, WriteSteps

LEMMA RequestSteps ==
  ASSUME TypeInv, Request
  PROVE  /\ wk.pc \in Stages /\ wk'.copy = wk.copy /\ wk'.spec = wk.spec /\ wk'.wait = wk.wait
         /\ UNCHANGED <<obj, queued, mgr, mon>>
         /\ \E i \in Items :
              \/ /\ sys' = Apply(i) /\ wk'.pc = wk.pc /\ wk'.done = wk.done \cup {i}
                 /\ wk'.info = wk.info /\ wk'.ok = wk.ok
              \/ (sys' = sys \/ sys' = Apply(i)) /\ wk'.pc = "ready" /\ ~wk'.ok
<1>1. wk \in LateWork /\ wk.pc \in Stages
  BY PhaseTyped DEF Request, LatePCs
<1>2. UNCHANGED <<obj, queued, mgr, mon>>
  BY DEF Request
<1>3. PICK i \in Items \ wk.done :
       \/ /\ NoFault /\ Accepted(i) /\ sys' = Apply(i)
          /\ wk' = [wk EXCEPT !.done = @ \cup {i},
                              !.kube = @ \/ (wk.pc = "parameters" /\ i \in Kube)]
       \/ NoFault /\ ~Accepted(i) /\ UNCHANGED sys /\ Fails
       \/ Fault /\ Fails /\ (UNCHANGED sys \/ (Accepted(i) /\ sys' = Apply(i)))
  BY DEF Request
<1>4. CASE Fails
  <2>1. wk'.wait = wk.wait
    BY <1>1, <1>4 DEF Fails, LateWork
  <2> QED
    BY <1>1, <1>2, <1>3, <1>4, <2>1, FailsTyped
<1>5. CASE /\ sys' = Apply(i)
           /\ wk' = [wk EXCEPT !.done = @ \cup {i},
                               !.kube = @ \/ (wk.pc = "parameters" /\ i \in Kube)]
  <2>1. wk'.done = wk.done \cup {i} /\ wk'.pc = wk.pc /\ wk'.info = wk.info /\ wk'.ok = wk.ok
        /\ wk'.copy = wk.copy /\ wk'.spec = wk.spec /\ wk'.wait = wk.wait
    BY <1>1, <1>5 DEF LateWork
  <2> QED
    BY <1>1, <1>2, <1>5, <2>1
<1> QED
  BY <1>3, <1>4, <1>5

LEMMA AdvanceSteps ==
  ASSUME TypeInv, Advance
  PROVE  /\ wk.pc \in Stages /\ wk'.copy = wk.copy /\ wk'.spec = wk.spec /\ wk'.wait = wk.wait
         /\ UNCHANGED <<obj, queued, sys, mgr, mon>>
         /\ \/ /\ Items \subseteq wk.done /\ wk'.pc = After(wk.pc) /\ wk'.done = {}
               /\ wk'.info.set = sys.set /\ wk'.ok = (After(wk.pc) = "ready")
            \/ wk'.pc = "ready" /\ ~wk'.ok
<1>1. wk \in LateWork /\ wk.pc \in Stages
  BY PhaseTyped DEF Advance, LatePCs
<1>2. UNCHANGED <<obj, queued, sys, mgr, mon>>
  BY DEF Advance
<1>3. CASE Fails
  <2>1. wk'.wait = wk.wait
    BY <1>1, <1>3 DEF Fails, LateWork
  <2> QED
    BY <1>1, <1>2, <1>3, <2>1, FailsTyped
<1>4. CASE wk' = [wk EXCEPT !.pc = After(wk.pc), !.done = {}, !.info.set = sys.set,
                            !.nodes = IF wk.pc = "hosts" THEN env.nodes ELSE @,
                            !.ready = After(wk.pc) = "ready", !.ok = After(wk.pc) = "ready"]
  <2>1. wk'.pc = After(wk.pc) /\ wk'.done = {} /\ wk'.info = [wk.info EXCEPT !.set = sys.set]
        /\ wk'.ok = (After(wk.pc) = "ready")
        /\ wk'.copy = wk.copy /\ wk'.spec = wk.spec /\ wk'.wait = wk.wait
    BY <1>1, <1>4 DEF LateWork
  <2>2. wk'.info.set = sys.set
    BY <1>1, <2>1 DEF LateWork, SystemType
  <2>3. Items \subseteq wk.done
    BY DEF Advance
  <2> QED
    BY <1>1, <1>2, <2>1, <2>2, <2>3
<1> QED
  BY <1>3, <1>4 DEF Advance

\* FileSystemResizeAllowed in day 2: it waits for the resize that is going on, or it
\* asks for an unlock; the manager is told although the status may not be saved.
LEMMA ResizeSteps ==
  ASSUME TypeInv, FileSystemResizeAllowed, wk.copy.scope = "principal"
  PROVE  /\ wk.pc = "fileSystems" /\ Growing # {} /\ wk'.pc = "ready"
         /\ SameWants(wk'.copy, wk.copy) /\ wk'.spec = wk.spec /\ wk'.ok = wk.ok
         /\ sys' = sys
         /\ \/ /\ UNCHANGED <<obj, queued, mgr>> /\ wk'.copy = wk.copy /\ wk'.wait
               /\ mon' = "resize"
            \/ /\ wk'.copy.strategy = "unlock_required" /\ mgr'.report = Report(wk'.copy)
               /\ \/ obj' = wk'.copy /\ fresh /\ wk'.wait
                  \/ obj' = obj /\ ~wk'.wait
<1> DEFINE strategic == ~ControllerNodesAvailable(wk.nodes) /\ wk.copy.scope = "principal"
           new == IF strategic THEN [wk.copy EXCEPT !.strategy = "unlock_required"] ELSE wk.copy
           waits == [wk EXCEPT !.pc = "ready", !.ready = TRUE, !.wait = TRUE, !.done = {},
                               !.copy = new]
<1>1. wk.pc = "fileSystems" /\ Growing # {} /\ wk \in LateWork /\ wk.copy \in ObjectType
  BY PhaseTyped, StagesDef DEF FileSystemResizeAllowed, Barred, LatePCs, LateWork
<1>2. SameWants(new, wk.copy) /\ (strategic => new.strategy = "unlock_required")
  BY <1>1 DEF ObjectType, SameWants
<1>3. ~strategic => new = wk.copy /\ ControllerNodesAvailable(wk.nodes)
  OBVIOUS
<1> HIDE DEF new
<1>4. /\ sys' = sys
      /\ mgr' = IF strategic THEN [mgr EXCEPT !.report = Report(new)] ELSE mgr
      /\ \/ /\ IF strategic THEN Write(new) ELSE NoFault /\ UNCHANGED <<obj, queued, fresh>>
            /\ mon' = IF ControllerNodesAvailable(wk.nodes) THEN "resize" ELSE "controllers"
            /\ wk' = waits
         \/ strategic /\ WriteFails /\ wk' = [waits EXCEPT !.wait = FALSE]
  BY DEF FileSystemResizeAllowed, new
<1>5. /\ waits.pc = "ready" /\ waits.copy = new /\ waits.spec = wk.spec /\ waits.ok = wk.ok
      /\ waits.wait = TRUE
      /\ LET w == [waits EXCEPT !.wait = FALSE] IN
           w.pc = "ready" /\ w.copy = new /\ w.spec = wk.spec /\ w.ok = wk.ok /\ w.wait = FALSE
  BY <1>1 DEF LateWork
<1>6. [mgr EXCEPT !.report = Report(new)].report = Report(new)
  BY DEF TypeInv
<1> HIDE DEF waits, strategic
<1>7. CASE ~strategic
  BY <1>1, <1>2, <1>3, <1>4, <1>5, <1>7
<1>8. CASE strategic /\ Write(new) /\ wk' = waits
  <2>1. obj' = new /\ fresh
    BY <1>8 DEF Write
  <2> QED
    BY <1>1, <1>2, <1>4, <1>5, <1>6, <1>8, <2>1
<1>9. CASE strategic /\ WriteFails /\ wk' = [waits EXCEPT !.wait = FALSE]
  <2>1. obj' = obj
    BY <1>9 DEF WriteFails
  <2> QED
    BY <1>1, <1>2, <1>4, <1>5, <1>6, <1>9, <2>1
<1> QED
  BY <1>4, <1>7, <1>8, <1>9

\* StatusUpdate in day 2: the manager is told of an object that is newly reconciled.
LEMMA StatusSteps ==
  ASSUME TypeInv, StatusUpdate, wk.copy.scope = "principal"
  PROVE  /\ wk.pc = "status" /\ wk'.pc = "idle" /\ UNCHANGED <<sys, mon>>
         /\ IF wk.ok /\ ~wk.copy.reconciled
            THEN /\ mgr'.report = AllDone
                 /\ \/ /\ fresh /\ Report(obj') = AllDone
                       /\ obj'.defaults = wk.copy.defaults /\ obj'.spec = wk.copy.spec
                       /\ obj'.gen = wk.copy.gen /\ obj'.observed = wk.copy.observed
                    \/ obj' = obj /\ queued'
            ELSE /\ mgr' = mgr
                 /\ \/ obj' = obj
                    \/ /\ fresh /\ SameWants(obj', wk.copy) /\ obj'.strategy = wk.copy.strategy
                       /\ obj'.gen = wk.copy.gen /\ obj'.observed = wk.copy.observed
                 /\ ~wk.ok /\ ~wk.wait => queued'
<1> DEFINE new == statusUpdateRequired(wk.copy, wk.ok)
           told == new.reconciled # wk.copy.reconciled /\ new.scope = "principal"
<1>1. wk \in LateWork /\ wk.copy \in ObjectType /\ wk.ok \in BOOLEAN /\ mgr \in MgrType
  BY PhaseTyped DEF StatusUpdate, LatePCs, LateWork, TypeInv, MgrType
<1>2. wk.pc = "status" /\ wk'.pc = "idle" /\ UNCHANGED <<sys, mon>>
  BY DEF StatusUpdate, Retry, NoWork
<1>3. CASE wk.ok /\ ~wk.copy.reconciled
  <2>1. new = [wk.copy EXCEPT !.inSync = TRUE, !.reconciled = TRUE, !.updated = FALSE,
                              !.strategy = "not_required"]
    BY <1>3 DEF statusUpdateRequired
  <2>2. /\ new.reconciled = TRUE /\ new.strategy = "not_required" /\ new.scope = "principal"
        /\ new.defaults = wk.copy.defaults /\ new.spec = wk.copy.spec
        /\ new.gen = wk.copy.gen /\ new.observed = wk.copy.observed
    BY <1>1, <2>1 DEF ObjectType
  <2>3. told /\ new # wk.copy /\ Report(new) = AllDone
    BY <1>3, <2>2 DEF Report, AllDone
  <2>4. /\ mgr' = [mgr EXCEPT !.report = Report(new)]
        /\ (fresh /\ obj' = new) \/ (WriteFails /\ Retry)
    BY <2>3 DEF StatusUpdate
  <2> HIDE DEF new
  <2>5. mgr'.report = AllDone
    BY <1>1, <2>3, <2>4 DEF MgrType
  <2>6. (fresh /\ obj' = new) \/ (obj' = obj /\ queued')
    BY <2>4 DEF WriteFails, Retry
  <2> QED
    BY <1>2, <1>3, <2>2, <2>3, <2>5, <2>6
<1>4. CASE ~(wk.ok /\ ~wk.copy.reconciled)
  <2>1. new = [wk.copy EXCEPT !.inSync = wk.ok]
    BY <1>4 DEF statusUpdateRequired
  <2>2. /\ SameWants(new, wk.copy) /\ new.strategy = wk.copy.strategy
        /\ new.gen = wk.copy.gen /\ new.observed = wk.copy.observed /\ ~told
    BY <1>1, <2>1 DEF ObjectType, SameWants
  <2>3. /\ mgr' = mgr
        /\ \/ /\ new # wk.copy => fresh
              /\ obj' = IF new # wk.copy THEN new ELSE obj
              /\ queued' = (queued \/ obj' # obj \/ (~wk.ok /\ ~wk.wait))
           \/ WriteFails /\ Retry
    BY <2>2 DEF StatusUpdate
  <2> HIDE DEF new
  <2>4. obj' = obj \/ (fresh /\ obj' = new)
    BY <2>3 DEF WriteFails
  <2>5. ~wk.ok /\ ~wk.wait => queued'
    BY <2>3 DEF Retry
  <2> QED
    BY <1>2, <1>4, <2>2, <2>3, <2>4, <2>5
<1> QED
  BY <1>3, <1>4

\* The steps before the comparison.
LEMMA BeginSteps ==
  ASSUME TypeInv, PopulateSystemInfo \/ BuildSystemDefaults \/ SetFactoryDefaultUpdated \/ Merge
  PROVE  /\ UNCHANGED <<sys, mgr, mon>>
         /\ \/ wk'.pc = "idle" /\ queued' /\ obj' = obj
            \/ /\ wk'.pc \in {"defaults", "defaultFlag", "merge", "compare"}
               /\ wk'.pc = "defaults" \/ (wk'.ok = wk.ok /\ wk'.wait = wk.wait /\ wk.pc \in LatePCs)
               /\ wk'.pc = "defaults" => ~wk'.ok /\ ~wk'.wait
               /\ wk'.pc = "compare" =>
                    wk'.spec = MergeSystemSpecs(wk'.copy.defaults, wk'.copy.spec)
               /\ wk'.copy.spec = wk.copy.spec /\ wk'.copy.reconciled = wk.copy.reconciled
               /\ wk'.copy.strategy = wk.copy.strategy
               /\ \/ wk'.copy = wk.copy /\ obj' = obj
                  \/ /\ fresh /\ obj' = wk'.copy
                     /\ wk.copy.defaults = NoDefaults \/ factory.on
<1>1. CASE PopulateSystemInfo
  <2>1. CASE Retry
    BY <1>1, <2>1, RetryTyped DEF PopulateSystemInfo
  <2>2. CASE ~Retry
    <3>1. wk'.pc = "defaults" /\ wk'.copy = wk.copy /\ ~wk'.ok /\ ~wk'.wait
      BY <1>1, <2>2 DEF PopulateSystemInfo
    <3> QED
      BY <1>1, <3>1 DEF PopulateSystemInfo
  <2> QED
    BY <2>1, <2>2
<1>2. CASE BuildSystemDefaults
  <2> DEFINE new == [wk.copy EXCEPT !.defaults = wk.info.set]
  <2>1. wk \in LateWork /\ wk.copy \in ObjectType /\ wk.pc \in LatePCs
    BY <1>2, PhaseTyped DEF BuildSystemDefaults, LatePCs, LateWork
  <2>2. new.spec = wk.copy.spec /\ new.reconciled = wk.copy.reconciled
        /\ new.strategy = wk.copy.strategy
    BY <2>1 DEF ObjectType
  <2> HIDE DEF new
  <2>3. UNCHANGED <<sys, mgr, mon>>
    BY <1>2 DEF BuildSystemDefaults
  <2>4. CASE WriteFails /\ Retry
    BY <2>3, <2>4, RetryTyped DEF WriteFails
  <2>5. CASE Goto("merge") /\ UNCHANGED obj
    <3>1. wk'.pc = "merge" /\ wk'.copy = wk.copy /\ wk'.ok = wk.ok /\ wk'.wait = wk.wait
      BY <2>1, <2>5, GotoTyped DEF LatePCs
    <3> QED
      BY <2>1, <2>3, <2>5, <3>1
  <2>6. CASE /\ wk' = [wk EXCEPT !.copy = new, !.pc = IF factory.on THEN "defaultFlag" ELSE "merge"]
             /\ Write(new) /\ (wk.copy.defaults = NoDefaults \/ factory.on)
    <3>1. /\ wk'.pc \in {"defaultFlag", "merge"} /\ wk'.copy = new /\ wk'.ok = wk.ok
          /\ wk'.wait = wk.wait
      BY <2>1, <2>6 DEF LateWork
    <3>2. fresh /\ obj' = new
      BY <2>6 DEF Write
    <3> QED
      BY <2>1, <2>2, <2>3, <2>6, <3>1, <3>2
  <2> QED
    BY <1>2, <2>4, <2>5, <2>6 DEF BuildSystemDefaults, new
<1>3. CASE SetFactoryDefaultUpdated
  <2>1. wk \in LateWork /\ wk.pc \in LatePCs
    BY <1>3, PhaseTyped DEF SetFactoryDefaultUpdated, LatePCs
  <2>2. UNCHANGED <<sys, mgr, mon, obj>>
    BY <1>3 DEF SetFactoryDefaultUpdated
  <2>3. CASE Retry
    BY <2>2, <2>3, RetryTyped
  <2>4. CASE Goto("merge")
    <3>1. wk'.pc = "merge" /\ wk'.copy = wk.copy /\ wk'.ok = wk.ok /\ wk'.wait = wk.wait
      BY <2>1, <2>4, GotoTyped DEF LatePCs
    <3> QED
      BY <2>1, <2>2, <3>1
  <2> QED
    BY <1>3, <2>3, <2>4 DEF SetFactoryDefaultUpdated
<1>4. CASE Merge
  <2> DEFINE s == MergeSystemSpecs(wk.copy.defaults, wk.copy.spec)
  <2>1. wk \in LateWork /\ wk.pc \in LatePCs
    BY <1>4, PhaseTyped DEF Merge, LatePCs
  <2>2. UNCHANGED <<sys, mgr, mon, obj>>
    BY <1>4 DEF Merge
  <2>3. CASE Retry
    BY <2>2, <2>3, RetryTyped
  <2>4. CASE wk' = [wk EXCEPT !.pc = "compare", !.spec = s]
    <3> HIDE DEF s
    <3>1. /\ wk'.pc = "compare" /\ wk'.copy = wk.copy /\ wk'.ok = wk.ok /\ wk'.wait = wk.wait
          /\ wk'.spec = s
      BY <2>1, <2>4 DEF LateWork
    <3> QED
      BY <2>1, <2>2, <3>1 DEF s
  <2> QED
    BY <1>4, <2>3, <2>4 DEF Merge
<1> QED
  BY <1>1, <1>2, <1>3, <1>4

LEMMA ReadySteps ==
  ASSUME TypeInv, SystemReady
  PROVE  /\ wk.pc = "ready" /\ mgr'.report = mgr.report /\ UNCHANGED <<obj, sys, mon>>
         /\ \/ wk'.pc = "idle" /\ queued'
            \/ /\ wk'.pc = "status" /\ wk'.copy = wk.copy /\ wk'.spec = wk.spec
               /\ wk'.ok = wk.ok /\ wk'.wait = wk.wait /\ queued' = queued
<1>1. wk.pc = "ready" /\ UNCHANGED <<obj, sys, mon>> /\ wk \in LateWork
  BY PhaseTyped DEF SystemReady, LatePCs
<1>2. mgr'.report = mgr.report
  BY DEF SystemReady, TypeInv
<1>3. Retry \/ (Goto("status") /\ UNCHANGED queued)
  BY DEF SystemReady
<1>4. Goto("status") => /\ wk'.pc = "status" /\ wk'.copy = wk.copy /\ wk'.spec = wk.spec
                        /\ wk'.ok = wk.ok /\ wk'.wait = wk.wait
  BY <1>1, GotoTyped DEF LatePCs
<1> QED
  BY <1>1, <1>2, <1>3, <1>4, RetryTyped

\* UpdateConfigStatus in day 2.
LEMMA ConfigSteps ==
  ASSUME TypeInv, DayTwoInv, UpdateConfigStatus
  PROVE  /\ obj.scope = "principal" /\ wk.pc = "config"
         /\ Observed => mgr' = mgr
         /\ ~Observed => mgr'.report = [reconciled |-> FALSE, strategy |-> "not_required"]
<1> DEFINE new == Observe(obj)
<1>1. obj \in ObjectType /\ mgr \in MgrType
  BY DEF TypeInv, MgrType
<1>2. wk.pc = "config" /\ obj.scope = "principal"
  BY DEF UpdateConfigStatus, DayTwoInv
<1>3. CASE Observed
  <2>1. new.observed = obj.observed
    BY <1>1, <1>2, <1>3, ObserveDayTwo DEF DayTwoInv, Observed
  <2> QED
    BY <1>2, <1>3, <2>1 DEF UpdateConfigStatus
<1>4. CASE ~Observed
  <2>1. /\ new.observed # obj.observed /\ new.updated = TRUE /\ new.reconciled = FALSE
    BY <1>1, <1>2, <1>4, ObserveDayTwo DEF DayTwoInv, Observed
  <2> HIDE DEF new
  <2>2. mgr' = [mgr EXCEPT !.report = [reconciled |-> new.reconciled,
                                       strategy |-> "not_required"]]
    BY <1>2, <2>1 DEF UpdateConfigStatus, new
  <2> QED
    BY <1>1, <1>2, <1>4, <2>1, <2>2 DEF MgrType
<1> QED
  BY <1>3, <1>4

\* The counters at the end.
LEMMA EndingDef ==
  /\ "ready" \notin EarlyPCs \cup Stages /\ "status" \notin EarlyPCs \cup Stages
  /\ "ready" \in LatePCs /\ "status" \in LatePCs /\ Stages \subseteq LatePCs
  /\ "fileSystems" \in Stages /\ "resize" \in Stages /\ "staleFileSystems" \in Stages
BY StagesDef DEF EarlyPCs, LatePCs

LEMMA LateActions ==
  ASSUME HasCopy, Reconcile
  PROVE  \/ PopulateSystemInfo \/ BuildSystemDefaults \/ SetFactoryDefaultUpdated \/ Merge
         \/ Compare \/ Request \/ Advance \/ FileSystemResizeAllowed \/ SystemReady \/ StatusUpdate
BY PhasesDef DEF Reconcile, HasCopy, FetchInstance, UpdateStatusForFactoryInstall,
   SetFactoryReconciledUpdated, cleanDeprecatedCerts, UpdateAnnotation, UpdateConfigStatus

LEMMA StepWork == TypeInv /\ DayTwoInv /\ CopyInv /\ WorkInv /\ [Next]_vars => WorkInv'
<1> SUFFICES ASSUME TypeInv, DayTwoInv, CopyInv, WorkInv, [Next]_vars PROVE WorkInv'
  OBVIOUS
<1>1. CASE wk'.pc \in EarlyPCs \cup {"populate"}
  <2>1. wk'.pc \notin LatePCs
    BY <1>1, PhasesDef DEF LatePCs, EarlyPCs
  <2>2. wk'.pc \notin Stages \cup {"compare", "ready", "status"}
    BY <1>1, PhasesDef
  <2> QED
    BY <2>1, <2>2 DEF WorkInv, Ending
<1>2. CASE ~HasCopy /\ Reconcile
  <2>1. wk'.pc \in EarlyPCs \cup {"populate"}
    BY <1>2, EarlySteps, PhasesDef
  <2> QED
    BY <1>1, <2>1
<1>3. CASE HasCopy /\ Reconcile
  <2>1. CASE PopulateSystemInfo \/ BuildSystemDefaults \/ SetFactoryDefaultUpdated \/ Merge
    <3>1. CASE wk'.pc = "idle"
      BY <1>1, <3>1, PhasesDef
    <3>2. CASE wk'.pc # "idle"
      <4>1. ~Ending
        BY <2>1 DEF PopulateSystemInfo, BuildSystemDefaults, SetFactoryDefaultUpdated, Merge, Ending
      <4>2. wk'.pc \in {"defaults", "defaultFlag", "merge", "compare"}
        BY <2>1, <3>2, BeginSteps
      <4>3. wk'.pc \notin Stages \cup {"ready", "status"} /\ ~Ending'
        BY <4>2, StagesDef DEF Ending
      <4>4. ~wk'.ok /\ ~wk'.wait
        BY <2>1, <3>2, <4>1, BeginSteps DEF WorkInv
      <4>5. wk'.pc = "compare" => wk'.spec = MergeSystemSpecs(wk'.copy.defaults, wk'.copy.spec)
        BY <2>1, <3>2, BeginSteps
      <4> QED
        BY <4>3, <4>4, <4>5 DEF WorkInv
    <3> QED
      BY <3>1, <3>2
  <2>2. CASE Compare
    <3>1. wk.pc = "compare" /\ wk.pc \in LatePCs /\ ~Ending
      BY <2>2 DEF Compare, LatePCs, Ending
    <3>2. wk'.pc = IF ReconcileRequired(wk.copy) THEN "attributes" ELSE "ready"
      BY <2>2, CompareSteps
    <3>3. ~wk'.wait /\ (ReconcileRequired(wk.copy) => ~wk'.ok)
      BY <2>2, <3>1, CompareSteps DEF WorkInv
    <3>4. wk'.spec = MergeSystemSpecs(wk'.copy.defaults, wk'.copy.spec)
      BY <2>2, <3>1, CompareSteps DEF WorkInv, SameWants
    <3> QED
      BY <3>2, <3>3, <3>4 DEF WorkInv, Ending
  <2>3. CASE Request \/ Advance
    <3>1. wk.pc \in Stages /\ wk.pc \in LatePCs /\ ~Ending
      BY <2>3, RequestSteps, AdvanceSteps, EndingDef DEF Ending
    <3>2. wk'.copy = wk.copy /\ wk'.spec = wk.spec /\ ~wk'.wait
      BY <2>3, <3>1, RequestSteps, AdvanceSteps DEF WorkInv
    <3>3. (wk'.pc \in Stages /\ ~wk'.ok) \/ wk'.pc = "ready"
      <4>1. CASE Request
        BY <3>1, <4>1, RequestSteps DEF WorkInv
      <4>2. CASE Advance
        <5>1. After(wk.pc) \in Stages \/ After(wk.pc) = "ready"
          BY <3>1, StagesDef, AfterDef
        <5> QED
          BY <4>2, <5>1, AdvanceSteps, EndingDef
      <4> QED
        BY <2>3, <4>1, <4>2
    <3>4. wk'.spec = MergeSystemSpecs(wk'.copy.defaults, wk'.copy.spec)
      BY <3>1, <3>2 DEF WorkInv
    <3> QED
      BY <3>2, <3>3, <3>4 DEF WorkInv, Ending
  <2>4. CASE FileSystemResizeAllowed
    <3>1. wk.copy.scope = "principal"
      BY <1>3 DEF CopyInv
    <3>2. wk.pc = "fileSystems" /\ wk.pc \in LatePCs /\ ~Ending /\ wk.pc \in Stages
      BY <2>4, <3>1, ResizeSteps, EndingDef DEF Ending
    <3>3. wk'.pc = "ready" /\ wk'.spec = wk.spec /\ ~wk'.ok
      BY <2>4, <3>1, <3>2, ResizeSteps DEF WorkInv
    <3>4. wk'.spec = MergeSystemSpecs(wk'.copy.defaults, wk'.copy.spec)
      BY <2>4, <3>1, <3>2, <3>3, ResizeSteps DEF WorkInv, SameWants
    <3> QED
      BY <3>3, <3>4 DEF WorkInv, Ending
  <2>5. CASE SystemReady
    <3>1. CASE wk'.pc = "idle"
      BY <1>1, <3>1, PhasesDef
    <3>2. CASE wk'.pc # "idle"
      <4>1. wk.pc = "ready" /\ wk'.pc = "status" /\ wk'.copy = wk.copy /\ wk'.spec = wk.spec
            /\ wk'.ok = wk.ok /\ wk'.wait = wk.wait
        BY <2>5, <3>2, ReadySteps
      <4> QED
        BY <4>1 DEF WorkInv, Ending
    <3> QED
      BY <3>1, <3>2
  <2>6. CASE StatusUpdate
    BY <1>1, <1>3, <2>6, StatusSteps, PhasesDef DEF CopyInv
  <2> QED
    BY <1>3, <2>1, <2>2, <2>3, <2>4, <2>5, <2>6, LateActions
<1>4. CASE MonitorFires \/ ResizeEnds \/ Happens \/ UNCHANGED vars
  <2>1. CASE wk' = NoWork
    BY <1>1, <2>1, PhasesDef DEF NoWork
  <2>2. CASE wk' = wk
    BY <2>2 DEF WorkInv, Ending
  <2> QED
    BY <1>4, <2>1, <2>2, OtherSteps
<1> QED
  BY <1>2, <1>3, <1>4 DEF Next

-----------------------------------------------------------------------------

\* While nothing is queued the copy wants what the object wants.
LEMMA SameFs ==
  ASSUME CopyInv, DefaultsInv, HasCopy, Observed, NEW s
  PROVE  FsDone(obj, s) <=> FsDone(wk.copy, s)
<1>1. obj.defaults = wk.copy.defaults /\ obj.spec = wk.copy.spec
  BY DEF CopyInv, DefaultsInv
<1> QED
  BY <1>1, FsDoneSame

\* A request leaves file systems that are large enough so.
LEMMA RequestFs ==
  ASSUME TypeInv, WorkInv, wk.pc \in Stages, NEW i \in Items, FsDone(wk.copy, sys.set)
  PROVE  FsDone(wk.copy, Apply(i).set)
<1>1. wk \in LateWork
  BY PhaseTyped DEF LatePCs
<1>2. S = MergeSystemSpecs(wk.copy.defaults, wk.copy.spec) /\ S \in SettingsType
  BY <1>1 DEF WorkInv, S, LateWork
<1>3. \A f \in FileSystems : S.fs[f] \in Nat
  BY <1>2 DEF SettingsType
<1> QED
  BY <1>2, <1>3, ApplyFsValues, FsDoneKept

\* If nothing has to grow the file systems are large enough, and conversely.
LEMMA GrowingFs ==
  ASSUME TypeInv, WorkInv, wk.pc \in Stages
  PROVE  /\ Growing = {} /\ sys.set.fs = I.fs => FsDone(wk.copy, sys.set)
         /\ FsDone(wk.copy, sys.set)
            /\ (\A f \in FileSystems : I.fs[f] # 0 => sys.set.fs[f] = I.fs[f]) => Growing = {}
<1>1. wk \in LateWork
  BY PhaseTyped DEF LatePCs
<1>2. S = MergeSystemSpecs(wk.copy.defaults, wk.copy.spec) /\ S \in SettingsType
      /\ I \in SettingsType
  BY <1>1 DEF WorkInv, S, I, LateWork, SystemType
<1>3. \A f \in FileSystems : S.fs[f] \in Nat /\ I.fs[f] \in Nat
  BY <1>2 DEF SettingsType
<1>4. FsDone(wk.copy, sys.set) <=>
        \A f \in FileSystems : sys.set.fs[f] # 0 => S.fs[f] <= sys.set.fs[f]
  BY <1>2 DEF FsDone
<1> QED
  BY <1>3, <1>4 DEF Growing

\* The request that grows what has to.
LEMMA ResizedFs ==
  ASSUME TypeInv, WorkInv, wk.pc = "resize", NEW i \in Items, sys.set.fs = I.fs
  PROVE  FsDone(wk.copy, Apply(i).set)
<1>1. wk.pc \in Stages /\ wk \in LateWork
  BY StagesDef, PhaseTyped DEF LatePCs
<1>2. S = MergeSystemSpecs(wk.copy.defaults, wk.copy.spec) /\ S \in SettingsType
      /\ I \in SettingsType
  BY <1>1 DEF WorkInv, S, I, LateWork, SystemType
<1>3. \A f \in FileSystems : S.fs[f] \in Nat /\ I.fs[f] \in Nat
  BY <1>2 DEF SettingsType
<1>4. i = Growing
  BY DEF Items, ResizeFileSystems
<1>5. Apply(i).set.fs = [f \in FileSystems |-> IF f \in i THEN S.fs[f] ELSE sys.set.fs[f]]
  BY <1>1, ApplyFs
<1>6. \A f \in FileSystems : Apply(i).set.fs[f] = IF f \in Growing THEN S.fs[f] ELSE I.fs[f]
  BY <1>4, <1>5
<1>7. \A f \in FileSystems : Apply(i).set.fs[f] # 0 => S.fs[f] <= Apply(i).set.fs[f]
  BY <1>3, <1>6 DEF Growing
<1> QED
  BY <1>2, <1>7 DEF FsDone

\* Where the stages say nothing.
LEMMA NoStage ==
  ASSUME wk'.pc \notin {"fileSystems", "resize", "staleFileSystems"},
     wk'.pc \notin {"ready", "status"} \/ ~wk'.ok
  PROVE  FsStages'
BY DEF FsStages, Ending

LEMMA StepFsStages ==
  ASSUME TypeInv, DayTwoInv, CopyInv, WorkInv, FsInv, [Next]_vars
  PROVE  FsStages'
<1>1. CASE ~HasCopy /\ Reconcile
  <2>1. wk'.pc \in EarlyPCs \cup {"populate"}
    BY <1>1, EarlySteps, PhasesDef
  <2> QED
    BY <2>1, EndingDef, PhasesDef, NoStage
<1>2. CASE HasCopy /\ Reconcile
  <2>1. CASE PopulateSystemInfo \/ BuildSystemDefaults \/ SetFactoryDefaultUpdated \/ Merge
    <3>1. wk'.pc \in {"idle", "defaults", "defaultFlag", "merge", "compare"}
      BY <2>1, BeginSteps
    <3> QED
      BY <3>1, NoStage
  <2>2. CASE Compare
    <3>1. CASE ReconcileRequired(wk.copy)
      BY <2>2, <3>1, CompareSteps, NoStage
    <3>2. CASE ~ReconcileRequired(wk.copy)
      <4>1. wk.copy.reconciled /\ wk'.pc = "ready" /\ sys' = sys
        BY <2>2, <3>2, CompareSteps DEF ReconcileRequired
      <4>2. FsDone(wk.copy, sys.set)
        BY <1>2, <4>1 DEF FsInv, FsDesired, FsStages
      <4>3. FsDone(wk'.copy, sys'.set)
        BY <2>2, <4>1, <4>2, CompareSteps, FsDoneSame DEF SameWants
      <4> QED
        BY <4>1, <4>3 DEF FsStages
    <3> QED
      BY <3>1, <3>2
  <2>3. CASE Request
    <3>1. wk.pc \in Stages /\ wk'.copy = wk.copy /\ wk'.spec = wk.spec
      BY <2>3, RequestSteps
    <3>2. PICK i \in Items :
            \/ /\ sys' = Apply(i) /\ wk'.pc = wk.pc /\ wk'.done = wk.done \cup {i}
               /\ wk'.info = wk.info /\ wk'.ok = wk.ok
            \/ (sys' = sys \/ sys' = Apply(i)) /\ wk'.pc = "ready" /\ ~wk'.ok
      BY <2>3, RequestSteps
    <3>3. CASE wk'.pc = "ready" /\ ~wk'.ok
      BY <3>3, NoStage
    <3>4. CASE /\ sys' = Apply(i) /\ wk'.pc = wk.pc /\ wk'.done = wk.done \cup {i}
               /\ wk'.info = wk.info
      <4>1. I' = I /\ ~Ending'
        BY <3>1, <3>4, EndingDef DEF I, Ending
      <4>2. wk.pc = "fileSystems" =>
              \A f \in FileSystems : I.fs[f] # 0 => sys'.set.fs[f] = I.fs[f]
        <5> SUFFICES ASSUME wk.pc = "fileSystems", NEW f \in FileSystems, I.fs[f] # 0
                     PROVE  sys'.set.fs[f] = I.fs[f]
          OBVIOUS
        <5>1. I.fs[i] = 0
          BY DEF Items, ReconcileFileSystems
        <5>2. sys'.set.fs = [sys.set.fs EXCEPT ![i] = S.fs[i]]
          BY <3>1, <3>4, ApplyFs
        <5>3. sys.set.fs \in [FileSystems -> Nat]
          BY DEF TypeInv, SystemType, SettingsType
        <5>4. sys'.set.fs[f] = sys.set.fs[f]
          BY <5>1, <5>2, <5>3
        <5> QED
          BY <5>4 DEF FsInv, FsDesired, FsStages
      <4>3. wk.pc = "resize" => FsDone(wk.copy, sys'.set)
        <5>1. CASE wk.pc = "resize" /\ wk.done = {}
          BY <3>4, <5>1, ResizedFs DEF FsInv, FsDesired, FsStages
        <5>2. CASE wk.pc = "resize" /\ wk.done # {}
          BY <3>1, <3>4, <5>2, RequestFs DEF FsInv, FsDesired, FsStages
        <5> QED
          BY <5>1, <5>2
      <4>4. wk.pc = "staleFileSystems" => FsDone(wk.copy, sys'.set)
        BY <3>1, <3>4, RequestFs DEF FsInv, FsDesired, FsStages
      <4> QED
        BY <3>1, <3>4, <4>1, <4>2, <4>3, <4>4 DEF FsStages
    <3> QED
      BY <3>2, <3>3, <3>4
  <2>4. CASE Advance
    <3>1. wk.pc \in Stages /\ wk'.copy = wk.copy /\ sys' = sys
      BY <2>4, AdvanceSteps
    <3>2. CASE wk'.pc = "ready" /\ ~wk'.ok
      BY <3>2, NoStage
    <3>3. CASE /\ Items \subseteq wk.done /\ wk'.pc = After(wk.pc) /\ wk'.done = {}
               /\ wk'.info.set = sys.set
      <4>1. I' = sys.set
        BY <3>3 DEF I
      <4>2. CASE wk.pc = "resize"
        <5>1. wk'.pc = "staleFileSystems"
          BY <3>3, <4>2, AfterDef
        <5>2. FsDone(wk.copy, sys.set)
          <6>1. CASE wk.done = {}
            <7>1. Growing = {}
              BY <3>3, <4>2, <6>1 DEF Items, ResizeFileSystems
            <7> QED
              BY <3>1, <4>2, <6>1, <7>1, GrowingFs DEF FsInv, FsDesired, FsStages
          <6>2. CASE wk.done # {}
            BY <4>2, <6>2 DEF FsInv, FsDesired, FsStages
          <6> QED
            BY <6>1, <6>2
        <5> QED
          BY <3>1, <5>1, <5>2 DEF FsStages, Ending
      <4>3. CASE wk.pc = "staleFileSystems"
        <5>1. wk'.pc = "ready" /\ FsDone(wk.copy, sys.set)
          BY <3>3, <4>3, AfterDef DEF FsInv, FsDesired, FsStages
        <5> QED
          BY <3>1, <5>1 DEF FsStages
      <4>4. CASE wk.pc \notin {"resize", "staleFileSystems"}
        <5>1. wk'.pc \notin {"staleFileSystems", "ready", "status"}
          BY <3>1, <3>3, <4>4, StagesDef, AfterDef
        <5>2. wk'.pc = "fileSystems" => \A f \in FileSystems : I'.fs[f] # 0 => sys'.set.fs[f] = I'.fs[f]
          BY <3>1, <4>1
        <5>3. wk'.pc = "resize" => IF wk'.done = {} THEN sys'.set.fs = I'.fs ELSE FsDone(wk'.copy, sys'.set)
          BY <3>1, <3>3, <4>1
        <5> QED
          BY <5>1, <5>2, <5>3 DEF FsStages, Ending
      <4> QED
        BY <4>2, <4>3, <4>4
    <3> QED
      BY <2>4, <3>2, <3>3, AdvanceSteps
  <2>5. CASE FileSystemResizeAllowed
    <3>1. wk.copy.scope = "principal"
      BY <1>2 DEF CopyInv
    <3>2. wk.pc \in LatePCs /\ ~Ending /\ wk'.pc = "ready" /\ wk'.ok = wk.ok
      BY <2>5, <3>1, ResizeSteps, EndingDef DEF Ending
    <3> QED
      BY <3>2, NoStage DEF WorkInv
  <2>6. CASE SystemReady
    <3>1. CASE wk'.pc = "idle"
      BY <3>1, NoStage
    <3>2. CASE wk'.pc # "idle"
      <4>1. wk.pc = "ready" /\ wk'.pc = "status" /\ wk'.copy = wk.copy /\ wk'.ok = wk.ok
            /\ sys' = sys
        BY <2>6, <3>2, ReadySteps
      <4> QED
        BY <4>1 DEF FsStages, FsInv, Ending, FsDesired
    <3> QED
      BY <3>1, <3>2
  <2>7. CASE StatusUpdate
    <3>1. wk'.pc = "idle"
      BY <1>2, <2>7, StatusSteps DEF CopyInv
    <3> QED
      BY <3>1, NoStage
  <2> QED
    BY <1>2, <2>1, <2>2, <2>3, <2>4, <2>5, <2>6, <2>7, LateActions
<1>3. CASE MonitorFires \/ ResizeEnds \/ Happens \/ UNCHANGED vars
  <2>1. CASE wk' = NoWork
    <3>1. wk'.pc = "idle"
      BY <2>1 DEF NoWork
    <3> QED
      BY <3>1, NoStage
  <2>2. CASE wk' = wk
    <3>1. sys'.set = sys.set
      BY <1>3, OtherSteps
    <3> QED
      BY <2>2, <3>1 DEF FsStages, FsInv, Ending, I, FsDesired
  <2> QED
    BY <1>3, <2>1, <2>2, OtherSteps
<1> QED
  BY <1>1, <1>2, <1>3 DEF Next

\* A step that changes neither the status nor what the object wants, nor the report.
LEMMA SameDesired ==
  ASSUME FsInv, obj'.reconciled = obj.reconciled, obj'.strategy = obj.strategy,
         obj'.defaults = obj.defaults, Observed' => Observed /\ obj'.spec = obj.spec,
         mgr'.report = mgr.report \/ mgr'.report.reconciled = FALSE, sys'.set = sys.set,
         \/ wk'.pc = "idle" \/ wk'.pc \in EarlyPCs
         \/ /\ HasCopy /\ SameWants(wk'.copy, wk.copy)
            /\ wk'.copy.strategy = wk.copy.strategy
  PROVE  FsDesired'
<1>1. obj'.reconciled => obj'.strategy = "not_required"
  BY DEF FsInv, FsDesired, FsStages
<1>2. ASSUME Observed', obj'.reconciled \/ mgr'.report.reconciled
      PROVE  obj'.defaults # NoDefaults /\ FsDone(obj', sys'.set)
  <2>1. Observed /\ obj'.spec = obj.spec /\ (obj.reconciled \/ mgr.report.reconciled)
    BY <1>2
  <2>2. obj.defaults # NoDefaults /\ FsDone(obj, sys.set)
    BY <2>1 DEF FsInv, FsDesired, FsStages
  <2> QED
    BY <2>1, <2>2, FsDoneSame
<1>3. ASSUME HasCopy', wk'.copy.reconciled
      PROVE  wk'.copy.strategy = "not_required" /\ FsDone(wk'.copy, sys'.set)
  <2>1. /\ HasCopy /\ SameWants(wk'.copy, wk.copy) /\ wk'.copy.strategy = wk.copy.strategy
    BY <1>3, PhasesDef DEF HasCopy
  <2>2. wk.copy.strategy = "not_required" /\ FsDone(wk.copy, sys.set)
    BY <1>3, <2>1 DEF FsInv, SameWants, FsDesired, FsStages
  <2> QED
    BY <2>1, <2>2, FsDoneSame DEF SameWants
<1> QED
  BY <1>1, <1>2, <1>3 DEF FsDesired

LEMMA StepFsDesired ==
  ASSUME TypeInv, DefaultsInv, DayTwoInv, CopyInv, WorkInv, FsInv, [Next]_vars
  PROVE  FsDesired'
<1>0. obj \in ObjectType /\ obj.gen \in Nat /\ obj.observed \in Nat
  BY DEF TypeInv, ObjectType
<1>1. CASE ~HasCopy /\ Reconcile
  <2>1. CASE /\ wk'.pc \in EarlyPCs /\ mgr' = mgr /\ SameStatus(obj', obj)
             /\ \/ obj'.gen = obj.gen /\ obj'.spec = obj.spec
                \/ obj'.gen = obj.gen + 1
    <3>1. Observed' => Observed /\ obj'.spec = obj.spec
      BY <1>0, <2>1 DEF Observed, SameStatus, DayTwoInv
    <3> QED
      BY <1>1, <2>1, <3>1, EarlySteps, SameDesired DEF SameStatus
  <2>2. CASE UpdateConfigStatus /\ wk'.pc = "idle" /\ obj' = obj
    <3>1. mgr'.report = mgr.report \/ mgr'.report.reconciled = FALSE
      BY <2>2, ConfigSteps
    <3>2. Observed' => Observed /\ obj'.spec = obj.spec
      BY <2>2 DEF Observed
    <3> QED
      BY <1>1, <2>2, <3>1, <3>2, EarlySteps, SameDesired
  <2>3. CASE /\ UpdateConfigStatus /\ wk' = [pc |-> "populate", copy |-> Observe(obj)]
             /\ obj' = Observe(obj)
    <3>1. wk'.copy = obj' /\ obj.scope = "principal" /\ sys' = sys
      BY <1>1, <2>3, ConfigSteps, EarlySteps
    <3>2. CASE Observed
      <4>1. obj' = obj /\ mgr' = mgr
        BY <1>0, <2>3, <3>1, <3>2, ConfigSteps, ObserveDayTwo DEF DayTwoInv, Observed
      <4> QED
        BY <3>1, <3>2, <4>1 DEF FsInv, FsDesired, Observed
    <3>3. CASE ~Observed
      <4>1. obj'.reconciled = FALSE
        BY <1>0, <2>3, <3>1, <3>3, ObserveDayTwo DEF DayTwoInv, Observed
      <4>2. mgr'.report.reconciled = FALSE
        BY <2>3, <3>3, ConfigSteps
      <4> QED
        BY <3>1, <4>1, <4>2 DEF FsDesired
    <3> QED
      BY <3>2, <3>3
  <2> QED
    BY <1>1, <2>1, <2>2, <2>3, EarlySteps
<1>2. CASE HasCopy /\ Reconcile
  <2>0. /\ wk.copy.scope = "principal" /\ wk.copy.reconciled = obj.reconciled
        /\ wk.copy.observed = wk.copy.gen /\ obj.observed = wk.copy.gen
        /\ (fresh => Observed) /\ (Observed => wk.copy.spec = obj.spec)
        /\ wk.copy.defaults = obj.defaults
    BY <1>2 DEF CopyInv, DefaultsInv
  <2>1. CASE PopulateSystemInfo \/ BuildSystemDefaults \/ SetFactoryDefaultUpdated \/ Merge
    <3>1. sys' = sys /\ mgr' = mgr
      BY <2>1, BeginSteps
    <3>2. CASE wk'.pc = "idle" /\ obj' = obj
      BY <3>1, <3>2, SameDesired DEF Observed
    <3>3. CASE wk'.copy = wk.copy /\ obj' = obj
      BY <1>2, <3>1, <3>3, SameDesired DEF Observed, SameWants
    <3>4. CASE /\ fresh /\ obj' = wk'.copy /\ (wk.copy.defaults = NoDefaults \/ factory.on)
               /\ wk'.copy.reconciled = wk.copy.reconciled
      <4>1. Observed /\ obj.defaults = NoDefaults
        BY <2>0, <3>4 DEF DayTwoInv
      <4>2. ~obj.reconciled /\ ~mgr.report.reconciled
        BY <4>1 DEF FsInv, FsDesired
      <4> QED
        BY <2>0, <3>1, <3>4, <4>2 DEF FsDesired
    <3> QED
      BY <2>1, <3>2, <3>3, <3>4, BeginSteps
  <2>2. CASE Compare
    <3>1. SameWants(wk'.copy, wk.copy) /\ wk'.copy.strategy = wk.copy.strategy
          /\ sys' = sys /\ mgr' = mgr
      BY <2>2, CompareSteps
    <3>2. CASE obj' = obj
      BY <1>2, <3>1, <3>2, SameDesired DEF Observed
    <3>3. CASE fresh /\ obj' = wk'.copy
      <4>1. Observed /\ SameWants(obj', obj)
        BY <2>0, <3>1, <3>3 DEF SameWants
      <4>2. obj'.reconciled => obj'.strategy = "not_required"
        BY <1>2, <3>1, <3>3 DEF SameWants, FsInv, FsDesired
      <4>3. obj'.reconciled \/ mgr'.report.reconciled =>
              obj'.defaults # NoDefaults /\ FsDone(obj', sys'.set)
        BY <3>1, <4>1, FsDoneSame DEF SameWants, FsInv, FsDesired
      <4>4. wk'.copy.reconciled => wk'.copy.strategy = "not_required" /\ FsDone(wk'.copy, sys'.set)
        BY <3>3, <4>2, <4>3
      <4> QED
        BY <4>2, <4>3, <4>4 DEF FsDesired
    <3> QED
      BY <2>2, <3>2, <3>3, CompareSteps
  <2>3. CASE Request
    <3>1. wk.pc \in Stages /\ wk'.copy = wk.copy /\ obj' = obj /\ mgr' = mgr
      BY <2>3, RequestSteps
    <3>2. FsDone(wk.copy, sys.set) => FsDone(wk.copy, sys'.set)
      BY <2>3, <3>1, RequestSteps, RequestFs
    <3>3. Observed /\ FsDone(obj, sys.set) => FsDone(obj, sys'.set)
      BY <1>2, <3>2, SameFs
    <3> QED
      BY <1>2, <3>1, <3>2, <3>3 DEF FsInv, FsDesired, Observed
  <2>4. CASE Advance
    <3>1. wk'.copy = wk.copy /\ obj' = obj /\ mgr' = mgr /\ sys' = sys
      BY <2>4, AdvanceSteps
    <3> QED
      BY <1>2, <3>1, SameDesired DEF Observed, SameWants
  <2>5. CASE FileSystemResizeAllowed
    <3>1. ~FsDone(wk.copy, sys.set)
      <4>1. wk.pc = "fileSystems" /\ Growing # {} /\ wk.pc \in Stages
        BY <2>0, <2>5, ResizeSteps, EndingDef
      <4> QED
        BY <4>1, GrowingFs DEF FsInv, FsStages
    <3>2. ~wk.copy.reconciled /\ ~obj.reconciled /\ ~wk'.copy.reconciled
      BY <1>2, <2>0, <2>5, <3>1, ResizeSteps DEF FsInv, FsDesired, SameWants
    <3>3. CASE UNCHANGED <<obj, queued, mgr>> /\ wk'.copy = wk.copy
      BY <1>2, <2>0, <2>5, <3>3, ResizeSteps, SameDesired DEF Observed, SameWants
    <3>4. CASE mgr'.report = Report(wk'.copy) /\ (obj' = wk'.copy \/ obj' = obj)
      BY <3>2, <3>4 DEF FsDesired, Report
    <3> QED
      BY <2>0, <2>5, <3>3, <3>4, ResizeSteps
  <2>6. CASE SystemReady
    <3>1. mgr'.report = mgr.report /\ obj' = obj /\ sys' = sys
          /\ (wk'.pc = "idle" \/ wk'.copy = wk.copy)
      BY <2>6, ReadySteps
    <3> QED
      BY <1>2, <3>1, SameDesired DEF Observed, SameWants
  <2>7. CASE StatusUpdate
    <3>1. wk.pc = "status" /\ ~HasCopy' /\ sys' = sys
      BY <2>0, <2>7, StatusSteps, PhasesDef DEF HasCopy
    <3>2. CASE wk.ok /\ ~wk.copy.reconciled
      <4>1. FsDone(wk.copy, sys.set) /\ obj.defaults # NoDefaults
        BY <3>1, <3>2 DEF FsInv, FsStages, Ending, DefaultsInv, Started, Collected
      <4>2. CASE obj' = obj
        <5>1. Observed => FsDone(obj, sys.set)
          BY <1>2, <4>1, SameFs
        <5> QED
          BY <2>0, <3>1, <3>2, <4>1, <4>2, <5>1 DEF FsDesired, Observed
      <4>3. CASE Report(obj') = AllDone /\ obj'.defaults = wk.copy.defaults /\ obj'.spec = wk.copy.spec
        <5>1. FsDone(obj', sys.set)
          BY <4>1, <4>3, FsDoneSame
        <5>2. obj'.strategy = "not_required" /\ obj'.defaults # NoDefaults
          BY <2>0, <4>1, <4>3 DEF Report, AllDone
        <5> QED
          BY <3>1, <5>1, <5>2 DEF FsDesired
      <4> QED
        BY <2>0, <2>7, <3>2, <4>2, <4>3, StatusSteps
    <3>3. CASE ~(wk.ok /\ ~wk.copy.reconciled)
      <4>1. mgr' = mgr
        BY <2>0, <2>7, <3>3, StatusSteps
      <4>2. CASE obj' = obj
        BY <3>1, <4>1, <4>2 DEF FsInv, FsDesired, Observed
      <4>3. CASE fresh /\ SameWants(obj', wk.copy) /\ obj'.strategy = wk.copy.strategy
        <5>1. Observed /\ SameWants(obj', obj)
          BY <2>0, <4>3 DEF SameWants
        <5>2. obj'.reconciled => obj'.strategy = "not_required"
          BY <1>2, <4>3 DEF SameWants, FsInv, FsDesired
        <5>3. obj'.reconciled \/ mgr'.report.reconciled =>
                obj'.defaults # NoDefaults /\ FsDone(obj', sys'.set)
          BY <3>1, <4>1, <5>1, FsDoneSame DEF SameWants, FsInv, FsDesired
        <5> QED
          BY <3>1, <5>2, <5>3 DEF FsDesired
      <4> QED
        BY <2>0, <2>7, <3>3, <4>2, <4>3, StatusSteps
    <3> QED
      BY <3>2, <3>3
  <2> QED
    BY <1>2, <2>1, <2>2, <2>3, <2>4, <2>5, <2>6, <2>7, LateActions
<1>3. CASE MonitorFires \/ ResizeEnds \/ Happens \/ UNCHANGED vars
  <2>1. Observed' => Observed /\ obj'.spec = obj.spec
    BY <1>0, <1>3, OtherSteps DEF Observed, SameStatus, DayTwoInv
  <2>2. SameStatus(obj', obj) /\ sys'.set = sys.set
    BY <1>3, OtherSteps
  <2>3. CASE wk' = wk /\ mgr' = mgr
    BY <2>1, <2>2, <2>3, SameDesired DEF SameStatus, SameWants, HasCopy
  <2>4. CASE wk' = NoWork /\ mgr'.report = NoReport
    BY <2>1, <2>2, <2>4, SameDesired DEF SameStatus, NoWork, NoReport
  <2> QED
    BY <1>3, <2>3, <2>4, OtherSteps
<1> QED
  BY <1>1, <1>2, <1>3 DEF Next

-----------------------------------------------------------------------------

\* A step that changes neither the report nor what the status says, and does not end
\* the pass.
LEMMA SameReport ==
  ASSUME ReportInv, HasCopy, HasCopy', mgr'.report = mgr.report, Report(obj') = Report(obj),
         obj'.strategy = obj.strategy, Observed' => Observed,
         obj'.reconciled = obj.reconciled,
         Report(wk'.copy) = Report(wk.copy), wk'.copy.strategy = wk.copy.strategy,
         ~Ending \/ (Ending' /\ wk'.ok = wk.ok /\ wk'.wait = wk.wait /\ mon' = mon
                     /\ (queued => queued')),
         ~Ending => ~(Ending' /\ wk'.wait)
  PROVE  ReportInv'
<1>1. wk'.pc # "idle"
  BY PhasesDef DEF HasCopy
<1> QED
  BY <1>1 DEF ReportInv

LEMMA StepReport ==
  TypeInv /\ DefaultsInv /\ DayTwoInv /\ CopyInv /\ WorkInv /\ FsInv /\ ReportInv /\ [Next]_vars
  => ReportInv'
<1> SUFFICES ASSUME TypeInv, DefaultsInv, DayTwoInv, CopyInv, WorkInv, FsInv, ReportInv,
                    [Next]_vars
             PROVE  ReportInv'
  OBVIOUS
<1>0. obj \in ObjectType /\ obj.gen \in Nat /\ obj.observed \in Nat
  BY DEF TypeInv, ObjectType
<1>1. CASE ~HasCopy /\ Reconcile
  <2>1. CASE /\ wk'.pc \in EarlyPCs /\ mgr' = mgr /\ SameStatus(obj', obj)
             /\ \/ obj'.gen = obj.gen /\ obj'.spec = obj.spec
                \/ obj'.gen = obj.gen + 1
    <3>1. Observed' => Observed
      BY <1>0, <2>1 DEF Observed, SameStatus, DayTwoInv
    <3>2. Report(obj') = Report(obj) /\ obj'.strategy = obj.strategy
          /\ obj'.reconciled = obj.reconciled
      BY <2>1 DEF Report, SameStatus
    <3>3. ~HasCopy' /\ ~Ending' /\ (wk'.pc = "idle" => queued')
      BY <1>1, <2>1, EarlySteps, EndingDef DEF HasCopy, Ending
    <3> QED
      BY <2>1, <3>1, <3>2, <3>3 DEF ReportInv
  <2>2. CASE UpdateConfigStatus /\ wk'.pc = "idle" /\ obj' = obj
    <3>1. ~HasCopy' /\ ~Ending' /\ queued'
      BY <1>1, <2>2, EarlySteps, PhasesDef DEF HasCopy, Ending
    <3>2. Observed' => Observed /\ mgr' = mgr
      BY <2>2, ConfigSteps DEF Observed
    <3> QED
      BY <2>2, <3>1, <3>2 DEF ReportInv
  <2>3. CASE /\ UpdateConfigStatus /\ wk' = [pc |-> "populate", copy |-> Observe(obj)]
             /\ obj' = Observe(obj)
    <3>1. wk'.copy = obj' /\ wk'.pc = "populate" /\ obj.scope = "principal"
      BY <2>3, ConfigSteps
    <3>2. CASE Observed
      <4>1. obj' = obj /\ mgr' = mgr
        BY <1>0, <2>3, <3>1, <3>2, ConfigSteps, ObserveDayTwo DEF DayTwoInv, Observed
      <4> QED
        BY <3>1, <3>2, <4>1 DEF ReportInv, Ending
    <3>3. CASE ~Observed
      <4>1. obj'.reconciled = FALSE /\ obj'.strategy = "not_required"
        BY <1>0, <2>3, <3>1, <3>3, ObserveDayTwo DEF DayTwoInv, Observed
      <4>2. mgr'.report = [reconciled |-> FALSE, strategy |-> "not_required"]
        BY <2>3, <3>3, ConfigSteps
      <4>3. mgr'.report = Report(obj')
        BY <4>1, <4>2 DEF Report
      <4> QED
        BY <3>1, <4>3 DEF ReportInv, Ending
    <3> QED
      BY <3>2, <3>3
  <2> QED
    BY <1>1, <2>1, <2>2, <2>3, EarlySteps
<1>2. CASE HasCopy /\ Reconcile
  <2>0. /\ wk.copy.scope = "principal" /\ wk.copy.reconciled = obj.reconciled
        /\ wk.copy.observed = wk.copy.gen /\ obj.observed = wk.copy.gen
        /\ (fresh => Observed) /\ (~queued => Observed)
    BY <1>2 DEF CopyInv
  <2>00. wk.copy \in ObjectType
    BY <1>2, PhaseTyped DEF HasCopy, TypeInv, EarlyWork, PopulateWork, LateWork
  <2>1. CASE \/ PopulateSystemInfo \/ BuildSystemDefaults \/ SetFactoryDefaultUpdated \/ Merge
             \/ Compare
    <3>1. mgr' = mgr /\ ~Ending
      BY <2>1, BeginSteps, CompareSteps DEF Ending, PopulateSystemInfo, BuildSystemDefaults,
         SetFactoryDefaultUpdated, Merge, Compare
    <3>2. CASE wk'.pc = "idle"
      <4>1. obj' = obj /\ queued'
        BY <2>1, <3>2, BeginSteps, CompareSteps
      <4>2. ~HasCopy' /\ ~Ending'
        BY <3>2, PhasesDef DEF HasCopy, Ending
      <4> QED
        BY <3>1, <4>1, <4>2 DEF ReportInv, Observed
    <3>3. CASE wk'.pc # "idle"
      <4>1. wk'.copy.reconciled = wk.copy.reconciled /\ wk'.copy.strategy = wk.copy.strategy
        BY <2>1, <3>3, BeginSteps, CompareSteps DEF SameWants
      <4>2. obj' = obj \/ (fresh /\ obj' = wk'.copy)
        BY <2>1, <3>3, BeginSteps, CompareSteps
      <4>3. wk.copy.strategy = obj.strategy
        BY <1>2, <3>1 DEF ReportInv
      <4>4. obj'.strategy = obj.strategy /\ obj'.reconciled = obj.reconciled
        BY <2>0, <4>1, <4>2, <4>3
      <4>5. Observed' => Observed
        BY <2>0, <4>2 DEF Observed
      <4>6. Report(obj') = Report(obj) /\ Report(wk'.copy) = Report(wk.copy)
        BY <4>1, <4>4 DEF Report
      <4>7. ~(Ending' /\ wk'.wait) /\ HasCopy'
        <5>1. WorkInv'
          BY StepWork
        <5>2. CASE Compare
          BY <2>0, <3>3, <5>2, CompareSteps, EndingDef, StagesDef, PhasesDef DEF Compare,
             LatePCs, WorkInv, HasCopy, Ending
        <5>3. CASE ~Compare
          <6>1. wk'.pc \in {"defaults", "defaultFlag", "merge", "compare"}
            BY <2>1, <3>3, <5>3, BeginSteps
          <6> QED
            BY <6>1, PhasesDef DEF HasCopy, Ending
        <5> QED
          BY <5>2, <5>3
      <4> QED
        BY <1>2, <3>1, <4>1, <4>4, <4>5, <4>6, <4>7, SameReport
    <3> QED
      BY <3>2, <3>3
  <2>2. CASE Request \/ Advance
    <3>1. wk'.copy = wk.copy /\ obj' = obj /\ mgr' = mgr /\ wk.pc \in Stages
          /\ wk'.wait = wk.wait
      BY <2>2, RequestSteps, AdvanceSteps
    <3>2. ~Ending /\ ~wk.wait
      BY <3>1, EndingDef DEF Ending, WorkInv
    <3>3. HasCopy'
      <4>1. wk'.pc # "idle"
        BY <2>2, <3>1, RequestSteps, AdvanceSteps, StagesDef, AfterDef, PhasesDef
      <4> QED
        BY <1>2, <4>1, LateSteps
    <3> QED
      BY <1>2, <3>1, <3>2, <3>3, SameReport DEF Observed
  <2>3. CASE FileSystemResizeAllowed
    <3>1. ~FsDone(wk.copy, sys.set) /\ wk'.pc = "ready" /\ ~wk.ok /\ ~Ending
      <4>1. wk.pc = "fileSystems" /\ Growing # {} /\ wk.pc \in Stages /\ wk'.pc = "ready"
        BY <2>0, <2>3, ResizeSteps, EndingDef
      <4>2. ~FsDone(wk.copy, sys.set)
        BY <4>1, GrowingFs DEF FsInv, FsStages
      <4> QED
        BY <4>1, <4>2, EndingDef DEF WorkInv, Ending
    <3>2. ~wk.copy.reconciled /\ ~obj.reconciled /\ ~wk'.copy.reconciled /\ ~wk'.ok
      BY <1>2, <2>0, <2>3, <3>1, ResizeSteps DEF FsInv, FsDesired, SameWants
    <3>3. wk.copy.strategy = obj.strategy
      BY <1>2, <3>1 DEF ReportInv
    <3>4. CASE UNCHANGED <<obj, queued, mgr>> /\ wk'.copy = wk.copy /\ mon' = "resize"
      <4>1. ASSUME ~queued, mgr.report \notin {NoReport, Report(obj)}
            PROVE  obj.strategy = "not_required"
        <5>1. Observed
          BY <2>0, <4>1
        <5>2. ~mgr.report.reconciled
          BY <1>2, <3>1, <5>1, SameFs DEF FsInv, FsDesired
        <5>3. mgr.report # AllDone
          BY <5>2 DEF AllDone
        <5> QED
          BY <4>1, <5>1, <5>3 DEF ReportInv
      <4> QED
        BY <3>1, <3>3, <3>4, <4>1 DEF ReportInv, Observed
    <3>5. CASE /\ wk'.copy.strategy = "unlock_required" /\ mgr'.report = Report(wk'.copy)
               /\ obj' = wk'.copy
      BY <3>1, <3>5 DEF ReportInv
    <3>6. CASE /\ wk'.copy.strategy = "unlock_required" /\ mgr'.report = Report(wk'.copy)
               /\ obj' = obj /\ ~wk'.wait
      <4>1. mgr'.report = Unlock
        <5>1. wk'.copy.reconciled = FALSE
          BY <2>0, <2>00, <2>3, <3>2, ResizeSteps DEF SameWants, ObjectType
        <5> QED
          BY <3>6, <5>1 DEF Report, Unlock
      <4>2. mgr'.report = Report(obj) \/ obj.strategy = "not_required"
        <5>1. obj.reconciled = FALSE /\ obj.strategy \in Strategies
          BY <1>0, <3>2 DEF ObjectType, Strategies
        <5> QED
          BY <4>1, <5>1 DEF Report, Unlock, Strategies
      <4> QED
        BY <3>1, <3>2, <3>6, <4>1, <4>2 DEF ReportInv, Ending
    <3> QED
      BY <2>0, <2>3, <3>4, <3>5, <3>6, ResizeSteps
  <2>4. CASE SystemReady
    <3>1. wk.pc = "ready" /\ mgr'.report = mgr.report /\ UNCHANGED <<obj, mon>>
      BY <2>4, ReadySteps
    <3>2. CASE wk'.pc = "idle" /\ queued'
      <4>1. ~HasCopy' /\ ~Ending'
        BY <3>2, PhasesDef DEF HasCopy, Ending
      <4> QED
        BY <3>1, <3>2, <4>1 DEF ReportInv, Observed
    <3>3. CASE /\ wk'.pc = "status" /\ wk'.copy = wk.copy /\ wk'.ok = wk.ok /\ wk'.wait = wk.wait
               /\ queued' = queued
      BY <3>1, <3>3, EndingDef, PhasesDef DEF ReportInv, Observed, HasCopy, Ending
    <3> QED
      BY <2>4, <3>2, <3>3, ReadySteps
  <2>5. CASE StatusUpdate
    <3>1. wk.pc = "status" /\ wk'.pc = "idle" /\ ~HasCopy' /\ ~Ending' /\ mon' = mon /\ Ending
      BY <2>0, <2>5, StatusSteps, PhasesDef DEF HasCopy, Ending
    <3>2. CASE wk.ok /\ ~wk.copy.reconciled
      <4>1. mgr'.report = AllDone
        BY <2>0, <2>5, <3>2, StatusSteps
      <4>2. CASE obj' = obj /\ queued'
        BY <2>0, <3>1, <3>2, <4>1, <4>2 DEF ReportInv
      <4>3. CASE Report(obj') = AllDone
        BY <3>1, <4>1, <4>3 DEF ReportInv
      <4> QED
        BY <2>0, <2>5, <3>2, <4>2, <4>3, StatusSteps
    <3>3. CASE ~(wk.ok /\ ~wk.copy.reconciled)
      <4>1. mgr' = mgr /\ (~wk.ok /\ ~wk.wait => queued') /\ (queued => queued')
        BY <1>2, <2>0, <2>5, <3>3, StatusSteps, LateSteps
      <4>2. \/ /\ Report(obj') = Report(obj) /\ obj'.strategy = obj.strategy
               /\ obj'.reconciled = obj.reconciled /\ (Observed' => Observed)
            \/ /\ Report(obj') = mgr.report /\ ~wk.ok /\ ~wk.wait
        <5>1. CASE obj' = obj
          BY <5>1 DEF Observed
        <5>2. CASE fresh /\ SameWants(obj', wk.copy) /\ obj'.strategy = wk.copy.strategy
          <6>1. Observed /\ obj'.reconciled = obj.reconciled /\ Report(obj') = Report(wk.copy)
            BY <2>0, <5>2 DEF SameWants, Report
          <6>2. CASE wk.copy.strategy = obj.strategy
            BY <5>2, <6>1, <6>2 DEF Report
          <6>3. CASE wk.copy.strategy # obj.strategy
            BY <1>2, <6>1, <6>3 DEF ReportInv
          <6> QED
            BY <6>2, <6>3
        <5> QED
          BY <2>0, <2>5, <3>3, <5>1, <5>2, StatusSteps
      <4>3. CASE /\ Report(obj') = Report(obj) /\ obj'.strategy = obj.strategy
                 /\ obj'.reconciled = obj.reconciled /\ (Observed' => Observed)
        <5>1. CASE wk.wait
          BY <3>1, <4>1, <4>3, <5>1 DEF ReportInv
        <5>2. CASE ~wk.ok /\ ~wk.wait
          BY <3>1, <4>1, <4>3, <5>2 DEF ReportInv
        <5>3. CASE wk.ok
          <6>1. obj.reconciled
            BY <2>0, <3>3, <5>3
          <6>2. queued \/ mgr.report \in {NoReport, Report(obj)}
            BY <2>0, <6>1 DEF ReportInv
          <6> QED
            BY <3>1, <4>1, <4>3, <6>2 DEF ReportInv
        <5> QED
          BY <5>1, <5>2, <5>3
      <4>4. CASE Report(obj') = mgr.report
        BY <3>1, <4>1, <4>4 DEF ReportInv
      <4> QED
        BY <4>2, <4>3, <4>4
    <3> QED
      BY <3>2, <3>3
  <2> QED
    BY <1>2, <2>1, <2>2, <2>3, <2>4, <2>5, LateActions
<1>3. CASE MonitorFires \/ ResizeEnds \/ Happens \/ UNCHANGED vars
  <2>1. Observed' => Observed
    BY <1>0, <1>3, OtherSteps DEF Observed, SameStatus, DayTwoInv
  <2>2. Report(obj') = Report(obj) /\ obj'.strategy = obj.strategy
        /\ obj'.reconciled = obj.reconciled /\ (queued => queued')
    BY <1>3, OtherSteps DEF SameStatus, Report
  <2>3. CASE wk' = wk /\ mgr' = mgr /\ (mon' = mon \/ queued')
    BY <2>1, <2>2, <2>3 DEF ReportInv, HasCopy, Ending
  <2>4. CASE wk' = NoWork /\ queued' /\ mgr'.report = NoReport
    <3>1. wk'.pc = "idle" /\ ~HasCopy' /\ ~Ending'
      BY <2>4, PhasesDef DEF NoWork, HasCopy, Ending
    <3> QED
      BY <2>4, <3>1 DEF ReportInv
  <2> QED
    BY <1>3, <2>3, <2>4, OtherSteps
<1> QED
  BY <1>1, <1>2, <1>3 DEF Next

\* In day 2 the manager knows what the status says whenever Reconcile is at rest, for
\* every sequence of changes, faults, restarts and resizes.
THEOREM ReportKept == Spec /\ StartsInDayTwo => []ReportMatches
<1> DEFINE Inv == TypeInv /\ DefaultsInv /\ DayTwoInv /\ CopyInv /\ WorkInv /\ FsInv /\ ReportInv
<1>1. Init /\ StartsInDayTwo => Inv
  <2> SUFFICES ASSUME Init, StartsInDayTwo PROVE Inv
    OBVIOUS
  <2>1. TypeInv
    BY InitTyped
  <2>2. DefaultsInv
    BY CasesAssumption, PhasesDef
       DEF Init, NoWork, DefaultsInv, DefaultsAreOriginal, HasCopy, Started, Collected
  <2>3. wk.pc = "idle" /\ queued = TRUE /\ mgr.report = NoReport
    BY DEF Init, NoWork
  <2>4. ~HasCopy /\ ~Ending /\ wk.pc \notin LatePCs /\ wk.pc \notin Stages
    BY <2>3, PhasesDef, StagesDef DEF HasCopy, Ending, LatePCs
  <2>5. DayTwoInv /\ CopyInv
    BY <2>3, <2>4 DEF StartsInDayTwo, DayTwoInv, CopyInv
  <2>6. WorkInv
    BY <2>3, <2>4 DEF WorkInv
  <2>7. FsInv
    BY <2>3, <2>4 DEF StartsInDayTwo, FsInv, FsDesired, FsStages, NoReport
  <2>8. ReportInv
    BY <2>3, <2>4 DEF ReportInv
  <2> QED
    BY <2>1, <2>2, <2>5, <2>6, <2>7, <2>8
<1>2. Inv /\ [Next]_vars => Inv'
  BY StepTyped, StepDefaults, StepDayTwo, StepCopy, StepWork, StepFsStages, StepFsDesired,
     StepReport DEF FsInv
<1>3. Inv => ReportMatches
  BY DEF ReportInv, ReportMatches
<1> QED
  BY <1>1, <1>2, <1>3, PTL DEF Spec
====
