--------------------------- MODULE SystemReconciler ---------------------------
(***************************************************************************)
(* The System controller (internal/controller/system/system_controller.go  *)
(* and monitors.go): from the System object to the settings of the system. *)
(*                                                                         *)
(* Reconcile prepares the status, takes a snapshot of the system, merges   *)
(* the object's specification over the defaults that were collected first, *)
(* and calls the sub-reconcilers one after the other.  When the first ten  *)
(* are done the other controllers may start (SetSystemReady), although the *)
(* file systems may have to wait for the controllers to be unlocked.       *)
(*                                                                         *)
(* Simplifications.  A setting has one value, 0 if it is not given or does *)
(* not exist.  The value of a certificate or a license is its secret.      *)
(* The strategy monitor is in Strategy, the platform client in             *)
(* PlatformClient.  Reads from the cache do not fail.  An error of         *)
(* installRootCertificates is retried as one of PopulateSystemInfo is,     *)
(* which comes next, and stands for both.                                  *)
(***************************************************************************)
EXTENDS Naturals, Sequences, FiniteSets

CONSTANTS
  Names,   \* of certificates, licenses, storage backends and secrets
  Cases    \* systems, objects and what happens to them

VARIABLES
  simplex,   \* the system has one controller
  obj,       \* the System object
  queued,    \* it is in the work queue
  fresh,     \* the worker's copy is the latest version
  sys,       \* the settings of the system
  env,       \* the secrets, and how many controllers are available
  mgr,       \* the manager: ready, whether the others were notified, and the report
  factory,   \* the factory install ConfigMap
  mon,       \* the monitor of the object
  wk,        \* the worker
  later,     \* what the user, or the system, does yet
  faults     \* how many requests may still fail

vars == <<simplex, obj, queued, fresh, sys, env, mgr, factory, mon, wk, later, faults>>

-----------------------------------------------------------------------------
(* Settings.                                                               *)

Values == {"attributes", "drbd", "dns", "ntp", "ptp"}
Kube == {"k1", "k2"}                \* parameters of kube_apiserver
DefaultParameters == {"d"}
Parameters == Kube \cup DefaultParameters
FileSystems == {"f1", "f2", "f3"}

NoSettings ==
  [val |-> [k \in Values |-> 0], certs |-> {}, deprecated |-> {}, license |-> "none",
   params |-> [p \in Parameters |-> 0], backends |-> {}, fs |-> [f \in FileSystems |-> 0]]
NoDefaults == [NoSettings EXCEPT !.license = "nothing collected"]

\* MergeSystemSpecs: what the object does not give is taken from the defaults.
Over(d, s) == [k \in DOMAIN d |-> IF s[k] # 0 THEN s[k] ELSE d[k]]
MergeSystemSpecs(d, s) ==
  [s EXCEPT !.val = Over(d.val, s.val), !.params = Over(d.params, s.params),
            !.fs = Over(d.fs, s.fs), !.certs = @ \cup d.certs, !.backends = @ \cup d.backends]

\* NewSystemSpec, and what DeepEqual compares; certificates that were installed at
\* run time are left out.
Differences(s, i) ==
  {k \in Values : s.val[k] # i.val[k]} \cup {p \in Parameters : s.params[p] # i.params[p]}
  \cup {f \in FileSystems : s.fs[f] # i.fs[f]} \cup (s.certs \ i.certs)
  \cup (IF s.backends = i.backends THEN {} ELSE {"backends"})

-----------------------------------------------------------------------------
NewObject(spec, asked) ==
  [spec |-> spec, gen |-> 1, asked |-> asked, after |-> "none", scope |-> "bootstrap",
   observed |-> 0, reconciled |-> FALSE, inSync |-> FALSE, updated |-> FALSE,
   strategy |-> "not_required", delta |-> {}, defaults |-> NoDefaults]

NoReport == [reconciled |-> FALSE, strategy |-> "none"]
NoWork == [pc |-> "idle"]

-----------------------------------------------------------------------------
(* What a case is: values of the right types, and a system whose history   *)
(* agrees with what was collected of it.                                   *)

Licenses == Names \cup {"none", "nothing collected"}
Scopes == {"bootstrap", "principal"}

\* Of reconcile-after-insync: "day2" is the "true" that the controller has put there,
\* the other two are the user's.
UserAnnotations == {"true", "other"}
Annotations == UserAnnotations \cup {"none", "day2"}
Deltas == Values \cup Parameters \cup FileSystems \cup Names \cup {"backends"}

SettingsType ==
  [val : [Values -> Nat], certs : SUBSET Names, deprecated : SUBSET Names, license : Licenses,
   params : [Parameters -> Nat], backends : SUBSET Names, fs : [FileSystems -> Nat]]
ObjectType ==
  [spec : SettingsType, gen : Nat, asked : Scopes, after : Annotations, scope : Scopes,
   observed : Nat, reconciled : BOOLEAN, inSync : BOOLEAN, updated : BOOLEAN,
   strategy : {"not_required", "unlock_required"}, delta : SUBSET Deltas,
   defaults : SettingsType]
SystemType ==
  [set : SettingsType, first : SettingsType, resizing : SUBSET FileSystems,
   running : [Kube -> Nat]]
EnvType == [secrets : SUBSET Names, nodes : Nat]
FactoryType == [on : BOOLEAN, reconciled : BOOLEAN, default : BOOLEAN]
ActType ==
  [kind : {"spec"}, value : SettingsType] \cup [kind : {"nodes"}, value : Nat]
  \cup [kind : {"scope"}, value : Scopes] \cup [kind : {"secret"}, value : Names]
  \cup [kind : {"annotate"}, value : UserAnnotations]
  \cup [kind : {"factoryEnds", "restart"}, value : {0}]

\* Outside a factory install that has yet to collect them, the defaults are those of
\* this system, and it was not changed before they were collected.  A certificate is
\* not removed.
ASSUME CasesAssumption ==
  \A c \in Cases :
    /\ c.simplex \in BOOLEAN /\ c.obj \in ObjectType /\ c.sys \in SystemType
    /\ c.env \in EnvType /\ c.factory \in FactoryType /\ c.later \in Seq(ActType)
    /\ c.faults \in Nat
    /\ c.sys.first # NoDefaults /\ c.sys.first.certs \subseteq c.sys.set.certs
    /\ ~c.factory.on \/ c.factory.default => c.obj.defaults \in {NoDefaults, c.sys.first}
    /\ c.sys.set # c.sys.first =>
         c.obj.defaults = c.sys.first /\ (c.factory.on => c.factory.default)

Init ==
  \E c \in Cases :
    /\ simplex = c.simplex /\ obj = c.obj /\ sys = c.sys /\ env = c.env
    /\ factory = c.factory /\ later = c.later /\ faults = c.faults
    /\ queued = TRUE /\ fresh = FALSE /\ mon = "none" /\ wk = NoWork
    /\ mgr = [ready |-> FALSE, notified |-> FALSE, report |-> NoReport]

NoFault == UNCHANGED faults
Fault == faults > 0 /\ faults' = faults - 1

\* The worker's copy is written if it is fresh; the object is then offered again.
Write(new) ==
  fresh /\ NoFault /\ obj' = new /\ queued' = (queued \/ new # obj) /\ UNCHANGED fresh
WriteFails == (Fault \/ (NoFault /\ ~fresh)) /\ UNCHANGED <<obj, fresh>>

\* RetryOnConflict reads the object again before it writes.
ReadAndWrite(new) == NoFault /\ obj' = new /\ queued' = (queued \/ new # obj) /\ fresh' = TRUE

Goto(pc) == wk' = [wk EXCEPT !.pc = pc]
Retry == wk' = NoWork /\ queued' = TRUE

-----------------------------------------------------------------------------
(* Reconcile: the status.                                                  *)

\* Fetch, CancelMonitor, UpdateDeploymentScope.
FetchInstance ==
  /\ wk.pc = "idle" /\ queued
  /\ mon' = "none" /\ UNCHANGED <<simplex, sys, env, mgr, factory, later>>
  /\ LET new == [obj EXCEPT !.scope = obj.asked] IN
       \/ /\ NoFault /\ obj' = new /\ fresh' = TRUE /\ queued' = (new # obj)
          /\ wk' = [pc |-> "factory"]
       \/ new # obj /\ Fault /\ Retry /\ UNCHANGED <<obj, fresh>>

\* UpdateStatusForFactoryInstall: once in a factory install.
UpdateStatusForFactoryInstall ==
  /\ wk.pc = "factory"
  /\ UNCHANGED <<simplex, sys, env, mgr, factory, mon, later>>
  /\ IF factory.on /\ ~factory.reconciled
     THEN \/ Write([obj EXCEPT !.reconciled = FALSE]) /\ Goto("factoryFlag")
          \/ WriteFails /\ Retry
     ELSE NoFault /\ Goto("clean") /\ UNCHANGED <<obj, queued, fresh>>

SetFactoryReconciledUpdated ==
  /\ wk.pc = "factoryFlag"
  /\ UNCHANGED <<simplex, obj, fresh, sys, env, mgr, mon, later>>
  /\ \/ NoFault /\ factory' = [factory EXCEPT !.reconciled = TRUE] /\ Goto("clean")
        /\ UNCHANGED queued
     \/ Fault /\ Retry /\ UNCHANGED factory

\* Certificates that are not of type ssl_ca are removed from the specification.
cleanDeprecatedCerts ==
  /\ wk.pc = "clean"
  /\ UNCHANGED <<simplex, sys, env, mgr, factory, mon, later>>
  /\ IF obj.spec.deprecated # {}
     THEN \/ Write([obj EXCEPT !.spec.deprecated = {}, !.gen = @ + 1]) /\ Goto("annotation")
          \/ WriteFails /\ Retry
     ELSE NoFault /\ Goto("annotation") /\ UNCHANGED <<obj, queued, fresh>>

\* Mutant of AfterInSync: the annotation of day 2 is never taken back.
AfterInSyncForEver(o) == IF o.scope = "principal" THEN "day2" ELSE o.after

\* The annotation reconcile-after-insync: "true" in day 2.  In day 1 only this value is
\* taken away.
AfterInSync(o) ==
  CASE o.scope = "principal" /\ o.after \notin {"day2", "true"} -> "day2"
    [] o.scope # "principal" /\ o.after \in {"day2", "true"} -> "none"
    [] OTHER -> o.after

UpdateAnnotation ==
  /\ wk.pc = "annotation"
  /\ UNCHANGED <<simplex, sys, env, mgr, factory, mon, later>>
  /\ \/ ReadAndWrite([obj EXCEPT !.after = AfterInSync(obj)]) /\ Goto("config")
     \/ Fault /\ Retry /\ UNCHANGED <<obj, fresh>>

\* Mutant of Observe: a strategy that was asked for stays.
ObserveKeepingStrategy(o) ==
  IF o.observed = o.gen THEN o
  ELSE [o EXCEPT !.observed = o.gen, !.updated = TRUE,
                 !.reconciled = o.reconciled /\ o.scope # "principal"]

\* A new generation; not after an upgrade of the deployment manager.
Observe(o) ==
  IF o.observed = o.gen THEN o
  ELSE LET new == [o EXCEPT !.observed = o.gen, !.strategy = "not_required"] IN
       IF o.observed = 0 /\ o.reconciled THEN [new EXCEPT !.updated = FALSE]
       ELSE [new EXCEPT !.updated = TRUE,
                        !.reconciled = o.reconciled /\ o.scope # "principal"]

Report(o) == [reconciled |-> o.reconciled, strategy |-> o.strategy]

\* The manager is told before the status is saved.
UpdateConfigStatus ==
  /\ wk.pc = "config"
  /\ UNCHANGED <<simplex, sys, env, factory, mon, later>>
  /\ LET new == Observe(obj)
         told == new.observed # obj.observed /\ new.updated /\ obj.scope = "principal" IN
     /\ mgr' = IF told THEN [mgr EXCEPT !.report = [reconciled |-> new.reconciled,
                                                    strategy |-> "not_required"]] ELSE mgr
     /\ \/ ReadAndWrite(new) /\ wk' = [pc |-> "populate", copy |-> new]
        \/ Fault /\ Retry /\ UNCHANGED <<obj, fresh>>

-----------------------------------------------------------------------------
(* ReconcileResource.                                                      *)

\* PopulateSystemInfo takes the snapshot.
PopulateSystemInfo ==
  /\ wk.pc = "populate"
  /\ UNCHANGED <<simplex, obj, fresh, sys, env, mgr, factory, mon, later>>
  /\ \/ /\ NoFault /\ UNCHANGED queued
        /\ wk' = [pc |-> "defaults", copy |-> wk.copy, info |-> sys, nodes |-> 0,
                  spec |-> NoSettings, done |-> {}, kube |-> FALSE,
                  ready |-> FALSE, ok |-> FALSE, wait |-> FALSE]
     \/ Fault /\ Retry

\* Mutant of BuildSystemDefaults: an error of the save is only logged.
DefaultsUnsaved ==
  /\ wk.pc = "defaults"
  /\ LET due == wk.copy.defaults = NoDefaults \/ (factory.on /\ ~factory.default) IN
     /\ IF due /\ fresh THEN Write([wk.copy EXCEPT !.defaults = wk.info.set])
        ELSE NoFault /\ UNCHANGED <<obj, queued, fresh>>
     /\ wk' = [wk EXCEPT !.pc = IF due /\ factory.on THEN "defaultFlag" ELSE "merge",
                         !.copy.defaults = IF due THEN wk.info.set ELSE @]
  /\ UNCHANGED <<simplex, sys, env, mgr, factory, mon, later>>

\* The defaults are collected when there are none, and again in a factory install.
BuildSystemDefaults ==
  /\ wk.pc = "defaults"
  /\ UNCHANGED <<simplex, sys, env, mgr, factory, mon, later>>
  /\ LET new == [wk.copy EXCEPT !.defaults = wk.info.set] IN
     IF wk.copy.defaults = NoDefaults \/ (factory.on /\ ~factory.default)
     THEN \/ /\ Write(new)
             /\ wk' = [wk EXCEPT !.copy = new,
                                 !.pc = IF factory.on THEN "defaultFlag" ELSE "merge"]
          \/ WriteFails /\ Retry
     ELSE NoFault /\ Goto("merge") /\ UNCHANGED <<obj, queued, fresh>>

SetFactoryDefaultUpdated ==
  /\ wk.pc = "defaultFlag"
  /\ UNCHANGED <<simplex, obj, fresh, sys, env, mgr, mon, later>>
  /\ \/ NoFault /\ factory' = [factory EXCEPT !.default = TRUE] /\ Goto("merge")
        /\ UNCHANGED queued
     \/ Fault /\ Retry /\ UNCHANGED factory

\* GetCertificateSignatures and MergeSystemSpecs.  The secret of a certificate must
\* be there.
Merge ==
  /\ wk.pc = "merge" /\ NoFault
  /\ UNCHANGED <<simplex, obj, fresh, sys, env, mgr, factory, mon, later>>
  /\ IF wk.copy.spec.certs \subseteq env.secrets
     THEN /\ wk' = [wk EXCEPT !.pc = "compare",
                              !.spec = MergeSystemSpecs(wk.copy.defaults, wk.copy.spec)]
          /\ UNCHANGED queued
     ELSE Retry

\* Whatever its value, the annotation lets changes through.
ReconcileRequired(o) == ~o.reconciled \/ o.after # "none"

\* ReconcileRequired and SetInstanceDelta: the status is saved if the delta has
\* changed; an error of that is only logged.
Compare ==
  /\ wk.pc = "compare"
  /\ UNCHANGED <<simplex, sys, env, mgr, factory, mon, later>>
  /\ LET o == wk.copy
         diff == Differences(wk.spec, wk.info.set)
         new == IF o.reconciled THEN [o EXCEPT !.inSync = (diff = {}), !.delta = diff] ELSE o
         next == [wk EXCEPT !.pc = IF ReconcileRequired(o) THEN "attributes" ELSE "ready",
                            !.ready = o.reconciled, !.ok = ~ReconcileRequired(o),
                            !.copy = new] IN
       \/ /\ new.delta = o.delta /\ NoFault /\ wk' = next
          /\ UNCHANGED <<obj, queued, fresh>>
       \/ new.delta # o.delta /\ Write(new) /\ wk' = next
       \/ new.delta # o.delta /\ WriteFails /\ UNCHANGED queued /\ wk' = next

-----------------------------------------------------------------------------
(* The sub-reconcilers.                                                    *)

\* ReconcileSystemInitial, ReconcileSystemFinal.
Calls == <<"attributes", "certificates", "license", "drbd", "dns", "ntp", "ptp", "parameters",
           "staleParameters", "apply", "backends", "hosts", "fileSystems", "resize",
           "staleFileSystems", "ready">>
Stages == {Calls[i] : i \in 1..(Len(Calls) - 1)}
After(s) == Calls[1 + CHOOSE i \in 1..Len(Calls) : Calls[i] = s]

S == wk.spec
I == wk.info.set

Changed(f, g) == {k \in DOMAIN f : f[k] # 0 /\ f[k] # g[k]}
Growing == {f \in FileSystems : I.fs[f] # 0 /\ S.fs[f] > I.fs[f]}

\* kubernetesServiceParametersInSpec
kubernetesServiceParametersInSpec == \E p \in Kube : wk.copy.spec.params[p] # 0

\* What each sub-reconciler has to request.  A list of servers, a timeout, a contact
\* is compared as a whole.
Differs(k) == IF S.val[k] # I.val[k] THEN {k} ELSE {}
ReconcileSystemAttributes == Differs("attributes")
ReconcileDRBD == Differs("drbd")
ReconcileDNS == Differs("dns")
ReconcileNTP == Differs("ntp")
ReconcilePTP == Differs("ptp")

\* A certificate whose secret has gone is passed over.
ReconcileCertificates == (S.certs \cap env.secrets) \ I.certs
ReconcileLicense ==
  IF S.license = "none" \/ (S.license = I.license /\ S.license \in env.secrets) THEN {}
  ELSE {S.license}
ReconcileStorageBackends == S.backends \ I.backends

\* Parameters are created or changed, those that are not wanted are deleted, and
\* those of the API server are applied.
ReconcileServiceParameters == Changed(S.params, I.params)
StaleServiceParameters == {p \in Parameters : I.params[p] # 0 /\ S.params[p] = 0}
ApplyServiceParameters ==
  IF wk.kube /\ kubernetesServiceParametersInSpec THEN {"kube"} ELSE {}

\* File systems are created, those that grow are resized in one request, and one that
\* exists is deleted if nothing else is wanted.
ReconcileFileSystems == {f \in FileSystems : S.fs[f] # 0 /\ I.fs[f] = 0}
ResizeFileSystems == IF Growing = {} THEN {} ELSE {Growing}
StaleFileSystems ==
  {f \in FileSystems : I.fs[f] # 0 /\ \A g \in FileSystems : S.fs[g] # 0 => g = f}

Items ==
  CASE wk.pc = "attributes" -> ReconcileSystemAttributes
    [] wk.pc = "certificates" -> ReconcileCertificates
    [] wk.pc = "license" -> ReconcileLicense
    [] wk.pc = "drbd" -> ReconcileDRBD
    [] wk.pc = "dns" -> ReconcileDNS
    [] wk.pc = "ntp" -> ReconcileNTP
    [] wk.pc = "ptp" -> ReconcilePTP
    [] wk.pc = "parameters" -> ReconcileServiceParameters
    [] wk.pc = "staleParameters" -> StaleServiceParameters
    [] wk.pc = "apply" -> ApplyServiceParameters
    [] wk.pc = "backends" -> ReconcileStorageBackends
    [] wk.pc = "hosts" -> {}
    [] wk.pc = "fileSystems" -> ReconcileFileSystems
    [] wk.pc = "resize" -> ResizeFileSystems
    [] wk.pc = "staleFileSystems" -> StaleFileSystems

\* The request fails in any case: a secret is missing, or a parameter is a default.
Impossible(i) ==
  \/ wk.pc = "license" /\ i \notin env.secrets
  \/ wk.pc = "staleParameters" /\ i \in DefaultParameters

\* The system does not resize a file system that it is resizing.
Accepted(i) == ~Impossible(i) /\ (wk.pc = "resize" => i \cap sys.resizing = {})

Apply(i) ==
  LET s == sys.set IN
  CASE wk.pc \in Values -> [sys EXCEPT !.set.val[i] = S.val[i]]
    [] wk.pc = "certificates" -> [sys EXCEPT !.set.certs = @ \cup {i}]
    [] wk.pc = "license" -> [sys EXCEPT !.set.license = i]
    [] wk.pc = "parameters" -> [sys EXCEPT !.set.params[i] = S.params[i]]
    [] wk.pc = "staleParameters" -> [sys EXCEPT !.set.params[i] = 0]
    [] wk.pc = "apply" -> [sys EXCEPT !.running = [p \in Kube |-> s.params[p]]]
    [] wk.pc = "backends" -> [sys EXCEPT !.set.backends = @ \cup {i}]
    [] wk.pc = "fileSystems" -> [sys EXCEPT !.set.fs[i] = S.fs[i]]
    [] wk.pc = "resize" ->
         [sys EXCEPT !.set.fs = [f \in FileSystems |-> IF f \in i THEN S.fs[f] ELSE s.fs[f]],
                     !.resizing = @ \cup i]
    [] wk.pc = "staleFileSystems" -> [sys EXCEPT !.set.fs[i] = 0]

Final == {"hosts", "fileSystems", "resize", "staleFileSystems"}

\* Mutant of ReadyOnError: what has begun is enough.
ReadyWhenBegun == TRUE

\* ReconcileSystem: an error in the final part lets the others go on.
ReadyOnError == wk.copy.reconciled \/ wk.pc \in Final

Fails == wk' = [wk EXCEPT !.pc = "ready", !.done = {}, !.ok = FALSE, !.ready = ReadyOnError]

ControllerNodesAvailable(nodes) == nodes >= IF simplex THEN 1 ELSE 2

\* FileSystemResizeAllowed; creations that come first in the list may be done.
Barred == wk.pc = "fileSystems" /\ Growing # {}
          /\ (~ControllerNodesAvailable(wk.nodes) \/ Growing \cap wk.info.resizing # {})

\* A request of a sub-reconciler; the answer may be lost.
Request ==
  /\ wk.pc \in Stages
  /\ UNCHANGED <<simplex, obj, queued, fresh, env, mgr, factory, mon, later>>
  /\ \E i \in Items \ wk.done :
       \/ /\ NoFault /\ Accepted(i) /\ sys' = Apply(i)
          /\ wk' = [wk EXCEPT !.done = @ \cup {i},
                              !.kube = @ \/ (wk.pc = "parameters" /\ i \in Kube)]
       \/ NoFault /\ ~Accepted(i) /\ UNCHANGED sys /\ Fails
       \/ Fault /\ Fails /\ (UNCHANGED sys \/ (Accepted(i) /\ sys' = Apply(i)))

\* The sub-reconciler is done; what it has changed is read again.  ListHosts is
\* called before the file systems.
Advance ==
  /\ wk.pc \in Stages /\ Items \subseteq wk.done /\ ~Barred
  /\ UNCHANGED <<simplex, obj, queued, fresh, sys, env, mgr, factory, mon, later>>
  /\ \/ /\ NoFault
        /\ wk' = [wk EXCEPT !.pc = After(wk.pc), !.done = {},
                            !.info.set = sys.set,
                            !.nodes = IF wk.pc = "hosts" THEN env.nodes ELSE @,
                            !.ready = After(wk.pc) = "ready", !.ok = After(wk.pc) = "ready"]
     \/ Fault /\ (wk.done # {} \/ wk.pc = "hosts") /\ Fails

\* FileSystemResizeAllowed has to wait: in day 2 for a strategy that unlocks.
FileSystemResizeAllowed ==
  /\ Barred
  /\ UNCHANGED <<simplex, sys, env, factory, later>>
  /\ LET strategic == ~ControllerNodesAvailable(wk.nodes) /\ wk.copy.scope = "principal"
         new == IF strategic THEN [wk.copy EXCEPT !.strategy = "unlock_required"] ELSE wk.copy
         waits == [wk EXCEPT !.pc = "ready", !.ready = TRUE, !.wait = TRUE, !.done = {},
                             !.copy = new] IN
     /\ mgr' = IF strategic THEN [mgr EXCEPT !.report = Report(new)] ELSE mgr
     /\ \/ /\ IF strategic THEN Write(new) ELSE NoFault /\ UNCHANGED <<obj, queued, fresh>>
           /\ mon' = IF ControllerNodesAvailable(wk.nodes) THEN "resize" ELSE "controllers"
           /\ wk' = waits
        \/ strategic /\ WriteFails /\ UNCHANGED <<queued, mon>>
           /\ wk' = [waits EXCEPT !.wait = FALSE]

-----------------------------------------------------------------------------
(* The end of ReconcileResource.                                           *)

\* SetSystemReady and NotifySystemDependencies, which is reverted if it fails.
SystemReady ==
  /\ wk.pc = "ready"
  /\ UNCHANGED <<simplex, obj, fresh, sys, env, factory, mon, later>>
  /\ LET due == wk.ready /\ ~mgr.ready IN
       \/ /\ NoFault /\ Goto("status") /\ UNCHANGED queued
          /\ mgr' = IF due THEN [mgr EXCEPT !.ready = TRUE, !.notified = TRUE] ELSE mgr
       \/ due /\ Fault /\ Retry /\ UNCHANGED mgr

\* Mutant of statusUpdateRequired: the strategy stays after it was carried out.
StatusKeepingStrategy(o, inSync) ==
  [o EXCEPT !.inSync = inSync, !.reconciled = @ \/ inSync, !.updated = @ /\ ~inSync]

statusUpdateRequired(o, inSync) ==
  IF inSync /\ ~o.reconciled
  THEN [o EXCEPT !.inSync = TRUE, !.reconciled = TRUE, !.updated = FALSE,
                 !.strategy = "not_required"]
  ELSE [o EXCEPT !.inSync = inSync]

\* An error that is not a wait is retried.
StatusUpdate ==
  /\ wk.pc = "status"
  /\ UNCHANGED <<simplex, sys, env, factory, mon, later>>
  /\ LET new == statusUpdateRequired(wk.copy, wk.ok)
         told == new.reconciled # wk.copy.reconciled /\ new.scope = "principal" IN
     /\ mgr' = IF told THEN [mgr EXCEPT !.report = Report(new)] ELSE mgr
     /\ \/ /\ new # wk.copy => fresh
           /\ NoFault /\ wk' = NoWork /\ UNCHANGED fresh
           /\ obj' = IF new # wk.copy THEN new ELSE obj
           /\ queued' = (queued \/ obj' # obj \/ (~wk.ok /\ ~wk.wait))
        \/ new # wk.copy /\ WriteFails /\ Retry

Reconcile ==
  \/ FetchInstance \/ UpdateStatusForFactoryInstall \/ SetFactoryReconciledUpdated
  \/ cleanDeprecatedCerts \/ UpdateAnnotation \/ UpdateConfigStatus \/ PopulateSystemInfo
  \/ BuildSystemDefaults \/ SetFactoryDefaultUpdated \/ Merge \/ Compare \/ Request \/ Advance
  \/ FileSystemResizeAllowed \/ SystemReady \/ StatusUpdate

-----------------------------------------------------------------------------
(* Monitors, the user and the system.                                      *)

MonitorFires ==
  /\ \/ mon = "controllers" /\ ControllerNodesAvailable(env.nodes)
     \/ mon = "resize" /\ sys.resizing = {}
  /\ mon' = "none" /\ queued' = TRUE
  /\ UNCHANGED <<simplex, obj, fresh, sys, env, mgr, factory, wk, later, faults>>

ResizeEnds ==
  /\ sys.resizing # {} /\ sys' = [sys EXCEPT !.resizing = {}]
  /\ UNCHANGED <<simplex, obj, queued, fresh, env, mgr, factory, mon, wk, later, faults>>

UserWrites(new) == obj' = new /\ queued' = TRUE /\ fresh' = FALSE

\* The next thing that the user does, or that happens to the system.  A factory
\* install ends when a host is enabled, which takes a system that is ready.
Happens ==
  /\ later # <<>> /\ later' = Tail(later)
  /\ UNCHANGED <<simplex, sys, faults>>
  /\ LET e == Head(later) IN
     \/ /\ e.kind = "spec" /\ UserWrites([obj EXCEPT !.spec = e.value, !.gen = @ + 1])
        /\ UNCHANGED <<env, mgr, factory, mon, wk>>
     \/ /\ e.kind = "scope" /\ UserWrites([obj EXCEPT !.asked = e.value])
        /\ UNCHANGED <<env, mgr, factory, mon, wk>>
     \/ /\ e.kind = "annotate" /\ UserWrites([obj EXCEPT !.after = e.value])
        /\ UNCHANGED <<env, mgr, factory, mon, wk>>
     \/ /\ e.kind = "secret" /\ env' = [env EXCEPT !.secrets = @ \cup {e.value}]
        /\ UNCHANGED <<obj, queued, fresh, mgr, factory, mon, wk>>
     \/ /\ e.kind = "nodes" /\ env' = [env EXCEPT !.nodes = e.value]
        /\ UNCHANGED <<obj, queued, fresh, mgr, factory, mon, wk>>
     \/ /\ e.kind = "factoryEnds" /\ mgr.ready /\ factory' = [factory EXCEPT !.on = FALSE]
        /\ UNCHANGED <<obj, queued, fresh, env, mgr, mon, wk>>
     \/ /\ e.kind = "restart" /\ wk' = NoWork /\ queued' = TRUE /\ mon' = "none"
        /\ fresh' = FALSE
        /\ mgr' = [ready |-> FALSE, notified |-> FALSE, report |-> NoReport]
        /\ UNCHANGED <<obj, env, factory>>

Next == Reconcile \/ MonitorFires \/ ResizeEnds \/ Happens

Spec ==
  /\ Init /\ [][Next]_vars
  /\ WF_vars(Reconcile) /\ WF_vars(MonitorFires) /\ WF_vars(ResizeEnds) /\ WF_vars(Happens)

-----------------------------------------------------------------------------
(* Properties.                                                             *)

InitialDone(s, i) ==
  /\ i.val = s.val /\ i.params = s.params /\ s.certs \subseteq i.certs
  /\ s.backends \subseteq i.backends /\ s.license \in {"none", i.license}

\* The other controllers may start only when what does not depend on hosts is
\* configured, or was in an earlier life of the process, whichever requests fail
\* and however often Reconcile starts over.
ReadyMeansConfigured ==
  [][~mgr.ready /\ mgr'.ready => wk.copy.reconciled \/ InitialDone(wk.spec, sys.set)]_vars

\* A system that was reconciled is not changed any more in day 1, whatever scopes it
\* has been through: "Do not process any further changes once we have reached a
\* synchronized state unless there is an annotation on the resource".  The annotation
\* is one of the user, as Reconcile has read it; the one that the controller gave the
\* object in day 2 does not count any more.
RefusesChanges ==
  [][sys'.set # sys.set => \/ ~wk.copy.reconciled \/ wk.copy.scope = "principal"
                           \/ wk.copy.after \in UserAnnotations]_vars

\* The defaults are the settings before the first change of the user, although the
\* save and the flag of a factory install may fail after they were collected.
DefaultsAreOriginal ==
  ~factory.on \/ factory.default => obj.defaults \in {NoDefaults, sys.first}

\* When Reconcile is at rest, the manager has been told what the status says: it
\* builds strategies from the report, and the status is what survives.  While file
\* systems are resized the manager may know more, when the status that asked for the
\* unlock could not be saved.  For a user who stays in day 2 and an object that was
\* not taken over from an earlier deployment manager; README.md, section 4, has the
\* two histories that leave an old report behind.
ReportMatches ==
  /\ wk.pc = "idle" /\ ~queued /\ mgr.report # NoReport /\ obj.scope = "principal"
  => \/ mgr.report = Report(obj)
     \/ mon = "resize" /\ obj.strategy = "not_required"

Aligned ==
  LET s == MergeSystemSpecs(obj.defaults, obj.spec) IN
  InitialDone(s, sys.set) /\ \A f \in FileSystems : sys.set.fs[f] >= s.fs[f]

\* Once the user has stopped and secrets and controllers are there: the system is
\* ready, the object is reconciled, no strategy is asked for, and the settings are
\* those of the object, except that changes in day 1 come too late if no annotation
\* of the user lets them through.  (InSync may be out of date: Compare changes it in
\* the copy and StatusUpdate sees no difference.)
Converges ==
  <>[](/\ mgr.ready /\ obj.reconciled /\ obj.strategy = "not_required"
       /\ obj.scope = "principal" \/ obj.gen = 1 \/ obj.after # "none" => Aligned)
====
