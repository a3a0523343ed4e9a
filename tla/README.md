# Verification of the Cloud Platform Deployment Manager

The Deployment Manager (DM) is a Kubernetes operator. Users describe a StarlingX
system as custom resources; the DM's controllers bring the target system to that
state through its System API, and for Day-2 changes that need hosts to be locked
it asks the VIM (the system's orchestrator) for a *strategy*.

This directory holds TLA+ models of the parts of the DM in which processes,
failures and orderings meet, TLC configurations that check them on small
instances, and TLAPS proofs of what matters most for instances of any size.

## 1. The system

| Component | State | Operations | Interaction |
|---|---|---|---|
| **PlatformManager** (`internal/controller/manager`), a singleton shared by all controllers | `systems[namespace]` (client, ready flag), `monitors`, `strategyStatus`, `vimClient`, `WaitForStrategySent`, a mutex | accessors under the mutex; `ClearStrategy`, `GetVimClient`, `StartStrategyMonitor` without it | called by every controller and every goroutine |
| **Strategy manager** (`manager.go`, `monitor.go`) | `StrategyStatus`; `System.Status.StrategyApplied` and `StrategyRetryCount` in Kubernetes; the strategy in the VIM | `SetResourceInfo`, `StrategyRequiredMonitor` → `ManageStrategy` → `monitorStrategyState`, `ClearStrategy` | controllers report; a goroutine polls every 15 s and talks to the VIM; the System controller resumes it |
| **Monitor framework** (`monitor.go`) | one goroutine and one map entry per waiting object | `StartMonitor`, `CancelMonitor`, `Start`, `notify` | replaces polling in Reconcile: the reconciler returns *never retry* and the goroutine wakes it by an annotation |
| **Platform client / ready hand-shake** | `client`, `ready`, the dependents' work queues | `BuildPlatformClient`, `ResetPlatformClient`, `SetSystemReady`, `NotifySystemDependencies`, `HandleReconcilerError` | the System controller builds and declares ready, any controller resets |
| **System controller** | `System` CR status | `Reconcile`, `ReconcileResource`, `ReconcileSystem` | master of the client and of the ready flag |
| **Host controller** (`host/`) | `Host` CR status, the list of hosts | new/existing/deleted host, reconcile by administrative state, sub-reconcilers for attributes, networking and storage, Ceph groups | reports to the strategy manager, starts monitors |
| **Platform networks and address pools** | CR status, a flag in the manager | the two controllers notify the host of the active controller, whose Reconcile brings all networks and pools to the system | shares the host controller's worker; makes hosts `lock_required` |
| **Host profile controller** | none | notifies the hosts whose profile chain changed | writes an annotation of the host |
| **Resource controllers** (data network, PTP instance and interface) | CR status, finalizer | create, update, delete in the System API | wait for client and ready flag; report |
| **Factory install** | a ConfigMap | `GetFactoryInstall`, `SetFactoryConfigFinalized`, per-resource flags | every controller reads and writes it |
| **Webhooks, deployctl, API constructors** | none | validation, conversion | sequential |

One worker serves each controller; the eight controllers, the monitors and the
strategy goroutine run concurrently. What is hard: the manager's mutex does not
cover whole operations (test, then act), two operations bypass it, notifications
are Kubernetes updates that can fail, results of *never retry* depend on someone
else's wake-up, and a container restart can fall between any two requests.

The properties that make each part correct are the invariants and temporal
properties below. The hazards they are aimed at, each at its line of the source,
are listed in `PROJECT.json`.

## 2. Modules

| Module | Models | State and actions |
|---|---|---|
| `Strategy` | the strategy manager | Variables are the fields of `StrategyStatus`, the manager's own fields, each goroutine's program counter and locals, the VIM's strategy and the two fields of `System.Status`. One action per lock-protected call, per VIM request and per status write. |
| `WaitStates` | what the monitor framework promises | for each object: not waiting, watched, or offered to the reconciler again |
| `MonitorFramework` | wait states of a reconciler; implements `WaitStates` | objects (UIDs), work queue, worker, `m.monitors`, goroutines with their stop channel; actions follow `Reconcile` (fetch, cancel, body, start, return) and `Monitor.Start`'s loop (terminate, wake, run, notify). |
| `PlatformClient` | client and ready hand-shake, error handler | client (`nil`, working, broken), ready flag, one worker per dependent and one for the System; actions follow the gates of `Reconcile`, `ReconcileResource` of the System, `notifyControllers`, `ResetPlatformClient`. |
| `ResourceController` | Reconcile of one DataNetwork, PtpInstance or PtpInterface (`Kind`) against its resource in the System API | the object (spec, generation, finalizer, annotation, status), the copy Reconcile holds and whether it is still current, the resource, the report; one action per request to Kubernetes or to the System API, each of which may fail, conflict, or succeed with its answer lost; the user, an operator of the system and restarts come between any two. |
| `HostReconciler` | the life of one Host object and its host, the host profile controller, the factory install flags | the object, Reconcile's copy, the two snapshots it takes of the host (`seen`, `snap`), the host's administrative and availability state, the VIM's progress, the monitor by kind; one action per request. |
| `SubReconciler` | how a sub-reconciler of a host works | the order of the calls of `ReconcileDisabledHost` and `ReconcileEnabledHost`; compare, one request per difference, read the lists again, end at the first error |
| `HostNetworking`, `HostStorage` | `networking.go`, `storage.go` | the system's interfaces, networks, addresses and routes (file systems, volume groups, partitions, OSDs), the lists in `hostInfo`, the profile; what the system refuses |
| `HostConfig` | both composed, with the other settings of a host | the profile may be replaced at any point; the host is unlocked when all is done |
| `PlatformNetworks` | the platform network and address pool controllers and the pass of the active host | objects, associations and pools in the system, the workers of three controllers, which copies are current, the notification flag, the controllers' strategies |
| `SystemReconciler` | the System controller | the object, the settings of the system, the snapshot, the merged specification, secrets, available controllers, report, ready, factory install flags; one action per request |
| `MC...` | instances of the above for TLC | |
| `StrategyProofs`, `MonitorProofs`, `PlatformClientProofs`, `ResourceProofs`, `HostProofs`, `HostConfigProofs`, `NetworkProofs`, `SystemProofs` | theorems about the module of that name | inductive invariants, lemmas, theorems (section 4) |

Each module's header says what one step is and what is simplified. The
definitions named `...` *Mutant of X* are plausible faults of X; they are used
by no specification, and show that the properties can fail.

How the modules meet. The controllers share little state: the report to the
strategy manager, `StrategyRequired` in a status, the client with its ready flag,
and monitors. `Strategy` takes any order of reports, of which those that
`HostReconciler`, `SystemReconciler` and `ResourceController` make are examples;
`HostReconciler` takes a VIM that locks and unlocks what was reported, as
`Strategy` asks it to. `PlatformClient` has the gates every Reconcile passes
first, and the other modules begin behind them. `MonitorFramework` shows that a
monitor may be taken for one that fires once its condition holds, which is how
`HostReconciler`, `HostConfig` and `SystemReconciler` use it. `HostReconciler`
applies the attributes of a class by one request; `HostConfig` has the requests.

A Go `range` over a map that another goroutine writes may visit an added key or
not, and the runtime may also stop the process ("concurrent map iteration and
map write"): `SetResourceInfoEnd` lets every running scan see the key or not,
and `Restart`, possible at any moment, is the other outcome.

## 3. Runs

| Run | Checks | Instance |
|---|---|---|
| `StrategyRace` | `TypeOK`, `StartedMonitorAlive`, `RequestMatchesReports` | one host, two goroutines, lost requests |
| `StrategyLive` | `SentIsFinished`, `GivesUp` | one goroutine, configuration version up to 1, one restart, fair scheduling |
| `StrategyUnmonitored` | `ListedIsMonitored`: violated | two goroutines, configuration version up to 1 |
| `Monitor` | `TypeOK`, `NoLostWakeup`, `SingleMonitor`, `ImplementsWaitStates`, `WaitEnds` | one object, two goroutines, two faults, one restart, fair scheduling |
| `Client` | `TypeOK`, `NoMissedReady`, `UnreadyIsRetried`, `ClientRecovers`, `DependentsServed` | two dependents, two faults, one restart, fair scheduling; the notification of the System itself does not fail |
| `ResourcePtp` | `TypeOK`, `QuietIsSettled`, `NoChangeAfterReconciled` | a PTP instance, two services, one parameter, both scopes, three values of the user's annotation, two generations, two faults, one deletion by an operator, one restart |
| `ResourceLive` | `BusyIsReported`, `Converges` | a data network of one type, two parameters, the principal scope, two faults, one restart, fair scheduling |
| `Host` | `TypeOK`, `UnlockIsConfigured`, `NeverStranded`, `Converges`, `RefusesChanges`, `FinalizerHolds` | one host, three specs, both scopes, any one of: a request that fails or whose answer is lost, a change of spec, scope, annotation, profile or base profile, a deletion, an operator who locks or unlocks, a lost host, a restart; fair scheduling |
| `HostDelete` | `DeletionEnds`: violated | scope bootstrap, a deletion |
| `HostConfig` | `InOrder`, `Converges`, `FitsStays` | three ports, three other interfaces, six histories of up to three profiles on systems that differ in the order of their lists, in what a journal is named by and in where journals lie, two faults |
| `PlatformNetworks` | `OnePoolPerFamily`, `StatusHolds`, `ReconfiguresAllowed`, `DualStackOrder`, `Converges` | fourteen systems with up to two networks and four pools, up to four acts of the user, up to two faults |
| `System` | `DefaultsAreOriginal`, `ReportMatches`, `ReadyMeansConfigured`, `RefusesChanges`, `Converges` | seven histories with up to four acts, up to two faults |

What they show:

* *Strategies.* `MonitorStarted` has a goroutine behind it; a request asks for
  what the reports need; a strategy that was sent is brought to its end; a VIM
  that refuses everything makes the manager give up.
* *Waiting.* No order of starting, cancelling, polling, notifying, failing and
  deleting loses a wake-up, and each step is one of `WaitStates`. No dependent
  sleeps through the moment the system becomes ready.
* *Resources.* An idle controller has told the truth in the status; a reconciled
  object is left alone outside Day-2 operation, unless the user's annotation says
  otherwise.
* *Hosts.* The VIM does not unlock a host whose new out-of-service configuration
  is not there yet, whenever the change came in Day-2 operation, in the host or in
  the profile it names (in bootstrap a new profile leaves a strategy that is required
  alone, and so does a changed base profile everywhere). A host that is not done has
  somebody who wakes it. The requests of a pass, and of the pass after one that
  failed half-way, are in an order the system accepts, but for three requests that
  `InOrder` names with the systems and profiles for which they may be refused; what
  already fits is not torn down on the way.
* *Networks.* A network never has two pools of one family, even between the
  requests of a switch; the status the pass writes is not written over a newer
  specification, and is true of all but an optional address that was removed; what
  may not be reconfigured is not.
* *System.* Defaults are those of the system as it was found, whatever fails
  between collecting and saving them; the other controllers start only behind
  the initial settings; changes that come too late are refused, unless the user's
  annotation asks for them.

Bounds. Two goroutines are the least that let a finished goroutine's
`ClearStrategy` meet another's pass; a third adds no new pair. The version and
restarts are in `StrategyLive`, with one goroutine; the theorems have all of it at
once. Two monitor
goroutines are one that was told to stop and one started after it for the same
object. Two dependents are needed for a notification that fails after another
succeeded. Two types and two generations are needed for a replacement, two
faults for a request that fails again when it is repeated. In `Host` one
disturbance at any of the points of Reconcile, on top of the VIM and the
maintenance system, which act all the time, gives about 2.1 million states; the
three specs are one with defaults only, one that changes both classes of
attributes and is provisioned dynamically, one that stays locked. The profiles
of `HostConfig` are chosen so that every sub-reconciler creates, changes and
removes something, that something lies on what is removed, and that a change is
made in service. The cases of `PlatformNetworks` cover every branch of the
routing by system type, scope and network type; those of `System` every
sub-reconciler, both scopes and both system types. Version counters, retry
counts, faults, events and restarts are bounded by named constants or by the
list of acts of a case. The proofs do not depend on the bounds.

Deadlock is not checked where the system comes to rest when the user has: a
`Host`, a System, networks and profiles that are done.

Fairness. The Go runtime runs every goroutine; `sync.Mutex` is not starved (its
starvation mode hands the lock over), hence strong fairness for goroutines that
need it; the work queue offers what it holds, and each controller's worker goes
on with the Reconcile it began. The VIM is assumed to work on a strategy it
accepted, the maintenance system to bring a host that was locked or unlocked to
its next state, partitions and clusters to become ready. Reports, user events,
restarts and lost requests are not promised, with one exception: in
`PlatformNetworks` and `System` the acts of a case do happen, because a secret or
a controller that never comes is waited for for ever. In `PlatformNetworks` the
retries every second and every twenty seconds of two controllers that share a
flag, and updates that conflict with a pass that is under way again and again,
need strong fairness: the periods differ, so that the flag is found clear in the
end. No fairness is assumed of requests succeeding; they fail boundedly often.

## 4. Proofs

TLAPS proves, for any sets of resources, goroutines, objects and dependents and
any limits allowed by the modules' `ConstantsAssumption`:

* `StrategyProofs`: `TypeCorrect`, `StartedAlive`, `RequestsMatch`. The last
  one needs an inductive invariant: for each goroutine whose list is up to date,
  what its scan has collected so far is exactly what the *visited* entries need,
  no visited entry is busy (`ScanInv`), and a goroutine past the scan has
  visited all (`PassInv`). `RequestMatchesReports` alone says nothing in the
  middle of a scan and is not inductive.
* `MonitorProofs`: `TypeCorrect`, `WakeupNotLost`, `MonitorSingle`,
  `WaitStatesImplemented`. The invariant `MapInv` ties goroutines to the map
  (every goroutine that was not told to stop is the entry of its object, and
  while the worker is past its cancel the object has no entry); `WaitInv` ties
  parked objects to them. The refinement maps an object that is parked to
  *offered* if it is in the queue or at the worker and to *watched* otherwise,
  and shows step by step that every action is a step of `WaitStates` or leaves
  the mapped state alone; that a waiting object is watched needs `WaitInv`.
* `PlatformClientProofs`: `TypeCorrect`, `ReadyNotMissed`, `UnreadyRetried`. The
  invariant adds to the two properties that only created dependents are parked
  and what the System's program counter says of the flag.
* `ResourceProofs`: `TypeCorrect`, `ReconciledLeftAlone` (the action property
  `NoChangeAfterReconciled`), `QuietSettled` (`QuietIsSettled`) and `BusyReported`
  (`BusyIsReported`), for every kind of resource; with them every safety property of
  `ResourceController` is proved. Reconcile decides on a copy of the object that the
  user may have made stale, so the property is about the object and the guard
  about the copy. `CopyOK` relates the two: the parts only the controller writes
  (scope and reconciled flag of the status) agree throughout a Reconcile, and past the
  annotation step the annotation that the controller writes in day 2 is present only in
  the principal scope; one of the user may be anywhere, which the property excepts. `Allowed` says
  that a step about to change the resource was reached with a copy that is not
  `Blocked`. `IdsOK` (a resource that is
  modified was found, and no new one gets the identifier 0) is what types need.
  `QuietSettled` rests on `FreshOK` (whatever changed since the read is queued, so
  that a Reconcile that ends with an empty queue has worked on the object itself),
  `SeenOK` (such a Reconcile found scope, generation and finalizer as it would have
  written them), `ErrorOK` (which errors are possible where) and `ResourceOK` (the
  resource and the parameters still to add and to remove make up the copy's spec; at
  the status without an error nothing is left). `BusyReported` adds that a
  generation is observed after it was made, that Reconcile works for the one that is
  observed (`ObservedOK`, `WorkOK`), and that a pass which is changing the resource
  has been reported as well as an object the resource does not match (`BusyOK`). Its
  hypothesis `OnlyDay2` is the one the property's comment gives: a change that was
  observed in bootstrap is not reported when the scope changes.
* `HostProofs`: `HostTyped`, `ChangesRefused` (the action property
  `RefusesChanges`), `FinalizerKept`, `Awake` (`NeverStranded`) and
  `UnlockConfigured`, for any specs, scopes and events and any number of them;
  `TypeOK` is itself proved with the invariant, because a host is given a value
  only after the defaults are known. `CopyInv`: the status of Reconcile's copy is
  that of the object throughout, the rest while no one else has written it;
  `DecisionInv`: the branch that was taken is the one for the snapshot and the
  copy. `DeleteInv` and `IdsInv` follow a host that is deleted until its object
  goes; identifiers that are not used again keep a host of the same name that
  appears meanwhile apart. `WakeInv` says for each step of Reconcile who will wake
  the object if it ends there. `UnlockConfigured` needs most: which generation of
  the object and of its profiles the controller has observed (`GenInv`,
  `ProfileInv`, `CurrentInv`), what it knows of the host (`KnownInv`), and the
  claim both for the object and for the copy that is about to be saved
  (`UnlockInv`). A host that was locked when the pass began is not found unlocked
  later in it (`SeenInv`), so that no pass takes a strategy for carried out that was
  not. The theorem has no hypothesis: the property itself excepts a changed base profile
  and a host that was added again (section 5). `AnnotInv`, for `ChangesRefused`: from
  `UpdateAnnotation` on, the annotation of day 2 is that of an object in day 2.
* `HostConfigProofs`: `FittingKept` (the action property `FitsStays`), for any
  ports, identifiers, profiles and faults. The sub-reconcilers decide by look-ups in
  lists that are older than the system they change, so the invariants say how far the
  lists can be trusted at each stage. `ListInv`: from `PopulateHostInfo` on they agree
  with the interfaces, except in the middle of a sub-reconciler that changes
  some, and with addresses and routes until the first interface is changed.
  `DeleteInv`: while interfaces are deleted, those that are left are listed as they
  are; so the chains of look-ups find what the profile has for an interface that
  fits (lemma `FindsConfigured`), and neither it nor what lies on it looks stale.
  `UpdateInv`: while they are updated, every entry is of an interface that is there,
  of its kind, and each identifier is listed once. `PortInv`: Ethernet interfaces have
  their new names before bonds are looked up by their members' names. `BondInv` and `RenameInv`: every bond has the
  members that some profile gave it, and while bonds are updated a listed one was left
  alone or given to a bond of the profile with a member in common. `SystemInv` is what
  the system sees to (names, addresses and destinations are used once). Of storage,
  volumes of groups that stay and OSDs that fit, journal included (`OSDFits`), are kept. The
  hypothesis `BondsStayWhole`: no profile splits a bond of another one (section 5). Every
  history of the run satisfies it.
* `NetworkProofs`: `OnePoolKept`, `StacksOrdered` (`DualStackOrder`),
  `ReconfiguredWhereAllowed` (`ReconfiguresAllowed`), `PoolStatusKept`,
  `StatusKept` (`StatusHolds`); with them every safety property of `PlatformNetworks` is
  proved, for any networks, pools, histories and faults. `LinksInv` holds between
  any two requests. `StepInv` has what a decision of the pass still stands on when
  the request is sent: the OAM network cannot lose its second pool between the
  check and the request of another network, since the pass works on one network at
  a time. `PoolInv`: as long as the pass's copy of a pool is current, or the pool is
  observed and settled, the copy has its specification; and the controller
  records a generation only after the status of the one before was withdrawn.
  `NetworkInv` is the same for networks. What a request leaves in the system is a value
  that `Matches` the specification (lemma `SentMatches`), an address that was left out
  being kept. Two theorems have hypotheses.
  `ReconfiguredWhereAllowed` assumes that no two networks are given the same pool
  (`Unshared`; `UnsharedInv` follows uses through objects, copies, associations and
  what the user has yet to do): a shared pool is changed for the network that may
  be reconfigured, whatever the other one is. `StatusKept` assumes that
  a network the user changes had a generation recorded before (`Known`, see
  section 5). All cases of the run satisfy both.
* `SystemProofs`: `DefaultsKept` (`DefaultsAreOriginal`), `ReconciledSystemKept`
  (`RefusesChanges`), `ReadyConfigured` (`ReadyMeansConfigured`), `ReportKept`
  (`ReportMatches`); with them every safety property of `SystemReconciler` is
  proved. `DefaultsInv`:
  nothing is changed, and nobody is told to start, before the defaults are saved;
  and since only Reconcile writes them its copy of them is right even if the copy
  is stale. `AnnotationInv`: the annotation that the controller gives the object is there
  in day 2 only, from `UpdateAnnotation` until Reconcile returns; one of the user is
  excepted by the property. `ProgressInv`: the system
  is what Reconcile read, but for the requests it has made since (`InStage`), and
  the sub-reconcilers it has passed have done their work (`Achieved`); the position
  in the list of calls orders them.
  `ReportKept` has the hypothesis `StartsInDayTwo`, on the initial state and what the
  user will do: the scope stays principal, and an object that is reconciled was so
  under this deployment manager. The cases `DayTwo`, `Again` and `Restarts` of the
  run satisfy it. Outside it an old report can be left behind, in two ways: (1) the
  user leaves day 2 while a *not reconciled* report is out, the object is reconciled
  in bootstrap, where nothing is reported, and the user returns; (2) an object that
  was taken over (reconciled, observed generation 0) asks for a file system to grow
  while a controller is locked: `unlock_required` is reported, its save fails, and
  the later pass that ends well finds `reconciled` set already and reports nothing.
  The property speaks of Reconcile at rest; what makes it inductive is what it says
  in between. `DayTwoInv`: an object at rest has its generation observed. `CopyInv`:
  the copy has what only the controller writes, and the user's part as long as no
  update is queued. `WorkInv`: the specification and the outcome of the pass belong
  to the copy. `FsInv`: an object that is reconciled, or was reported to be, has the
  file systems it wants, which is why a later pass of the same generation never asks
  for an unlock again. `ReportInv`: a report that differs from the status is one
  whose save failed, it is the one the pass will make again, and the object is queued or
  a monitor of the resize is out.

Assumptions on cases. `PlatformNetworks` and `SystemReconciler` start from any
case their `CasesAssumption` admits: values of the right types, and a system that
an earlier deployment manager can have left. For networks: the system associates
only networks it has, with one pool of a family (the System API refuses others),
and a status that says *in sync* for the observed generation is true. For the
System: outside a factory install that has yet to collect them, the defaults are
those of this system, it was not changed before they were collected, and
certificates are not removed. `HostConfig` takes well-formed profiles
(`ProfilesAssumption`: bonds have Ethernet members, a VLAN or VF lies on one
interface that is no VLAN or VF, a disk has one OSD), and identifiers of new
interfaces are not those of ports (`IdentifiersAssumption`). TLC evaluates the
assumptions on the cases of the runs.

Only model-checked:

* liveness, which is out of the prover's reach (`SentIsFinished`, `GivesUp`,
  `WaitEnds`, `ClientRecovers`, `DependentsServed`, the `Converges` of each module,
  `DeletionEnds`);
* `InOrder` of `HostConfig`: that the system refuses nothing depends on what each
  profile changes relative to *every* state that the ones before it can have left
  half-applied. Two interfaces may not swap names, a member may not move between two
  bonds that stay, an address may not be taken from under a route that stays. The
  run's histories are of this kind; a hypothesis that says so for every history
  would restate what the system accepts.

## 5. Where the code departs from its comments

With a run and a finding in `PROJECT.json`:

1. A report can be listed with no monitor (`StrategyUnmonitored`).
2. The object of a host that has gone from the system, or of a finished host in
   scope bootstrap, is never released (`HostDelete`).

Seen in the models, with no run of their own; they bound what the passing runs
may claim, and the properties name them where they matter.

* *Strategy manager.* `ClearStrategy` forgets the namespace, so that a process
  without VIM client cannot build one any more (hence `vimClient` in
  `SentIsFinished`), and drops reports made since the strategy was built (hence
  `ReportLost` in `HostReconciler`). A stale read of `StrategyApplied` sets
  `StrategySent` with no strategy. A report does not survive a restart and is not
  made when only the scope changes (hence the conditions of `BusyIsReported`).
* *The annotation.* All controllers let a reconciled object be changed in scope
  bootstrap if `ReconcileAfterInSync` is *present*; when the scope is bootstrap they
  take it away only if its value is `"true"`, the one they write in day 2. An annotation
  of the user with another value, or one that comes after it was taken away, lets changes
  through, as the comments want (hence the user's annotations in
  `NoChangeAfterReconciled` and in both `RefusesChanges`).
* *Client.* When the update that notifies the System fails, a client that was
  reset is not rebuilt until an unrelated event (hence the instance of `Client`).
* *Resources.* A PTP instance that is replaced has no finalizer until the next
  Reconcile: if its object is deleted then, the resource stays. A failed removal
  of a finalizer is not repeated. A data network whose type changes while it is
  created, and a replacement that loses an answer half-way, are retried for ever
  (hence the instance of `ResourceLive`).
* *Host.* A change of `InSync` alone is not saved, because the copy is changed
  before it is compared. The defaults are collected again after the identifier
  is first recorded. The state-change monitor takes what it polls first for the
  state that was recorded. A strategy that was asked for in scope principal is
  withdrawn without the manager being told when the scope goes back. Locking and
  unlocking may alternate for a host that is to be locked after such a change;
  `Converges` is stated for hosts that are to be unlocked. A changed base profile
  notifies the host, but only the generation of the profile that the host names is
  compared, so that neither `Reconciled` nor a strategy is reset (hence `chain.base` in
  `UnlockIsConfigured`). A host that an operator deletes and adds again inherits the
  `unlock_required` of the one before it (hence `host.id = 1` there).
* *Host configuration.* Stale interfaces and OSDs are deleted in the order in
  which the system lists them; where a bond comes before the VLAN on it the
  system refuses, pass after pass (hence `system.uppersFirst` in `InOrder` and
  `Converges`). `osdUpdateRequired` sends a journal's path where `buildOSDOpts` sends its
  identifier (hence `system.takesPaths`). Of two groups with partitions of one size on a
  disk the second takes the partition that the first has just used, and is refused until
  the lists are read again (hence `TwinPartitions`). Two interfaces cannot
  swap names, nor a member move between two bonds that both stay. Bonds are told by
  their members (`platform/info.go:467`: "This may not handle all cases"): when a
  profile has two bonds in place of one, with members of it each, both are taken for
  that one in the pass: it is updated to the first, and at once again to the
  second (hence `BondsStayWhole`).
* *Platform networks.* A change of scope that finds the flag taken is not
  notified again (hence `ScopeSeen`). On systems other than AIO-SX an OAM network
  that is given a pool which needs no update is never associated with it; a
  switch back to a pool that is still in the system is one such case. A cluster
  network whose IPv4 pool is replaced by a single IPv6 pool gets a second stack.
  `ensurePoolsComplete` applies a change that was refused, if the pool also lacks
  an address. For an optional address that the user removes nothing is sent, and the
  status says *in sync* (hence `Matches` in `StatusHolds`). While a pool is missing and
  all else is in sync, Reconcile of every host ends in an error, and no pass runs. A network that the pass reconciles before its controller has recorded
  its first generation is, when the user then changes it, taken for one of an
  earlier deployment manager (`platformnetwork_controller.go:187`): `Reconciled` is
  not reset, and the status says *in sync* until the next pass, which in scope
  bootstrap does not come (hence `Known` in `NetworkProofs`).
* *System.* Whether kube_apiserver parameters must be applied is forgotten when
  the pass fails in between. The test for stale file systems is inverted, so that
  they stay (hence *at least as large* in `Aligned`). A change of `InSync` alone
  is not saved. Removing a default parameter is a user error for ever.

## 6. Not modelled

* The Ceph primary group: which storage hosts come up first takes several hosts
  that are reconciled together, and `HostReconciler` has one. The same holds for
  several hosts that share the factory install ConfigMap.
* `UpdateStatusForFactoryInstall` of the resource and network controllers,
  which has the form that `SystemReconciler` and `HostReconciler` have.
* Reinstallation of a host and the credentials of its board management. The
  addresses of a pool are one value.
* In `ResourceController`, the update of `Status.Delta` in the middle of Reconcile, a
  text for the user.
* In `HostNetworking`, networks on more than one interface of a host
  (`platform/info.go:757` takes the first association with a network's name), networks
  and PTP interfaces that a profile names and the system does not have (and the wait for
  them), and the PTP interfaces that are taken from an interface apart from its networks.
  In `HostStorage`, the sizes of journals.
* In `PlatformNetworks`, whether the active host is reconciled when
  `ensurePoolsComplete` runs: it may run at any time.
* Webhooks and the validation of profiles: predicates on one object. The
  instances consist of objects that pass them.
* `deployctl`, the API types and their constructors: sequential conversion.
* Endpoint discovery and authentication (I/O), logging and events, generated
  code.

What would come next: a statement of the changes of a profile that the system accepts,
and with it a proof of `InOrder`; a model of several hosts for the Ceph group and the
factory install flags.
