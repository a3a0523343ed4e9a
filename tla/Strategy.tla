------------------------------- MODULE Strategy -------------------------------
(***************************************************************************)
(* The Day-2 strategy manager of the PlatformManager singleton             *)
(* (internal/controller/manager/manager.go and monitor.go).                *)
(*                                                                         *)
(* Resource controllers report, through SetResourceInfo, whether each      *)
(* resource is reconciled and whether it needs the VIM to lock and unlock  *)
(* hosts.  A goroutine, StrategyRequiredMonitor, polls those reports every *)
(* 15 seconds, asks the VIM for a system-config-update strategy, applies   *)
(* it, watches it and finally wipes the whole StrategyStatus record.       *)
(* The System controller resumes such a monitor when it finds              *)
(* Status.StrategyApplied set, which is how a restarted Deployment Manager *)
(* picks up a strategy that is being applied.                              *)
(*                                                                         *)
(* What a step is.  Every accessor of the manager takes m.lock, so one     *)
(* call of it is one step.  SetResourceInfo is two steps under the lock,   *)
(* because ClearStrategy replaces m.strategyStatus WITHOUT the lock and    *)
(* can fall between them.  StartStrategyMonitor as the System controller   *)
(* calls it (no lock) is two steps: its test and its start.  Every call of *)
(* the VIM and every write of System.Status is a step of its own, so that  *)
(* a restart can fall before or after it.                                  *)
(*                                                                         *)
(* Simplifications.                                                        *)
(*  - A report is one of "busy" (not_required, not reconciled), "settled"  *)
(*    (not_required, reconciled) and "required" (lock_required or          *)
(*    unlock_required): ManageStrategy tells no others apart.  "absent" is *)
(*    a key that is not in the map.                                        *)
(*  - The VIM's strategy states are grouped by what monitorStrategyState   *)
(*    does with them: "building" stands for initial and building,          *)
(*    "applying" for applying and aborting, "failed" for build-failed,     *)
(*    build-timeout, apply-failed, apply-timeout, abort-failed,            *)
(*    abort-timeout and aborted.                                           *)
(*  - One System resource, as the code's comments assume.                  *)
(*  - A started goroutine first sleeps 15 s, so `go` and the assignment of *)
(*    MonitorStarted that follows it are one step.                         *)
(***************************************************************************)
EXTENDS Naturals, FiniteSets

CONSTANTS
  Resources,   \* names of the resources that report
  Kind,        \* Kind[r]: resource type, and personality if it is a host
  Monitors,    \* goroutines that can be alive at once (bounds the model)
  MaxRetry,    \* DefaultMaxStrategyRetryCount
  MaxVersion,  \* bounds configVersion
  RetryCap,    \* bounds the persisted retry count
  MaxRestarts, \* bounds the restarts of the Deployment Manager
  ApiFaults    \* whether Kubernetes and VIM requests may be lost

Kinds == {"system", "controller", "worker", "storage", "other"}

ASSUME ConstantsAssumption ==
  /\ Kind \in [Resources -> Kinds]
  /\ MaxRetry \in Nat
  /\ MaxVersion \in Nat
  /\ RetryCap \in Nat
  /\ MaxRestarts \in Nat
  /\ MaxRetry < RetryCap
  /\ ApiFaults \in BOOLEAN

VARIABLES
  \* StrategyStatus
  resourceInfo,         \* ResourceInfo: the report of each resource
  configVersion,
  monitorVersion,
  strategySent,
  namespaceKnown,       \* Namespace # ""
  monitorStarted,
  \* PlatformManager
  waitForStrategySent,
  vimClient,            \* vimClient # nil
  clientBuilt,          \* m.systems holds the System's namespace
  reporting,            \* the SetResourceInfo call that holds m.lock
  \* the System reconciler, between its read of StrategyApplied and its start
  sysPc,
  \* StrategyRequiredMonitor goroutines
  pc,
  seenVersion,          \* config_version, as ManageStrategy read it
  todo,                 \* keys the range loop has still to visit
  request,              \* apply types that are not "ignore" any more
  detached,             \* goroutines whose map is no longer the manager's
  heldMap,              \* the map such a goroutine still holds
  fresh,                \* history: goroutines whose list no report followed
  \* the VIM
  strategy,
  \* System.Status in Kubernetes
  strategyApplied,
  strategyRetryCount,
  restarts              \* how often the Deployment Manager has restarted

statusVars  == <<resourceInfo, configVersion, monitorVersion, strategySent,
                 namespaceKnown, monitorStarted>>
managerVars == <<waitForStrategySent, vimClient, clientBuilt, reporting>>
scanVars    == <<seenVersion, todo, request, detached, heldMap, fresh>>
systemVars  == <<strategyApplied, strategyRetryCount, restarts>>
vars == <<statusVars, managerVars, sysPc, pc, scanVars, strategy, systemVars>>

Reports   == {"busy", "settled", "required"}
Entries   == Reports \cup {"absent"}
NoInfo    == [r \in Resources |-> "absent"]
ApplyKinds == {"controller", "worker", "storage"}
InProgress == {"building", "applying"}
Finished   == {"failed", "applied"}

\* Where a goroutine can be.  "off" is a goroutine that does not exist.
PCs == {"off", "sleep", "compare", "setVersion", "list", "testSent", "scan", "connect",
        "deleteFinished", "adopt", "create", "created", "createFailed",
        "poll", "apply", "actionSent", "applyFailed", "delete",
        "clearApplied", "reset", "clearRetry"}

NoCall == [name |-> "none", report |-> "settled"]

Keys(map) == {r \in Resources : map[r] # "absent"}

\* ResourceInfo as goroutine m holds it: the manager's map, or the one that
\* ClearStrategy took away from the manager while m held it.
Listed(m) == IF m \in detached THEN heldMap[m] ELSE resourceInfo

\* The reports a controller of resource r sends: only hosts and the System
\* ever set lock_required or unlock_required.
ReportsOf(r) == IF Kind[r] = "other" THEN {"busy", "settled"} ELSE Reports

\* The kinds of resource whose need sets an apply type of the request.
NeededBy == [controller |-> {"system", "controller"},
             worker     |-> {"system", "controller", "worker"},
             storage    |-> {"storage"}]

\* The apply types of the request that a resource of kind k asks for.
ApplyTypes(k) == {type \in ApplyKinds : k \in NeededBy[type]}

LockFree == reporting = NoCall

-----------------------------------------------------------------------------
Init ==
  /\ resourceInfo = NoInfo
  /\ configVersion = 0 /\ monitorVersion = 0
  /\ strategySent = FALSE /\ namespaceKnown = FALSE /\ monitorStarted = FALSE
  /\ waitForStrategySent = FALSE /\ vimClient = FALSE /\ clientBuilt = FALSE
  /\ reporting = NoCall
  /\ sysPc = "idle"
  /\ pc = [m \in Monitors |-> "off"]
  /\ seenVersion = [m \in Monitors |-> 0]
  /\ todo = [m \in Monitors |-> {}]
  /\ request = [m \in Monitors |-> {}]
  /\ detached = {} /\ heldMap = [m \in Monitors |-> NoInfo]
  /\ fresh = {}
  /\ strategy = "none"
  /\ strategyApplied = FALSE /\ strategyRetryCount = 0
  /\ restarts = 0

Goto(m, from, to) == pc[m] = from /\ pc' = [pc EXCEPT ![m] = to]

\* Nobody's list of reports is up to date any more.
Outdate == fresh' = {}

\* go StrategyRequiredMonitor(instance); MonitorStarted = true
StartGoroutine ==
  /\ \E m \in Monitors : Goto(m, "off", "sleep")
  /\ monitorStarted' = TRUE

StartStrategyMonitor ==
  \/ ~monitorStarted /\ StartGoroutine
  \/ monitorStarted /\ UNCHANGED <<pc, monitorStarted>>

-----------------------------------------------------------------------------
(* Resource controllers.                                                   *)
\* Mutant of UpdateConfigVersion: the version counts down.
DecrementConfigVersion ==
  /\ LockFree
  /\ configVersion' = configVersion - 1
  /\ Outdate
  /\ UNCHANGED <<resourceInfo, monitorVersion, strategySent, namespaceKnown,
                 monitorStarted, managerVars, sysPc, pc, seenVersion, todo,
                 request, detached, heldMap, strategy, systemVars>>


UpdateConfigVersion ==
  /\ LockFree
  /\ configVersion < MaxVersion
  /\ configVersion' = configVersion + 1
  /\ Outdate
  /\ UNCHANGED <<resourceInfo, monitorVersion, strategySent, namespaceKnown,
                 monitorStarted, managerVars, sysPc, pc, seenVersion, todo,
                 request, detached, heldMap, strategy, systemVars>>

\* SetResourceInfo up to and including StartStrategyMonitor.
SetResourceInfoBegin(r, report) ==
  /\ LockFree
  /\ reporting' = [name |-> r, report |-> report]
  /\ \/ resourceInfo = NoInfo /\ StartStrategyMonitor
     \/ resourceInfo # NoInfo /\ UNCHANGED <<pc, monitorStarted>>
  /\ UNCHANGED <<resourceInfo, configVersion, monitorVersion, strategySent,
                 namespaceKnown, waitForStrategySent, vimClient, clientBuilt,
                 sysPc, scanVars, strategy, systemVars>>

\* The rest of SetResourceInfo: the entry is updated in place, or added.  A
\* range loop that is under way may or may not visit an added key.
SetResourceInfoEnd ==
  /\ ~LockFree
  /\ resourceInfo' = [resourceInfo EXCEPT ![reporting.name] = reporting.report]
  /\ reporting' = NoCall
  /\ \E late \in SUBSET {m \in Monitors : pc[m] = "scan" /\ m \notin detached} :
       todo' = IF resourceInfo[reporting.name] = "absent"
               THEN [m \in Monitors |-> IF m \in late
                                        THEN todo[m] \cup {reporting.name}
                                        ELSE todo[m]]
               ELSE todo
  /\ Outdate
  /\ UNCHANGED <<configVersion, monitorVersion, strategySent, namespaceKnown,
                 monitorStarted, waitForStrategySent, vimClient, clientBuilt,
                 sysPc, pc, seenVersion, request, detached, heldMap, strategy,
                 systemVars>>

\* LockHostRequestByOtherController: SetStrategyExpectedByOtherReconcilers(true)
ExpectStrategy ==
  /\ LockFree
  /\ ~waitForStrategySent
  /\ waitForStrategySent' = TRUE
  /\ UNCHANGED <<statusVars, vimClient, clientBuilt, reporting, sysPc, pc,
                 scanVars, strategy, systemVars>>

-----------------------------------------------------------------------------
(* The System reconciler.                                                  *)

\* BuildPlatformClient: only the first client of a process records the
\* namespace in StrategyStatus; later ones only replace the client.
BuildPlatformClient ==
  /\ LockFree
  /\ ~clientBuilt
  /\ clientBuilt' = TRUE
  /\ namespaceKnown' = TRUE
  /\ UNCHANGED <<resourceInfo, configVersion, monitorVersion, strategySent,
                 monitorStarted, waitForStrategySent, vimClient, reporting,
                 sysPc, pc, scanVars, strategy, systemVars>>

\* Reconcile has read an instance whose Status.StrategyApplied is set.
SystemReadsApplied ==
  /\ sysPc = "idle" /\ clientBuilt
  /\ strategyApplied
  /\ sysPc' = "applied"
  /\ UNCHANGED <<statusVars, managerVars, pc, scanVars, strategy, systemVars>>

\* r.StrategySent()
SystemSetsSent ==
  /\ sysPc = "applied" /\ LockFree
  /\ strategySent' = TRUE
  /\ sysPc' = "test"
  /\ UNCHANGED <<resourceInfo, configVersion, monitorVersion, namespaceKnown,
                 monitorStarted, managerVars, pc, scanVars, strategy, systemVars>>

\* r.StartStrategyMonitor(), called without the manager's lock: the test ...
SystemTestsStarted ==
  /\ sysPc = "test"
  /\ sysPc' = IF monitorStarted THEN "idle" ELSE "start"
  /\ UNCHANGED <<statusVars, managerVars, pc, scanVars, strategy, systemVars>>

\* ... and the start.
SystemStartsMonitor ==
  /\ sysPc = "start"
  /\ StartGoroutine
  /\ sysPc' = "idle"
  /\ UNCHANGED <<resourceInfo, configVersion, monitorVersion, strategySent,
                 namespaceKnown, managerVars, scanVars, strategy, systemVars>>

-----------------------------------------------------------------------------
(* ManageStrategy: the version gate and the scan of the reports.           *)

\* GetConfigVersion
ReadConfigVersion(m) ==
  /\ LockFree
  /\ Goto(m, "sleep", "compare")
  /\ seenVersion' = [seenVersion EXCEPT ![m] = configVersion]
  /\ UNCHANGED <<statusVars, managerVars, sysPc, todo, request, detached,
                 heldMap, fresh, strategy, systemVars>>

\* GetMonitorVersion
CompareVersion(m) ==
  /\ LockFree
  /\ \/ /\ monitorVersion # seenVersion[m]
        /\ Goto(m, "compare", "setVersion")
        /\ UNCHANGED seenVersion
     \/ /\ monitorVersion = seenVersion[m]
        /\ Goto(m, "compare", "list")
        /\ seenVersion' = [seenVersion EXCEPT ![m] = 0]
  /\ UNCHANGED <<statusVars, managerVars, sysPc, todo, request, detached,
                 heldMap, fresh, strategy, systemVars>>

SetMonitorVersion(m) ==
  /\ LockFree
  /\ Goto(m, "setVersion", "sleep")
  /\ monitorVersion' = seenVersion[m]
  /\ seenVersion' = [seenVersion EXCEPT ![m] = 0]
  /\ UNCHANGED <<resourceInfo, configVersion, strategySent, namespaceKnown,
                 monitorStarted, managerVars, sysPc, todo, request, detached,
                 heldMap, fresh, strategy, systemVars>>

\* GetStrategyRequiredList: the goroutine has the map from here on.
GetStrategyRequiredList(m) ==
  /\ LockFree
  /\ Goto(m, "list", "testSent")
  /\ UNCHANGED <<statusVars, managerVars, sysPc, scanVars, strategy, systemVars>>

\* The goroutine is done with its map.
DropMap(m) ==
  /\ detached' = detached \ {m}
  /\ heldMap' = [heldMap EXCEPT ![m] = NoInfo]

\* GetStrategySent: watch the strategy that was sent, or start the range loop.
TestSent(m) ==
  /\ LockFree
  /\ \/ /\ strategySent
        /\ Goto(m, "testSent", "poll")
        /\ DropMap(m)
        /\ UNCHANGED <<todo, request, fresh>>
     \/ /\ ~strategySent
        /\ Goto(m, "testSent", "scan")
        /\ todo' = [todo EXCEPT ![m] = Keys(Listed(m))]
        /\ request' = [request EXCEPT ![m] = {}]
        /\ fresh' = IF m \in detached THEN fresh ELSE fresh \cup {m}
        /\ UNCHANGED <<detached, heldMap>>
  /\ UNCHANGED <<statusVars, managerVars, sysPc, seenVersion, strategy,
                 systemVars>>

\* Mutant of ScanEntry: a resource under reconcile is skipped.
ScanSkipsBusy(m) ==
  /\ pc[m] = "scan"
  /\ \E r \in todo[m] :
       /\ todo' = [todo EXCEPT ![m] = @ \ {r}]
       /\ request' = [request EXCEPT ![m] =
              IF Listed(m)[r] = "required" THEN @ \cup ApplyTypes(Kind[r])
                                           ELSE @]
  /\ UNCHANGED <<statusVars, managerVars, sysPc, pc, seenVersion, detached,
                 heldMap, fresh, strategy, systemVars>>

\* One iteration of the range loop.
ScanEntry(m) ==
  /\ pc[m] = "scan"
  /\ \E r \in todo[m] :
       \/ /\ Listed(m)[r] = "busy"
          /\ Goto(m, "scan", "sleep")
          /\ todo' = [todo EXCEPT ![m] = {}]
          /\ request' = [request EXCEPT ![m] = {}]
          /\ DropMap(m)
          /\ fresh' = fresh \ {m}
       \/ /\ Listed(m)[r] # "busy"
          /\ todo' = [todo EXCEPT ![m] = @ \ {r}]
          /\ request' = [request EXCEPT ![m] =
                 IF Listed(m)[r] = "required" THEN @ \cup ApplyTypes(Kind[r])
                                              ELSE @]
          /\ UNCHANGED <<pc, detached, heldMap, fresh>>
  /\ UNCHANGED <<statusVars, managerVars, sysPc, seenVersion, strategy,
                 systemVars>>

\* The loop is over: connect to the VIM if request_needed, else finish.
ScanDone(m) ==
  /\ todo[m] = {}
  /\ Goto(m, "scan", IF request[m] = {} THEN "clearApplied" ELSE "connect")
  /\ DropMap(m)
  /\ UNCHANGED <<statusVars, managerVars, sysPc, seenVersion, todo, request,
                 fresh, strategy, systemVars>>

-----------------------------------------------------------------------------
(* Requests of the VIM.                                                    *)

\* A pass that ends with `return false` forgets its list and its request.
EndPass(m, from) ==
  /\ Goto(m, from, "sleep")
  /\ request' = [request EXCEPT ![m] = {}]
  /\ fresh' = fresh \ {m}

\* GetVimClient returned nil, or GcShow failed.
VimUnavailable(m) ==
  /\ \/ ~vimClient /\ ~namespaceKnown /\ UNCHANGED vimClient
     \/ ApiFaults /\ ~vimClient /\ namespaceKnown /\ vimClient' \in BOOLEAN
     \/ ApiFaults /\ vimClient /\ UNCHANGED vimClient
  /\ \E from \in {"connect", "poll"} : EndPass(m, from)
  /\ UNCHANGED <<statusVars, waitForStrategySent, clientBuilt, reporting, sysPc,
                 seenVersion, todo, detached, heldMap, strategy,
                 systemVars>>

\* GetVimClient returned a client, built on first use.
VimConnected == (vimClient \/ namespaceKnown) /\ vimClient' = TRUE

\* IsExistingStrategy and IsFinishedStrategy.
FindExistingStrategy(m) ==
  /\ VimConnected
  /\ \/ strategy = "none"    /\ Goto(m, "connect", "create")
     \/ strategy = "applied" /\ Goto(m, "connect", "deleteFinished")
     \/ strategy \notin {"none", "applied"} /\ Goto(m, "connect", "adopt")
  /\ UNCHANGED <<statusVars, waitForStrategySent, clientBuilt, reporting, sysPc,
                 scanVars, strategy, systemVars>>

\* DeleteFinishedStrategy; a request whose answer is lost may have been served.
DeleteFinishedStrategy(m) ==
  /\ \/ /\ Goto(m, "deleteFinished", "create")
        /\ strategy' = "none"
        /\ UNCHANGED <<request, fresh>>
     \/ /\ ApiFaults
        /\ EndPass(m, "deleteFinished")
        /\ strategy' \in {strategy, "none"}
  /\ UNCHANGED <<statusVars, managerVars, sysPc, seenVersion, todo, detached,
                 heldMap, systemVars>>

\* SetStrategyRetryCount(c): the error of a failed write is only logged.
SetStrategyRetryCount(c) ==
  \/ strategyRetryCount' = c
  \/ ApiFaults /\ UNCHANGED strategyRetryCount

\* GetStrategyRetryCount: a failed read yields 0.
RetryCounts == {strategyRetryCount} \cup (IF ApiFaults THEN {0} ELSE {})

\* MonitorExistingStrategy, SetStrategyExpectedByOtherReconcilers(false)
MonitorExistingStrategy(m) ==
  /\ LockFree
  /\ EndPass(m, "adopt")
  /\ strategySent' = TRUE
  /\ SetStrategyRetryCount(0)
  /\ waitForStrategySent' = FALSE
  /\ UNCHANGED <<resourceInfo, configVersion, monitorVersion, namespaceKnown,
                 monitorStarted, vimClient, clientBuilt, reporting, sysPc,
                 seenVersion, todo, detached, heldMap, strategy,
                 strategyApplied, restarts>>

\* GcCreate, SetStrategyExpectedByOtherReconcilers(false).  The VIM refuses a
\* second strategy, and may refuse a first one ("strict" alarm restrictions).
GcCreate(m) ==
  /\ LockFree
  /\ \/ /\ strategy = "none" /\ strategy' = "building"
        /\ Goto(m, "create", "created")
     \/ /\ UNCHANGED strategy
        /\ Goto(m, "create", "createFailed")
     \/ /\ ApiFaults
        /\ strategy = "none" /\ strategy' = "building"
        /\ Goto(m, "create", "createFailed")
  /\ waitForStrategySent' = FALSE
  /\ UNCHANGED <<statusVars, vimClient, clientBuilt, reporting, sysPc, scanVars,
                 systemVars>>

CreateSucceeded(m) ==
  /\ LockFree
  /\ EndPass(m, "created")
  /\ strategySent' = TRUE
  /\ SetStrategyRetryCount(0)
  /\ UNCHANGED <<resourceInfo, configVersion, monitorVersion, namespaceKnown,
                 monitorStarted, managerVars, sysPc, seenVersion, todo,
                 detached, heldMap, strategy, strategyApplied,
                 restarts>>

\* Mutant of CreateFailed: the count is not incremented.
CreateFailedUncounted(m) ==
  /\ Goto(m, "createFailed",
          IF strategyRetryCount > MaxRetry THEN "clearApplied" ELSE "sleep")
  /\ request' = [request EXCEPT ![m] = {}]
  /\ fresh' = fresh \ {m}
  /\ UNCHANGED <<statusVars, managerVars, sysPc, seenVersion, todo, detached,
                 heldMap, strategy, systemVars>>

\* The count is persisted before it is compared.
CreateFailed(m) ==
  /\ \E c \in RetryCounts :
       /\ c < RetryCap
       /\ SetStrategyRetryCount(c + 1)
       /\ Goto(m, "createFailed",
               IF c + 1 > MaxRetry THEN "clearApplied" ELSE "sleep")
  /\ request' = [request EXCEPT ![m] = {}]
  /\ fresh' = fresh \ {m}
  /\ UNCHANGED <<statusVars, managerVars, sysPc, seenVersion, todo, detached,
                 heldMap, strategy, strategyApplied, restarts>>

-----------------------------------------------------------------------------
(* monitorStrategyState.                                                   *)
\* Mutant of PollStrategy: the failed states are not handled.
PollIgnoresFailure(m) ==
  /\ VimConnected
  /\ \/ strategy = "ready-to-apply" /\ Goto(m, "poll", "apply")
     \/ strategy = "applied" /\ Goto(m, "poll", "delete")
     \/ strategy \notin {"ready-to-apply", "applied"} /\ Goto(m, "poll", "sleep")
  /\ UNCHANGED <<statusVars, waitForStrategySent, clientBuilt, reporting, sysPc,
                 scanVars, strategy, systemVars>>


PollStrategy(m) ==
  /\ VimConnected
  /\ \/ strategy = "ready-to-apply" /\ Goto(m, "poll", "apply")
     \/ strategy \in Finished /\ Goto(m, "poll", "delete")
     \/ strategy \in InProgress \cup {"none"} /\ Goto(m, "poll", "sleep")
  /\ UNCHANGED <<statusVars, waitForStrategySent, clientBuilt, reporting, sysPc,
                 scanVars, strategy, systemVars>>

\* GcActionStrategy(apply-all)
ApplyStrategy(m) ==
  /\ \/ /\ strategy = "ready-to-apply" /\ strategy' = "applying"
        /\ Goto(m, "apply", "actionSent")
     \/ /\ UNCHANGED strategy
        /\ Goto(m, "apply", "applyFailed")
     \/ /\ ApiFaults
        /\ strategy = "ready-to-apply" /\ strategy' = "applying"
        /\ Goto(m, "apply", "applyFailed")
  /\ UNCHANGED <<statusVars, managerVars, sysPc, scanVars, systemVars>>

\* SetStrategyAppliedSent(namespace, true), skipped when no namespace is known.
ActionSent(m) ==
  /\ LockFree
  /\ Goto(m, "actionSent", "sleep")
  /\ \/ namespaceKnown /\ strategyApplied' = TRUE
     \/ (ApiFaults \/ ~namespaceKnown) /\ UNCHANGED strategyApplied
  /\ UNCHANGED <<statusVars, managerVars, sysPc, scanVars, strategy,
                 strategyRetryCount, restarts>>

\* Here the count is compared first and persisted only if it is not exceeded.
ApplyFailed(m) ==
  /\ \E c \in RetryCounts :
       \/ /\ c + 1 > MaxRetry
          /\ Goto(m, "applyFailed", "delete")
          /\ UNCHANGED strategyRetryCount
       \/ /\ c + 1 <= MaxRetry
          /\ Goto(m, "applyFailed", "sleep")
          /\ SetStrategyRetryCount(c + 1)
  /\ UNCHANGED <<statusVars, managerVars, sysPc, scanVars, strategy,
                 strategyApplied, restarts>>

\* deleteStrategy: the result is only logged.
DeleteStrategy(m) ==
  /\ Goto(m, "delete", "clearApplied")
  /\ \/ strategy' = "none"
     \/ ApiFaults /\ UNCHANGED strategy
  /\ UNCHANGED <<statusVars, managerVars, sysPc, scanVars, systemVars>>

-----------------------------------------------------------------------------
(* ClearStrategy, which takes no lock.                                     *)

ClearApplied(m) ==
  /\ Goto(m, "clearApplied", "reset")
  /\ \/ strategyApplied' = FALSE
     \/ ApiFaults /\ UNCHANGED strategyApplied
  /\ UNCHANGED <<statusVars, managerVars, sysPc, scanVars, strategy,
                 strategyRetryCount, restarts>>

\* m.strategyStatus = NewStrategyStatus()
NewStrategyStatus ==
  /\ resourceInfo' = NoInfo
  /\ configVersion' = 0 /\ monitorVersion' = 0
  /\ strategySent' = FALSE /\ namespaceKnown' = FALSE /\ monitorStarted' = FALSE

\* Mutant of ClearReset: MonitorStarted is not reset.
ClearKeepsStarted(m) ==
  /\ Goto(m, "reset", "clearRetry")
  /\ resourceInfo' = NoInfo
  /\ configVersion' = 0 /\ monitorVersion' = 0
  /\ strategySent' = FALSE /\ namespaceKnown' = FALSE
  /\ Outdate
  /\ UNCHANGED <<monitorStarted, managerVars, sysPc, seenVersion, todo, request,
                 detached, heldMap, strategy, systemVars>>

\* Goroutines that have taken the map keep the old one.
ClearReset(m) ==
  /\ Goto(m, "reset", "clearRetry")
  /\ NewStrategyStatus
  /\ LET left == {k \in Monitors : pc[k] \in {"testSent", "scan"}} \ detached IN
       /\ detached' = detached \cup left
       /\ heldMap' = [k \in Monitors |-> IF k \in left THEN resourceInfo
                                                        ELSE heldMap[k]]
  /\ Outdate
  /\ UNCHANGED <<managerVars, sysPc, seenVersion, todo, request, strategy,
                 systemVars>>

ClearRetry(m) ==
  /\ Goto(m, "clearRetry", "off")
  /\ SetStrategyRetryCount(0)
  /\ UNCHANGED <<statusVars, managerVars, sysPc, scanVars, strategy,
                 strategyApplied, restarts>>

-----------------------------------------------------------------------------
(* The VIM works on its strategy.                                          *)

VimProgress ==
  /\ \/ strategy = "building" /\ strategy' \in {"ready-to-apply", "failed"}
     \/ strategy = "applying" /\ strategy' \in Finished
  /\ UNCHANGED <<statusVars, managerVars, sysPc, pc, scanVars, systemVars>>

\* The Deployment Manager's container restarts: everything in memory is lost,
\* the VIM and Kubernetes are not affected.
Restart ==
  /\ restarts < MaxRestarts
  /\ restarts' = restarts + 1
  /\ NewStrategyStatus
  /\ waitForStrategySent' = FALSE /\ vimClient' = FALSE /\ clientBuilt' = FALSE
  /\ reporting' = NoCall
  /\ sysPc' = "idle"
  /\ pc' = [m \in Monitors |-> "off"]
  /\ seenVersion' = [m \in Monitors |-> 0]
  /\ todo' = [m \in Monitors |-> {}]
  /\ request' = [m \in Monitors |-> {}]
  /\ detached' = {} /\ heldMap' = [m \in Monitors |-> NoInfo]
  /\ fresh' = {}
  /\ UNCHANGED <<strategy, strategyApplied, strategyRetryCount>>

-----------------------------------------------------------------------------
MonitorStep(m) ==
  \/ ReadConfigVersion(m) \/ CompareVersion(m) \/ SetMonitorVersion(m)
  \/ GetStrategyRequiredList(m) \/ TestSent(m)
  \/ ScanEntry(m) \/ ScanDone(m)
  \/ VimUnavailable(m) \/ FindExistingStrategy(m) \/ DeleteFinishedStrategy(m)
  \/ MonitorExistingStrategy(m)
  \/ GcCreate(m) \/ CreateSucceeded(m) \/ CreateFailed(m)
  \/ PollStrategy(m) \/ ApplyStrategy(m) \/ ActionSent(m) \/ ApplyFailed(m)
  \/ DeleteStrategy(m)
  \/ ClearApplied(m) \/ ClearReset(m) \/ ClearRetry(m)

SystemStep ==
  \/ BuildPlatformClient \/ SystemReadsApplied \/ SystemSetsSent
  \/ SystemTestsStarted \/ SystemStartsMonitor

ReporterStep ==
  \/ UpdateConfigVersion
  \/ \E r \in Resources : \E report \in ReportsOf(r) :
       SetResourceInfoBegin(r, report)
  \/ SetResourceInfoEnd
  \/ ExpectStrategy

Next ==
  \/ \E m \in Monitors : MonitorStep(m)
  \/ SystemStep
  \/ ReporterStep
  \/ VimProgress
  \/ Restart

Spec == Init /\ [][Next]_vars

\* The runtime schedules every goroutine and controller that can run, and
\* sync.Mutex hands the lock to a waiter that was starved for a millisecond, so
\* a goroutine that finds the lock free again and again gets it: strong
\* fairness.  The VIM works on a strategy it has accepted.  Reports, restarts
\* and reads of the System resource are the environment's and not promised.
Fairness ==
  /\ \A m \in Monitors : SF_vars(MonitorStep(m))
  /\ WF_vars(SetResourceInfoEnd)
  /\ WF_vars(VimProgress)
  /\ SF_vars(SystemSetsSent \/ SystemTestsStarted \/ SystemStartsMonitor)

FairSpec == Spec /\ Fairness

-----------------------------------------------------------------------------
(* Properties.                                                             *)

Maps == [Resources -> Entries]

FlagsOK ==
  /\ strategySent \in BOOLEAN /\ namespaceKnown \in BOOLEAN
  /\ monitorStarted \in BOOLEAN
  /\ waitForStrategySent \in BOOLEAN /\ vimClient \in BOOLEAN
  /\ clientBuilt \in BOOLEAN
  /\ strategyApplied \in BOOLEAN

DataOK ==
  /\ resourceInfo \in Maps
  /\ configVersion \in Nat /\ monitorVersion \in Nat
  /\ \/ reporting = NoCall
     \/ reporting \in [name : Resources, report : Reports]
  /\ sysPc \in {"idle", "applied", "test", "start"}
  /\ pc \in [Monitors -> PCs]
  /\ seenVersion \in [Monitors -> Nat]
  /\ todo \in [Monitors -> SUBSET Resources]
  /\ request \in [Monitors -> SUBSET ApplyKinds]
  /\ detached \in SUBSET Monitors
  /\ heldMap \in [Monitors -> Maps]
  /\ fresh \in SUBSET Monitors
  /\ strategy \in {"none", "ready-to-apply"} \cup InProgress \cup Finished
  /\ strategyRetryCount \in Nat
  /\ restarts \in Nat

\* Every variable has a value its Go counterpart can have.
TypeOK == FlagsOK /\ DataOK

\* A goroutine that will still look at the reports.
Alive(m) == pc[m] \notin {"off", "clearRetry"}

\* MonitorStarted is never left set with no goroutine behind it: it would keep
\* StartStrategyMonitor from ever starting one again.
StartedMonitorAlive == monitorStarted => \E m \in Monitors : Alive(m)

\* When nothing was reported since the goroutine took its list, the range loop
\* ends, in whatever order it visits the entries, with a request that covers
\* exactly the resources that need a strategy; and no listed resource is then
\* still under reconcile.  So a pass neither asks the VIM too early nor ends
\* for want of work while a listed resource needs a strategy.
RequestMatchesReports ==
  \A m \in fresh :
    \/ pc[m] \in {"connect", "deleteFinished", "create"}
    \/ pc[m] = "scan" /\ todo[m] = {}
    => /\ \A r \in Resources : resourceInfo[r] # "busy"
       /\ request[m] = UNION {ApplyTypes(Kind[r]) :
                                r \in {x \in Resources : resourceInfo[x] = "required"}}

\* A strategy that was sent, in a process that can reach the VIM, does not stay
\* with the VIM unattended: the manager brings it to its end (applied, failed or
\* given up), deletes it and clears its status.
SentIsFinished ==
  (strategySent /\ strategy # "none" /\ vimClient)
    ~> (~strategySent \/ strategy = "none")

\* If the VIM keeps refusing to create a strategy, the manager gives up again
\* and again instead of retrying for ever: the persisted count reaches its limit.
GivesUp ==
  ([]<>(\E m \in Monitors : pc[m] = "createFailed")) =>
    []<>(\E m \in Monitors : pc[m] = "clearRetry")

\* "If this is the first resource information, start strategy monitor"
\* (manager.go): once a report is listed some goroutine looks at it.
ListedIsMonitored ==
  (resourceInfo # NoInfo /\ LockFree) => \E m \in Monitors : Alive(m)

=============================================================================
