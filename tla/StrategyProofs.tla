---------------------------- MODULE StrategyProofs ----------------------------
(***************************************************************************)
(* What holds of the strategy manager for any set of resources, any number *)
(* of goroutines and any limits: its types, that MonitorStarted never      *)
(* outlives the goroutines behind it, and that an undisturbed pass of      *)
(* ManageStrategy asks the VIM for exactly what the reports need.          *)
(***************************************************************************)
EXTENDS Strategy, TLAPS

USE DEF ApplyKinds, InProgress, Finished, PCs

\* The apply types a kind asks for are apply types of the request.
LEMMA ApplyTypesType ==
  \A k : ApplyTypes(k) \in SUBSET ApplyKinds
BY DEF ApplyTypes

\* The empty list of reports is a list of reports.
LEMMA NoInfoType == NoInfo \in Maps
BY DEF NoInfo, Maps, Entries

\* An upsert keeps the map's type.
LEMMA UpsertType ==
  ASSUME NEW map \in Maps, NEW r \in Resources, NEW e \in Reports
  PROVE  [map EXCEPT ![r] = e] \in Maps
BY DEF Maps, Entries

\* What a controller reports is a report.
LEMMA ReportsOfType ==
  \A r \in Resources : ReportsOf(r) \subseteq Reports
BY DEF ReportsOf, Reports

\* No step gives a sequence, set, counter or program counter a value of
\* another type.
LEMMA DataStep == TypeOK /\ [Next]_vars => DataOK'
<1> SUFFICES ASSUME TypeOK, [Next]_vars PROVE DataOK'
  OBVIOUS
<1> USE NoInfoType, ConstantsAssumption DEF TypeOK, DataOK, Goto, LockFree, Outdate
<1>1. ASSUME NEW m \in Monitors, ReadConfigVersion(m) PROVE DataOK'
  BY <1>1 DEF ReadConfigVersion, statusVars, managerVars, systemVars
<1>1a. ASSUME NEW m \in Monitors, CompareVersion(m) PROVE DataOK'
  BY <1>1a DEF CompareVersion, statusVars, managerVars, systemVars
<1>2. ASSUME NEW m \in Monitors, SetMonitorVersion(m) PROVE DataOK'
  BY <1>2 DEF SetMonitorVersion, managerVars, systemVars
<1>3. ASSUME NEW m \in Monitors, GetStrategyRequiredList(m) PROVE DataOK'
  BY <1>3 DEF GetStrategyRequiredList, statusVars, managerVars, scanVars, systemVars
<1>3a. ASSUME NEW m \in Monitors, TestSent(m) PROVE DataOK'
  <2>1. CASE strategySent
    BY <1>3a, <2>1 DEF TestSent, DropMap, statusVars, managerVars, systemVars
  <2>2. CASE ~strategySent
    BY <1>3a, <2>2 DEF TestSent, Keys, statusVars, managerVars, systemVars
  <2> QED BY <2>1, <2>2
<1>4. ASSUME NEW m \in Monitors, ScanEntry(m) PROVE DataOK'
  <2>1. PICK r \in todo[m] :
          \/ /\ Goto(m, "scan", "sleep")
             /\ todo' = [todo EXCEPT ![m] = {}]
             /\ request' = [request EXCEPT ![m] = {}]
             /\ DropMap(m)
             /\ fresh' = fresh \ {m}
          \/ /\ todo' = [todo EXCEPT ![m] = @ \ {r}]
             /\ \/ request' = [request EXCEPT ![m] = @ \cup ApplyTypes(Kind[r])]
                \/ request' = request
             /\ UNCHANGED <<pc, detached, heldMap, fresh>>
    BY <1>4 DEF ScanEntry
  <2>2. UNCHANGED <<statusVars, managerVars, sysPc, seenVersion, strategy, systemVars>>
    BY <1>4 DEF ScanEntry
  <2>3. CASE Goto(m, "scan", "sleep") /\ todo' = [todo EXCEPT ![m] = {}]
    BY <2>1, <2>2, <2>3 DEF DropMap, statusVars, managerVars, systemVars
  <2>4. CASE UNCHANGED <<pc, detached, heldMap, fresh>>
    BY <2>1, <2>2, <2>4, ApplyTypesType DEF statusVars, managerVars, systemVars
  <2> QED BY <2>1, <2>3, <2>4
<1>5. ASSUME NEW m \in Monitors, ScanDone(m) PROVE DataOK'
  BY <1>5 DEF ScanDone, DropMap, statusVars, managerVars, systemVars
<1>6. ASSUME NEW m \in Monitors, VimUnavailable(m) PROVE DataOK'
  BY <1>6 DEF VimUnavailable, EndPass, statusVars, systemVars
<1>7. ASSUME NEW m \in Monitors, FindExistingStrategy(m) PROVE DataOK'
  BY <1>7 DEF FindExistingStrategy, VimConnected, statusVars, scanVars, systemVars
<1>8. ASSUME NEW m \in Monitors, DeleteFinishedStrategy(m) PROVE DataOK'
  BY <1>8 DEF DeleteFinishedStrategy, EndPass, statusVars, managerVars, systemVars
<1>9. ASSUME NEW m \in Monitors, MonitorExistingStrategy(m) PROVE DataOK'
  BY <1>9 DEF MonitorExistingStrategy, EndPass, SetStrategyRetryCount
<1>10. ASSUME NEW m \in Monitors, GcCreate(m) PROVE DataOK'
  BY <1>10 DEF GcCreate, statusVars, scanVars, systemVars
<1>11. ASSUME NEW m \in Monitors, CreateSucceeded(m) PROVE DataOK'
  BY <1>11 DEF CreateSucceeded, EndPass, SetStrategyRetryCount, managerVars
<1>12. ASSUME NEW m \in Monitors, CreateFailed(m) PROVE DataOK'
  BY <1>12 DEF CreateFailed, RetryCounts, SetStrategyRetryCount, statusVars, managerVars
<1>13. ASSUME NEW m \in Monitors, PollStrategy(m) PROVE DataOK'
  BY <1>13 DEF PollStrategy, VimConnected, statusVars, scanVars, systemVars
<1>14. ASSUME NEW m \in Monitors, ApplyStrategy(m) PROVE DataOK'
  BY <1>14 DEF ApplyStrategy, statusVars, managerVars, scanVars, systemVars
<1>15. ASSUME NEW m \in Monitors, ActionSent(m) PROVE DataOK'
  BY <1>15 DEF ActionSent, statusVars, managerVars, scanVars
<1>16. ASSUME NEW m \in Monitors, ApplyFailed(m) PROVE DataOK'
  BY <1>16 DEF ApplyFailed, RetryCounts, SetStrategyRetryCount, statusVars, managerVars, scanVars
<1>17. ASSUME NEW m \in Monitors, DeleteStrategy(m) PROVE DataOK'
  BY <1>17 DEF DeleteStrategy, statusVars, managerVars, scanVars, systemVars
<1>18. ASSUME NEW m \in Monitors, ClearApplied(m) PROVE DataOK'
  BY <1>18 DEF ClearApplied, statusVars, managerVars, scanVars
<1>19. ASSUME NEW m \in Monitors, ClearReset(m) PROVE DataOK'
  BY <1>19 DEF ClearReset, NewStrategyStatus, managerVars, systemVars
<1>20. ASSUME NEW m \in Monitors, ClearRetry(m) PROVE DataOK'
  BY <1>20 DEF ClearRetry, SetStrategyRetryCount, statusVars, managerVars, scanVars
<1>21. CASE SystemStep
  <2>1. CASE BuildPlatformClient
    BY <2>1 DEF BuildPlatformClient, scanVars, systemVars
  <2>2. CASE SystemReadsApplied
    BY <2>2 DEF SystemReadsApplied, statusVars, managerVars, scanVars, systemVars
  <2>3. CASE SystemSetsSent
    BY <2>3 DEF SystemSetsSent, managerVars, scanVars, systemVars
  <2>4. CASE SystemTestsStarted
    BY <2>4 DEF SystemTestsStarted, statusVars, managerVars, scanVars, systemVars
  <2>5. CASE SystemStartsMonitor
    BY <2>5 DEF SystemStartsMonitor, StartGoroutine, managerVars, scanVars, systemVars
  <2> QED BY <1>21, <2>1, <2>2, <2>3, <2>4, <2>5 DEF SystemStep
<1>22. CASE ReporterStep
  <2>1. CASE UpdateConfigVersion
    BY <2>1 DEF UpdateConfigVersion, managerVars, systemVars
  <2>2. ASSUME NEW r \in Resources, NEW report \in ReportsOf(r),
               SetResourceInfoBegin(r, report)
        PROVE  DataOK'
    BY <2>2, ReportsOfType
       DEF SetResourceInfoBegin, StartStrategyMonitor, StartGoroutine, scanVars, systemVars
  <2>3. CASE SetResourceInfoEnd
    <3>1. reporting.name \in Resources /\ reporting.report \in Reports
      BY <2>3 DEF SetResourceInfoEnd
    <3>2. resourceInfo' \in Maps
      BY <2>3, <3>1, UpsertType DEF SetResourceInfoEnd
    <3>3. todo' \in [Monitors -> SUBSET Resources]
      BY <2>3, <3>1 DEF SetResourceInfoEnd
    <3> QED
      BY <2>3, <3>2, <3>3 DEF SetResourceInfoEnd, systemVars
  <2>4. CASE ExpectStrategy
    BY <2>4 DEF ExpectStrategy, statusVars, scanVars, systemVars
  <2> QED BY <1>22, <2>1, <2>2, <2>3, <2>4 DEF ReporterStep
<1>23. CASE VimProgress
  BY <1>23 DEF VimProgress, statusVars, managerVars, scanVars, systemVars
<1>24. CASE Restart
  BY <1>24 DEF Restart, NewStrategyStatus
<1>25. CASE UNCHANGED vars
  BY <1>25 DEF vars, statusVars, managerVars, scanVars, systemVars
<1> QED
  BY <1>1, <1>1a, <1>2, <1>3, <1>3a, <1>4, <1>5, <1>6, <1>7, <1>8, <1>9, <1>10, <1>11,
     <1>12, <1>13, <1>14, <1>15, <1>16, <1>17, <1>18, <1>19, <1>20, <1>21,
     <1>22, <1>23, <1>24, <1>25
  DEF Next, MonitorStep

\* No step gives a flag a value that is not Boolean.
LEMMA FlagsStep == TypeOK /\ [Next]_vars => FlagsOK'
<1> SUFFICES ASSUME TypeOK, [Next]_vars PROVE FlagsOK'
  OBVIOUS
<1> USE DEF TypeOK, FlagsOK, Goto
<1>1. ASSUME NEW m \in Monitors, ReadConfigVersion(m) PROVE FlagsOK'
  BY <1>1 DEF ReadConfigVersion, statusVars, managerVars, systemVars
<1>1a. ASSUME NEW m \in Monitors, CompareVersion(m) PROVE FlagsOK'
  BY <1>1a DEF CompareVersion, statusVars, managerVars, systemVars
<1>2. ASSUME NEW m \in Monitors, SetMonitorVersion(m) PROVE FlagsOK'
  BY <1>2 DEF SetMonitorVersion, managerVars, systemVars
<1>3. ASSUME NEW m \in Monitors, GetStrategyRequiredList(m) PROVE FlagsOK'
  BY <1>3 DEF GetStrategyRequiredList, statusVars, managerVars, systemVars
<1>3a. ASSUME NEW m \in Monitors, TestSent(m) PROVE FlagsOK'
  BY <1>3a DEF TestSent, statusVars, managerVars, systemVars
<1>4. ASSUME NEW m \in Monitors, ScanEntry(m) PROVE FlagsOK'
  BY <1>4, ApplyTypesType DEF ScanEntry, DropMap, statusVars, managerVars, systemVars
<1>5. ASSUME NEW m \in Monitors, ScanDone(m) PROVE FlagsOK'
  BY <1>5 DEF ScanDone, DropMap, statusVars, managerVars, systemVars
<1>6. ASSUME NEW m \in Monitors, VimUnavailable(m) PROVE FlagsOK'
  BY <1>6 DEF VimUnavailable, EndPass, statusVars, systemVars
<1>7. ASSUME NEW m \in Monitors, FindExistingStrategy(m) PROVE FlagsOK'
  BY <1>7 DEF FindExistingStrategy, VimConnected, statusVars, scanVars, systemVars
<1>8. ASSUME NEW m \in Monitors, DeleteFinishedStrategy(m) PROVE FlagsOK'
  BY <1>8 DEF DeleteFinishedStrategy, EndPass, statusVars, managerVars, systemVars
<1>9. ASSUME NEW m \in Monitors, MonitorExistingStrategy(m) PROVE FlagsOK'
  BY <1>9 DEF MonitorExistingStrategy, EndPass, SetStrategyRetryCount
<1>10. ASSUME NEW m \in Monitors, GcCreate(m) PROVE FlagsOK'
  BY <1>10 DEF GcCreate, statusVars, scanVars, systemVars
<1>11. ASSUME NEW m \in Monitors, CreateSucceeded(m) PROVE FlagsOK'
  BY <1>11 DEF CreateSucceeded, EndPass, SetStrategyRetryCount, managerVars
<1>12. ASSUME NEW m \in Monitors, CreateFailed(m) PROVE FlagsOK'
  BY <1>12 DEF CreateFailed, RetryCounts, SetStrategyRetryCount, statusVars, managerVars
<1>13. ASSUME NEW m \in Monitors, PollStrategy(m) PROVE FlagsOK'
  BY <1>13 DEF PollStrategy, VimConnected, statusVars, scanVars, systemVars
<1>14. ASSUME NEW m \in Monitors, ApplyStrategy(m) PROVE FlagsOK'
  BY <1>14 DEF ApplyStrategy, statusVars, managerVars, scanVars, systemVars
<1>15. ASSUME NEW m \in Monitors, ActionSent(m) PROVE FlagsOK'
  BY <1>15 DEF ActionSent, statusVars, managerVars, scanVars
<1>16. ASSUME NEW m \in Monitors, ApplyFailed(m) PROVE FlagsOK'
  BY <1>16 DEF ApplyFailed, RetryCounts, SetStrategyRetryCount, statusVars, managerVars, scanVars
<1>17. ASSUME NEW m \in Monitors, DeleteStrategy(m) PROVE FlagsOK'
  BY <1>17 DEF DeleteStrategy, statusVars, managerVars, scanVars, systemVars
<1>18. ASSUME NEW m \in Monitors, ClearApplied(m) PROVE FlagsOK'
  BY <1>18 DEF ClearApplied, statusVars, managerVars, scanVars
<1>19. ASSUME NEW m \in Monitors, ClearReset(m) PROVE FlagsOK'
  BY <1>19 DEF ClearReset, NewStrategyStatus, managerVars, systemVars
<1>20. ASSUME NEW m \in Monitors, ClearRetry(m) PROVE FlagsOK'
  BY <1>20 DEF ClearRetry, SetStrategyRetryCount, statusVars, managerVars, scanVars
<1>21. CASE SystemStep
  <2>1. CASE BuildPlatformClient
    BY <2>1 DEF BuildPlatformClient, scanVars, systemVars
  <2>2. CASE SystemReadsApplied
    BY <2>2 DEF SystemReadsApplied, statusVars, managerVars, scanVars, systemVars
  <2>3. CASE SystemSetsSent
    BY <2>3 DEF SystemSetsSent, managerVars, scanVars, systemVars
  <2>4. CASE SystemTestsStarted
    BY <2>4 DEF SystemTestsStarted, statusVars, managerVars, scanVars, systemVars
  <2>5. CASE SystemStartsMonitor
    BY <2>5 DEF SystemStartsMonitor, StartGoroutine, managerVars, scanVars, systemVars
  <2> QED BY <1>21, <2>1, <2>2, <2>3, <2>4, <2>5 DEF SystemStep
<1>22. CASE ReporterStep
  <2>1. CASE UpdateConfigVersion
    BY <2>1 DEF UpdateConfigVersion, managerVars, systemVars
  <2>2. ASSUME NEW r \in Resources, NEW report \in ReportsOf(r),
               SetResourceInfoBegin(r, report)
        PROVE  FlagsOK'
    BY <2>2, ReportsOfType
       DEF SetResourceInfoBegin, StartStrategyMonitor, StartGoroutine, scanVars, systemVars
  <2>3. CASE SetResourceInfoEnd
    BY <2>3 DEF SetResourceInfoEnd, systemVars
  <2>4. CASE ExpectStrategy
    BY <2>4 DEF ExpectStrategy, statusVars, scanVars, systemVars
  <2> QED BY <1>22, <2>1, <2>2, <2>3, <2>4 DEF ReporterStep
<1>23. CASE VimProgress
  BY <1>23 DEF VimProgress, statusVars, managerVars, scanVars, systemVars
<1>24. CASE Restart
  BY <1>24 DEF Restart, NewStrategyStatus
<1>25. CASE UNCHANGED vars
  BY <1>25 DEF vars, statusVars, managerVars, scanVars, systemVars
<1> QED
  BY <1>1, <1>1a, <1>2, <1>3, <1>3a, <1>4, <1>5, <1>6, <1>7, <1>8, <1>9, <1>10, <1>11,
     <1>12, <1>13, <1>14, <1>15, <1>16, <1>17, <1>18, <1>19, <1>20, <1>21,
     <1>22, <1>23, <1>24, <1>25
  DEF Next, MonitorStep

\* The strategy manager keeps its types: every step of every actor, restarts
\* included, preserves TypeOK.
THEOREM TypeCorrect == Spec => []TypeOK
<1>1. Init => FlagsOK
  BY DEF Init, FlagsOK
<1>2. Init => DataOK
  BY NoInfoType DEF Init, DataOK
<1>3. TypeOK /\ [Next]_vars => TypeOK'
  BY DataStep, FlagsStep DEF TypeOK
<1> QED
  BY <1>1, <1>2, <1>3, PTL DEF Spec, TypeOK

-----------------------------------------------------------------------------
\* Wherever a goroutine goes other than through ClearStrategy, it is alive
\* there.
LEMMA MonitorStepAlive ==
  ASSUME TypeOK, NEW m \in Monitors, MonitorStep(m)
  PROVE  \/ Alive(m)'
         \/ ClearReset(m)
         \/ ClearRetry(m)
<1> USE DEF TypeOK, DataOK, Alive, Goto
<1>1. CASE ReadConfigVersion(m)
  BY <1>1 DEF ReadConfigVersion
<1>1a. CASE CompareVersion(m)
  BY <1>1a DEF CompareVersion
<1>2. CASE SetMonitorVersion(m)
  BY <1>2 DEF SetMonitorVersion
<1>3. CASE GetStrategyRequiredList(m)
  BY <1>3 DEF GetStrategyRequiredList
<1>3a. CASE TestSent(m)
  BY <1>3a DEF TestSent, DropMap
<1>4. CASE ScanEntry(m)
  BY <1>4 DEF ScanEntry
<1>5. CASE ScanDone(m)
  BY <1>5 DEF ScanDone
<1>6. CASE VimUnavailable(m)
  BY <1>6 DEF VimUnavailable, EndPass
<1>7. CASE FindExistingStrategy(m)
  BY <1>7 DEF FindExistingStrategy
<1>8. CASE DeleteFinishedStrategy(m)
  BY <1>8 DEF DeleteFinishedStrategy, EndPass
<1>9. CASE MonitorExistingStrategy(m)
  BY <1>9 DEF MonitorExistingStrategy, EndPass
<1>10. CASE GcCreate(m)
  BY <1>10 DEF GcCreate
<1>11. CASE CreateSucceeded(m)
  BY <1>11 DEF CreateSucceeded, EndPass
<1>12. CASE CreateFailed(m)
  BY <1>12 DEF CreateFailed
<1>13. CASE PollStrategy(m)
  BY <1>13 DEF PollStrategy
<1>14. CASE ApplyStrategy(m)
  BY <1>14 DEF ApplyStrategy
<1>15. CASE ActionSent(m)
  BY <1>15 DEF ActionSent
<1>16. CASE ApplyFailed(m)
  BY <1>16 DEF ApplyFailed
<1>17. CASE DeleteStrategy(m)
  BY <1>17 DEF DeleteStrategy
<1>18. CASE ClearApplied(m)
  BY <1>18 DEF ClearApplied
<1> QED
  BY <1>1, <1>1a, <1>2, <1>3, <1>3a, <1>4, <1>5, <1>6, <1>7, <1>8, <1>9, <1>10, <1>11, <1>12, <1>13, <1>14, <1>15, <1>16, <1>17, <1>18
  DEF MonitorStep

\* No step of a goroutine sets MonitorStarted.
LEMMA MonitorStepStarted ==
  ASSUME NEW m \in Monitors, MonitorStep(m), monitorStarted'
  PROVE  monitorStarted /\ ~ClearReset(m)
BY DEF MonitorStep, ReadConfigVersion, CompareVersion, SetMonitorVersion,
   GetStrategyRequiredList, TestSent, ScanEntry, ScanDone,
   VimUnavailable, FindExistingStrategy, DeleteFinishedStrategy,
   MonitorExistingStrategy, GcCreate, CreateSucceeded, CreateFailed,
   PollStrategy, ApplyStrategy, ActionSent, ApplyFailed, DeleteStrategy,
   ClearApplied, ClearReset, ClearRetry, NewStrategyStatus, statusVars

\* MonitorStarted is never left set with no goroutine behind it, however many
\* goroutines the unlocked StartStrategyMonitor of the System controller added
\* and whichever of them clears the status first.
THEOREM StartedAlive == Spec => []StartedMonitorAlive
<1>1. Init => StartedMonitorAlive
  BY DEF Init, StartedMonitorAlive
<1>2. TypeOK /\ StartedMonitorAlive /\ [Next]_vars => StartedMonitorAlive'
  <2> SUFFICES ASSUME TypeOK, StartedMonitorAlive, [Next]_vars, monitorStarted'
               PROVE  (\E m \in Monitors : Alive(m))'
    BY DEF StartedMonitorAlive
  <2>1. ASSUME NEW m \in Monitors, MonitorStep(m)
        PROVE  (\E k \in Monitors : Alive(k))'
    <3>1. CASE Alive(m)'
      BY <3>1
    <3>2. CASE ClearRetry(m)
      <4>1. PICK k \in Monitors : Alive(k)
        BY <2>1, MonitorStepStarted DEF StartedMonitorAlive
      <4>2. Alive(k)'
        BY <3>2, <4>1 DEF ClearRetry, Goto, Alive, TypeOK, DataOK
      <4> QED BY <4>2
    <3> QED BY <2>1, <3>1, <3>2, MonitorStepAlive, MonitorStepStarted
  <2>2. ASSUME StartGoroutine
        PROVE  (\E m \in Monitors : Alive(m))'
    BY <2>2 DEF StartGoroutine, Goto, Alive, TypeOK, DataOK
  <2>3. ASSUME UNCHANGED <<pc, monitorStarted>>
        PROVE  (\E m \in Monitors : Alive(m))'
    BY <2>3 DEF StartedMonitorAlive, Alive
  <2>4. CASE SystemStep
    BY <2>2, <2>3, <2>4
       DEF SystemStep, BuildPlatformClient, SystemReadsApplied, SystemSetsSent,
           SystemTestsStarted, SystemStartsMonitor, statusVars
  <2>5. CASE ReporterStep
    BY <2>2, <2>3, <2>5
       DEF ReporterStep, UpdateConfigVersion, SetResourceInfoBegin,
           SetResourceInfoEnd, ExpectStrategy, StartStrategyMonitor, statusVars
  <2>6. CASE VimProgress
    BY <2>3, <2>6 DEF VimProgress, statusVars
  <2>7. CASE Restart
    BY <2>7 DEF Restart, NewStrategyStatus
  <2>8. CASE UNCHANGED vars
    BY <2>3, <2>8 DEF vars, statusVars
  <2> QED
    BY <2>1, <2>4, <2>5, <2>6, <2>7, <2>8 DEF Next
<1> QED
  BY <1>1, <1>2, TypeCorrect, PTL DEF Spec

-----------------------------------------------------------------------------
\* What the visited part of the list asks for.
Need(S) == UNION {ApplyTypes(Kind[r]) :
                    r \in {x \in S : resourceInfo[x] = "required"}}

\* The range loop's invariant, for a goroutine whose list no report followed:
\* of the entries visited so far none is busy and the request is what they need.
Visited(m) ==
  /\ \A r \in Resources \ todo[m] : resourceInfo[r] # "busy"
  /\ request[m] = Need(Resources \ todo[m])


\* Where a goroutine's list is still in use.
ListInUse == {"scan", "connect", "deleteFinished", "create"}

\* What holds of one goroutine in the middle of a pass.  One that is not in the
\* loop is not detached, a fresh one ranges over the manager's own map, and once
\* it has left the loop there is nothing left to visit.
PassInv(m) ==
  /\ m \in detached => pc[m] \in {"testSent", "scan"}
  /\ m \in fresh =>
       /\ m \notin detached
       /\ pc[m] \in ListInUse => Visited(m)
       /\ pc[m] \in ListInUse \ {"scan"} => todo[m] = {}

\* The inductive strengthening of RequestMatchesReports.
ScanInv == \A m \in Monitors : PassInv(m)

\* A goroutine is in the middle of the same pass as before.
SamePass(m) ==
  /\ resourceInfo' = resourceInfo
  /\ pc'[m] = pc[m] /\ todo'[m] = todo[m] /\ request'[m] = request[m]
  /\ m \in detached' <=> m \in detached
  /\ m \in fresh' => m \in fresh

\* A step that leaves a goroutine's pass alone keeps what holds of it.
LEMMA SamePassKeeps ==
  ASSUME NEW m \in Monitors, PassInv(m), SamePass(m)
  PROVE  PassInv(m)'
BY DEF PassInv, SamePass, Visited, Need

\* A goroutine that left the pass, and does not hold a map, has nothing to keep.
LEMMA PassOver ==
  ASSUME NEW m \in Monitors, m \notin detached', pc'[m] \notin ListInUse
  PROVE  PassInv(m)'
BY DEF PassInv, ListInUse

\* A step of goroutine m that does not touch the reports leaves the pass of
\* every other goroutine alone.
LEMMA OthersKeep ==
  ASSUME TypeOK, ScanInv, NEW m \in Monitors, MonitorStep(m), ~ClearReset(m)
  PROVE  \A k \in Monitors \ {m} : PassInv(k)'
<1> SUFFICES ASSUME NEW k \in Monitors \ {m} PROVE SamePass(k)
  BY SamePassKeeps DEF ScanInv
<1> USE DEF TypeOK, DataOK, SamePass, Goto, statusVars, scanVars
<1>1. CASE ReadConfigVersion(m)
  BY <1>1 DEF ReadConfigVersion
<1>1a. CASE CompareVersion(m)
  BY <1>1a DEF CompareVersion
<1>2. CASE SetMonitorVersion(m)
  BY <1>2 DEF SetMonitorVersion
<1>3. CASE GetStrategyRequiredList(m)
  BY <1>3 DEF GetStrategyRequiredList
<1>3a. CASE TestSent(m)
  BY <1>3a DEF TestSent, DropMap
<1>4. CASE ScanEntry(m)
  BY <1>4 DEF ScanEntry, DropMap
<1>5. CASE ScanDone(m)
  BY <1>5 DEF ScanDone, DropMap
<1>6. CASE VimUnavailable(m)
  BY <1>6 DEF VimUnavailable, EndPass
<1>7. CASE FindExistingStrategy(m)
  BY <1>7 DEF FindExistingStrategy
<1>8. CASE DeleteFinishedStrategy(m)
  BY <1>8 DEF DeleteFinishedStrategy, EndPass
<1>9. CASE MonitorExistingStrategy(m)
  BY <1>9 DEF MonitorExistingStrategy, EndPass
<1>10. CASE GcCreate(m)
  BY <1>10 DEF GcCreate
<1>11. CASE CreateSucceeded(m)
  BY <1>11 DEF CreateSucceeded, EndPass
<1>12. CASE CreateFailed(m)
  BY <1>12 DEF CreateFailed
<1>13. CASE PollStrategy(m)
  BY <1>13 DEF PollStrategy
<1>14. CASE ApplyStrategy(m)
  BY <1>14 DEF ApplyStrategy
<1>15. CASE ActionSent(m)
  BY <1>15 DEF ActionSent
<1>16. CASE ApplyFailed(m)
  BY <1>16 DEF ApplyFailed
<1>17. CASE DeleteStrategy(m)
  BY <1>17 DEF DeleteStrategy
<1>18. CASE ClearApplied(m)
  BY <1>18 DEF ClearApplied
<1>19. CASE ClearRetry(m)
  BY <1>19 DEF ClearRetry
<1> QED
  BY <1>1, <1>1a, <1>2, <1>3, <1>3a, <1>4, <1>5, <1>6, <1>7, <1>8, <1>9, <1>10, <1>11,
     <1>12, <1>13, <1>14, <1>15, <1>16, <1>17, <1>18, <1>19
  DEF MonitorStep

\* One iteration of the range loop over the manager's own map: the visited part
\* of the list grows by one entry that is not busy, and the request by what that
\* entry needs.
LEMMA VisitOne ==
  ASSUME TypeOK, NEW m \in Monitors, Visited(m), NEW r \in todo[m],
         resourceInfo' = resourceInfo,
         resourceInfo[r] # "busy",
         todo' = [todo EXCEPT ![m] = @ \ {r}],
         request' = [request EXCEPT ![m] =
             IF resourceInfo[r] = "required" THEN @ \cup ApplyTypes(Kind[r])
                                             ELSE @]
  PROVE  Visited(m)'
<1> DEFINE Old == Resources \ todo[m]
           New == Resources \ todo'[m]
<1>1. New = Old \cup {r}
  BY DEF TypeOK, DataOK
<1>2. \A x \in New : resourceInfo[x] # "busy"
  BY <1>1 DEF Visited
<1>3. request'[m] = Need(New)
  <2>1. CASE resourceInfo[r] = "required"
    <3>1. request'[m] = Need(Old) \cup ApplyTypes(Kind[r])
      BY <2>1 DEF Visited, TypeOK, DataOK
    <3>2. Need(New) = Need(Old) \cup ApplyTypes(Kind[r])
      BY <1>1, <2>1 DEF Need
    <3> QED BY <3>1, <3>2
  <2>2. CASE resourceInfo[r] # "required"
    <3>1. request'[m] = Need(Old)
      BY <2>2 DEF Visited, TypeOK, DataOK
    <3>2. Need(New) = Need(Old)
      BY <1>1, <2>2 DEF Need
    <3> QED BY <3>1, <3>2
  <2> QED BY <2>1, <2>2
<1> QED
  BY <1>2, <1>3 DEF Visited, Need

\* A step of goroutine m keeps what holds of its own pass.
LEMMA OwnPassKept ==
  ASSUME TypeOK, NEW m \in Monitors, PassInv(m), MonitorStep(m), ~ClearReset(m)
  PROVE  PassInv(m)'
<1> USE DEF Goto, statusVars, scanVars
<1>t. pc \in [Monitors -> PCs]
  BY DEF TypeOK, DataOK
<1>1. CASE ReadConfigVersion(m)
  BY <1>1, <1>t, PassOver DEF ReadConfigVersion, PassInv, ListInUse
<1>1a. CASE CompareVersion(m)
  BY <1>1a, <1>t, PassOver DEF CompareVersion, PassInv, ListInUse
<1>2. CASE SetMonitorVersion(m)
  BY <1>2, <1>t, PassOver DEF SetMonitorVersion, PassInv, ListInUse
<1>3. CASE GetStrategyRequiredList(m)
  BY <1>3, <1>t, PassOver DEF GetStrategyRequiredList, PassInv, ListInUse
<1>3a. CASE TestSent(m)
  <2>1. CASE strategySent
    BY <1>3a, <2>1, <1>t, PassOver DEF TestSent, DropMap, PassInv, ListInUse
  <2>2. CASE ~strategySent
    <3>1. /\ pc'[m] = "scan" /\ pc[m] = "testSent"
          /\ resourceInfo' = resourceInfo
          /\ todo'[m] = Keys(Listed(m))
          /\ request'[m] = {}
          /\ detached' = detached
      BY <1>3a, <2>2, <1>t DEF TestSent, TypeOK, DataOK
    <3>2. CASE m \in detached
      <4>1. m \notin fresh /\ fresh' = fresh
        BY <1>3a, <2>2, <3>2 DEF TestSent, PassInv
      <4> QED BY <3>1, <4>1 DEF PassInv
    <3>3. CASE m \notin detached
      <4>1. \A x \in Resources \ Keys(resourceInfo) : resourceInfo[x] = "absent"
        BY DEF Keys
      <4>2. Visited(m)'
        BY <3>1, <3>3, <4>1 DEF Visited, Need, Listed
      <4> QED BY <3>1, <3>3, <4>2 DEF PassInv
    <3> QED BY <3>2, <3>3
  <2> QED BY <2>1, <2>2
<1>4. CASE ScanEntry(m)
  <2>1. PICK r \in todo[m] :
          \/ /\ Goto(m, "scan", "sleep")
             /\ DropMap(m)
          \/ /\ Listed(m)[r] # "busy"
             /\ todo' = [todo EXCEPT ![m] = @ \ {r}]
             /\ request' = [request EXCEPT ![m] =
                  IF Listed(m)[r] = "required" THEN @ \cup ApplyTypes(Kind[r])
                                               ELSE @]
             /\ UNCHANGED <<pc, detached, heldMap, fresh>>
    BY <1>4 DEF ScanEntry
  <2>2. CASE Goto(m, "scan", "sleep") /\ DropMap(m)
    BY <2>2, <1>t, PassOver DEF DropMap, ListInUse
  <2>3. CASE /\ Listed(m)[r] # "busy"
             /\ todo' = [todo EXCEPT ![m] = @ \ {r}]
             /\ request' = [request EXCEPT ![m] =
                  IF Listed(m)[r] = "required" THEN @ \cup ApplyTypes(Kind[r])
                                               ELSE @]
             /\ UNCHANGED <<pc, detached, heldMap, fresh>>
    <3>1. pc[m] = "scan" /\ resourceInfo' = resourceInfo
      BY <1>4 DEF ScanEntry
    <3>2. CASE m \in fresh
      <4>1. Listed(m) = resourceInfo /\ Visited(m)
        BY <3>1, <3>2 DEF Listed, PassInv, ListInUse
      <4>2. Visited(m)'
        BY <2>3, <3>1, <4>1, VisitOne
      <4> QED BY <2>3, <3>1, <4>2 DEF PassInv
    <3>3. CASE m \notin fresh
      BY <2>3, <3>1, <3>3 DEF PassInv
    <3> QED BY <3>2, <3>3
  <2> QED BY <2>1, <2>2, <2>3
<1>5. CASE ScanDone(m)
  <2>1. /\ pc'[m] \in {"connect", "clearApplied"} /\ m \notin detached'
        /\ pc[m] = "scan" /\ todo[m] = {}
        /\ resourceInfo' = resourceInfo /\ todo' = todo
        /\ request' = request /\ fresh' = fresh
    BY <1>5, <1>t DEF ScanDone, DropMap
  <2> QED BY <2>1 DEF PassInv, ListInUse, Visited, Need
<1>6. CASE VimUnavailable(m)
  BY <1>6, <1>t, PassOver DEF VimUnavailable, EndPass, PassInv, ListInUse
<1>7. CASE FindExistingStrategy(m)
  <2>1. /\ pc'[m] \in {"create", "deleteFinished", "adopt"}
        /\ pc[m] = "connect"
        /\ resourceInfo' = resourceInfo /\ todo' = todo
        /\ request' = request /\ fresh' = fresh /\ detached' = detached
    BY <1>7, <1>t DEF FindExistingStrategy
  <2> QED BY <2>1 DEF PassInv, ListInUse, Visited, Need
<1>8. CASE DeleteFinishedStrategy(m)
  <2>1. CASE EndPass(m, "deleteFinished")
    BY <1>8, <2>1, <1>t, PassOver
       DEF DeleteFinishedStrategy, EndPass, PassInv, ListInUse
  <2>2. CASE Goto(m, "deleteFinished", "create") /\ UNCHANGED <<request, fresh>>
    <3>1. /\ pc'[m] = "create" /\ pc[m] = "deleteFinished"
          /\ resourceInfo' = resourceInfo /\ todo' = todo
          /\ request' = request /\ fresh' = fresh /\ detached' = detached
      BY <1>8, <2>2, <1>t DEF DeleteFinishedStrategy
    <3> QED BY <3>1 DEF PassInv, ListInUse, Visited, Need
  <2> QED BY <1>8, <2>1, <2>2 DEF DeleteFinishedStrategy
<1>9. CASE MonitorExistingStrategy(m)
  BY <1>9, <1>t, PassOver DEF MonitorExistingStrategy, EndPass, PassInv, ListInUse
<1>10. CASE GcCreate(m)
  BY <1>10, <1>t, PassOver DEF GcCreate, PassInv, ListInUse
<1>11. CASE CreateSucceeded(m)
  BY <1>11, <1>t, PassOver DEF CreateSucceeded, EndPass, PassInv, ListInUse
<1>12. CASE CreateFailed(m)
  BY <1>12, <1>t, PassOver DEF CreateFailed, PassInv, ListInUse
<1>13. CASE PollStrategy(m)
  BY <1>13, <1>t, PassOver DEF PollStrategy, PassInv, ListInUse
<1>14. CASE ApplyStrategy(m)
  BY <1>14, <1>t, PassOver DEF ApplyStrategy, PassInv, ListInUse
<1>15. CASE ActionSent(m)
  BY <1>15, <1>t, PassOver DEF ActionSent, PassInv, ListInUse
<1>16. CASE ApplyFailed(m)
  BY <1>16, <1>t, PassOver DEF ApplyFailed, PassInv, ListInUse
<1>17. CASE DeleteStrategy(m)
  BY <1>17, <1>t, PassOver DEF DeleteStrategy, PassInv, ListInUse
<1>18. CASE ClearApplied(m)
  BY <1>18, <1>t, PassOver DEF ClearApplied, PassInv, ListInUse
<1>19. CASE ClearRetry(m)
  BY <1>19, <1>t, PassOver DEF ClearRetry, PassInv, ListInUse
<1> QED
  BY <1>1, <1>1a, <1>2, <1>3, <1>3a, <1>4, <1>5, <1>6, <1>7, <1>8, <1>9, <1>10, <1>11,
     <1>12, <1>13, <1>14, <1>15, <1>16, <1>17, <1>18, <1>19
  DEF MonitorStep

\* A pass of ManageStrategy that no report disturbed asks the VIM for exactly
\* what the reports need, and never while a listed resource is under reconcile,
\* whichever order the range loop took and whatever the other goroutines did.
THEOREM RequestsMatch == Spec => []RequestMatchesReports
<1>1. Init => ScanInv
  BY DEF Init, ScanInv, PassInv
<1>2. TypeOK /\ ScanInv /\ [Next]_vars => ScanInv'
  <2> SUFFICES ASSUME TypeOK, ScanInv, [Next]_vars PROVE ScanInv'
    OBVIOUS
  <2>1. ASSUME NEW m \in Monitors, MonitorStep(m), ~ClearReset(m) PROVE ScanInv'
    BY <2>1, OthersKeep, OwnPassKept DEF ScanInv
  <2>2. ASSUME NEW m \in Monitors, ClearReset(m) PROVE ScanInv'
    BY <2>2 DEF ClearReset, Outdate, Goto, ScanInv, PassInv, TypeOK, DataOK
  <2>3. ASSUME fresh' = {}, UNCHANGED <<pc, detached>> PROVE ScanInv'
    BY <2>3 DEF ScanInv, PassInv
  <2>4. ASSUME UNCHANGED <<pc, resourceInfo, scanVars>> PROVE ScanInv'
    BY <2>4, SamePassKeeps DEF scanVars, ScanInv, SamePass
  <2>5. ASSUME StartGoroutine, UNCHANGED <<resourceInfo, scanVars>> PROVE ScanInv'
    <3>1. PICK m \in Monitors : Goto(m, "off", "sleep")
      BY <2>5 DEF StartGoroutine
    <3>2. PassInv(m)'
      BY <2>5, <3>1, PassOver
         DEF Goto, scanVars, ScanInv, PassInv, ListInUse, TypeOK, DataOK
    <3>3. ASSUME NEW k \in Monitors \ {m} PROVE PassInv(k)'
      BY <2>5, <3>1, <3>3, SamePassKeeps
         DEF Goto, scanVars, ScanInv, SamePass, TypeOK, DataOK
    <3> QED BY <3>2, <3>3 DEF ScanInv
  <2>6. CASE SystemStep
    BY <2>4, <2>5, <2>6
       DEF SystemStep, BuildPlatformClient, SystemReadsApplied, SystemSetsSent,
           SystemTestsStarted, SystemStartsMonitor, statusVars
  <2>7. CASE ReporterStep
    <3>1. ASSUME NEW r \in Resources, NEW report \in ReportsOf(r),
                 SetResourceInfoBegin(r, report)
          PROVE  ScanInv'
      BY <2>4, <2>5, <3>1 DEF SetResourceInfoBegin, StartStrategyMonitor
    <3> QED
      BY <2>3, <2>4, <2>7, <3>1
         DEF ReporterStep, UpdateConfigVersion, SetResourceInfoEnd,
             ExpectStrategy, Outdate, statusVars
  <2>8. CASE VimProgress
    BY <2>4, <2>8 DEF VimProgress, statusVars
  <2>9. CASE Restart
    BY <2>9 DEF Restart, ScanInv, PassInv
  <2>10. CASE UNCHANGED vars
    BY <2>4, <2>10 DEF vars, statusVars
  <2> QED
    BY <2>1, <2>2, <2>6, <2>7, <2>8, <2>9, <2>10 DEF Next
<1>3. TypeOK /\ ScanInv => RequestMatchesReports
  <2> SUFFICES ASSUME TypeOK, ScanInv, NEW m \in fresh,
                      \/ pc[m] \in {"connect", "deleteFinished", "create"}
                      \/ pc[m] = "scan" /\ todo[m] = {}
               PROVE  /\ \A r \in Resources : resourceInfo[r] # "busy"
                      /\ request[m] = Need(Resources)
    BY DEF RequestMatchesReports, Need
  <2>1. PassInv(m) /\ m \in Monitors
    BY DEF ScanInv, TypeOK, DataOK
  <2>2. todo[m] = {} /\ Visited(m)
    BY <2>1 DEF PassInv, ListInUse
  <2>3. Resources \ todo[m] = Resources
    BY <2>2
  <2> QED BY <2>2, <2>3 DEF Visited
<1> QED
  BY <1>1, <1>2, <1>3, TypeCorrect, PTL DEF Spec

=============================================================================
