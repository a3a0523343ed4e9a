-------------------------- MODULE PlatformClientProofs --------------------------
(***************************************************************************)
(* For any set of dependents and any failures: the hand-shake between the  *)
(* System controller and its dependents keeps its types, no dependent      *)
(* misses the moment the system becomes ready, and a system that is not    *)
(* ready is always retried.                                                *)
(***************************************************************************)
EXTENDS PlatformClient, TLAPS

USE DEF Clients, Errors, DepPcs, SysPcs

\* The error handler leaves a client and a queue of the right type.
LEMMA HandlerType ==
  ASSUME client \in Clients, queued \in SUBSET (Dependents \cup {System}),
         NEW x \in Dependents \cup {System}, NEW error,
         HandleReconcilerError(x, error)
  PROVE  client' \in Clients /\ queued' \in SUBSET (Dependents \cup {System})
BY DEF HandleReconcilerError, ResetPlatformClient

\* Every step of the System controller, its dependents and their environment
\* preserves the types.
THEOREM TypeCorrect == Spec => []TypeOK
<1>1. Init => TypeOK
  <2> SUFFICES ASSUME Init PROVE TypeOK
    OBVIOUS
  <2>1. faults \in Nat /\ restarts \in Nat
    BY DEF Init
  <2> QED BY <2>1, Zenon DEF Init, TypeOK
<1>2. TypeOK /\ [Next]_vars => TypeOK'
  <2> SUFFICES ASSUME TypeOK, [Next]_vars PROVE TypeOK'
    OBVIOUS
  <2> USE ConstantsAssumption
      DEF TypeOK, Goto, SysGoto, Fault, NoFault, managerVars, depVars, sysVars, boundVars
  <2>1. ASSUME NEW d \in Dependents, DepTake(d) PROVE TypeOK'
    BY <2>1 DEF DepTake
  <2>2. ASSUME NEW d \in Dependents, DepGetClient(d) PROVE TypeOK'
    BY <2>2 DEF DepGetClient
  <2>3. ASSUME NEW d \in Dependents, DepGetReady(d) PROVE TypeOK'
    BY <2>3 DEF DepGetReady
  <2>4. ASSUME NEW d \in Dependents, DepReconcile(d) PROVE TypeOK'
    BY <2>4 DEF DepReconcile
  <2>5. ASSUME NEW d \in Dependents, DepReset(d) PROVE TypeOK'
    BY <2>5, HandlerType DEF DepReset
  <2>6. CASE SysTake
    BY <2>6 DEF SysTake
  <2>7. CASE SysGetClient
    BY <2>7 DEF SysGetClient
  <2>8. CASE SysBuild
    <3>1. faults' \in Nat /\ todo' \in SUBSET Dependents /\ sysPc' \in SysPcs
      BY <2>8 DEF SysBuild
    <3>2. known' \in BOOLEAN
      BY <2>8, Zenon DEF SysBuild
    <3>3. client' \in Clients /\ sysHeld' \in Clients /\ sysError' \in Errors
      BY <2>8 DEF SysBuild
    <3>4. queued' = queued
      BY <2>8 DEF SysBuild
    <3> QED BY <2>8, <3>1, <3>2, <3>3, <3>4 DEF SysBuild
  <2>9. ASSUME NEW d \in Dependents, SysNotifyOne(d) PROVE TypeOK'
    BY <2>9 DEF SysNotifyOne
  <2>10. CASE SysNotifyDone
    BY <2>10 DEF SysNotifyDone
  <2>11. CASE SysReconcile
    BY <2>11 DEF SysReconcile
  <2>12. CASE SysSetReady
    BY <2>12 DEF SysSetReady
  <2>13. CASE SysRevert
    BY <2>13 DEF SysRevert
  <2>14. CASE SysFinish
    BY <2>14, HandlerType DEF SysFinish
  <2>15. ASSUME NEW d \in Dependents, DepEvent(d) PROVE TypeOK'
    BY <2>15 DEF DepEvent
  <2>16. CASE SysEvent
    BY <2>16 DEF SysEvent
  <2>17. CASE ServerLost
    BY <2>17 DEF ServerLost
  <2>18. CASE Restart
    <3>1. restarts' \in Nat /\ faults' \in Nat
      BY <2>18 DEF Restart
    <3>2. queued' \in SUBSET (Dependents \cup {System})
      BY <2>18 DEF Restart
    <3> QED BY <2>18, <3>1, <3>2 DEF Restart
  <2>19. CASE UNCHANGED vars
    BY <2>19 DEF vars
  <2> QED
    BY <2>1, <2>2, <2>3, <2>4, <2>5, <2>6, <2>7, <2>8, <2>9, <2>10, <2>11,
       <2>12, <2>13, <2>14, <2>15, <2>16, <2>17, <2>18, <2>19
    DEF Next, DepStep, SysStep, Environment
<1> QED
  BY <1>1, <1>2, PTL DEF Spec

-----------------------------------------------------------------------------
\* Only dependents that exist are queued, reconciled or parked.
CreatedInv ==
  /\ parked \subseteq created
  /\ queued \subseteq created \cup {System}
  /\ \A d \in Dependents : pc[d] # "idle" => d \in created

\* What the System's Reconcile knows of the flag and of its error on the way to
\* its end.
FlagInv ==
  /\ sysPc = "notify" => ready
  /\ sysPc = "revert" => sysError \in {"requeue", "reset"}
  /\ sysPc = "finish" /\ sysError = "none" => ready

\* The inductive invariant.
HandshakeInv == CreatedInv /\ FlagInv /\ NoMissedReady /\ UnreadyIsRetried

\* The error handler queues nothing but the resource it is called for and the
\* System, and forgets nothing that was queued.
LEMMA HandlerQueues ==
  ASSUME NEW x, NEW error, HandleReconcilerError(x, error)
  PROVE  /\ queued \subseteq queued'
         /\ queued' \subseteq queued \cup {x, System}
         /\ error \in {"requeue", "reset"} => x \in queued'
BY DEF HandleReconcilerError, ResetPlatformClient

\* No step lets a dependent miss the moment the system becomes ready, or leaves
\* a system that is not ready with nobody at work on it.
LEMMA HandshakeStep == TypeOK /\ HandshakeInv /\ [Next]_vars => HandshakeInv'
<1> SUFFICES ASSUME TypeOK, HandshakeInv, [Next]_vars PROVE HandshakeInv'
  OBVIOUS
<1> USE ConstantsAssumption
    DEF TypeOK, HandshakeInv, CreatedInv, FlagInv, NoMissedReady,
        UnreadyIsRetried, Goto, SysGoto, managerVars, depVars, sysVars
<1>1. ASSUME NEW d \in Dependents, DepTake(d) PROVE HandshakeInv'
  BY <1>1 DEF DepTake
<1>2. ASSUME NEW d \in Dependents, DepGetClient(d) PROVE HandshakeInv'
  BY <1>2 DEF DepGetClient
<1>3. ASSUME NEW d \in Dependents, DepGetReady(d) PROVE HandshakeInv'
  BY <1>3 DEF DepGetReady
<1>4. ASSUME NEW d \in Dependents, DepReconcile(d) PROVE HandshakeInv'
  BY <1>4 DEF DepReconcile
<1>5. ASSUME NEW d \in Dependents, DepReset(d) PROVE HandshakeInv'
  <2>1. queued \subseteq queued' /\ queued' \subseteq queued \cup {d, System}
    BY <1>5, HandlerQueues DEF DepReset
  <2> QED BY <1>5, <2>1 DEF DepReset
<1>6. CASE SysTake
  BY <1>6 DEF SysTake
<1>7. CASE SysGetClient
  BY <1>7 DEF SysGetClient
<1>8. CASE SysBuild
  BY <1>8 DEF SysBuild
<1>9. ASSUME NEW d \in Dependents, SysNotifyOne(d) PROVE HandshakeInv'
  BY <1>9 DEF SysNotifyOne
<1>10. CASE SysNotifyDone
  BY <1>10 DEF SysNotifyDone
<1>11. CASE SysReconcile
  BY <1>11 DEF SysReconcile
<1>12. CASE SysSetReady
  BY <1>12 DEF SysSetReady
<1>13. CASE SysRevert
  BY <1>13 DEF SysRevert
<1>14. CASE SysFinish
  <2>1. PICK error \in Errors :
          /\ error = sysError \/ error = "requeue"
          /\ HandleReconcilerError(System, error)
          /\ sysWaits' = (error = "wait")
    BY <1>14 DEF SysFinish
  <2>2. queued \subseteq queued' /\ queued' \subseteq queued \cup {System}
    BY <2>1, HandlerQueues
  <2>3. error \in {"requeue", "reset"} => System \in queued'
    BY <2>1, HandlerQueues
  <2>4. UnreadyIsRetried'
    BY <1>14, <2>1, <2>3 DEF SysFinish
  <2> QED BY <1>14, <2>2, <2>4 DEF SysFinish
<1>15. CASE Environment /\ ~Restart
  BY <1>15 DEF Environment, DepEvent, SysEvent, ServerLost
<1>16. CASE Restart
  BY <1>16 DEF Restart
<1>17. CASE UNCHANGED vars
  BY <1>17 DEF vars
<1> QED
  BY <1>1, <1>2, <1>3, <1>4, <1>5, <1>6, <1>7, <1>8, <1>9, <1>10, <1>11,
     <1>12, <1>13, <1>14, <1>15, <1>16, <1>17
  DEF Next, DepStep, SysStep

\* The inductive invariant holds throughout.
LEMMA Handshake == Spec => []HandshakeInv
<1>1. Init => HandshakeInv
  BY DEF Init, HandshakeInv, CreatedInv, FlagInv, NoMissedReady, UnreadyIsRetried
<1> QED
  BY <1>1, HandshakeStep, TypeCorrect, PTL DEF Spec

\* No dependent that returned RetrySystemNotReady sleeps through the moment the
\* system becomes ready.
THEOREM ReadyNotMissed == Spec => []NoMissedReady
<1>1. HandshakeInv => NoMissedReady
  BY DEF HandshakeInv
<1> QED
  BY <1>1, Handshake, PTL

\* Whenever the system is not ready, the System controller is at work on it, will
\* be, or waits for its own monitor or user.
THEOREM UnreadyRetried == Spec => []UnreadyIsRetried
<1>1. HandshakeInv => UnreadyIsRetried
  BY DEF HandshakeInv
<1> QED
  BY <1>1, Handshake, PTL

=============================================================================
