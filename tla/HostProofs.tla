------------------------------ MODULE HostProofs ------------------------------
(***************************************************************************)
(* Proofs about HostReconciler, for every set of specs, scopes and events  *)
(* and any number of them.                                                 *)
(*                                                                         *)
(* Reconcile works on a copy of the object and on two snapshots of the     *)
(* host that others make stale; the invariants say for each step what the  *)
(* copy and the snapshots still have in common with the object and the     *)
(* host.  PassInv (types, copy, decisions, identifiers) carries HostTyped  *)
(* and, with AnnotInv, ChangesRefused; with DeleteInv it carries           *)
(* FinalizerKept, with WakeInv also Awake.  UnlockConfigured needs in      *)
(* addition what the controller knows of generations, profiles and the     *)
(* host (GenInv, ProfileInv, CurrentInv, KnownInv, SeenInv) and UnlockInv, *)
(* which has the claim for the object and for the copy about to be saved.  *)
(***************************************************************************)
EXTENDS HostReconciler, TLAPS

PCs == {"idle", "scope", "factory", "factoryFlag", "gate", "annotate", "observe", "get", "new",
        "delete", "unfinalize", "populate", "finalize", "defaults", "defaultFlag", "compare",
        "decide", "enabled", "strategy", "disabled", "final", "unlockRequired", "status"}

Kinds == {"none", "stable", "lockedDisabled", "unlockedEnabled", "unlockedAvailable",
          "inventory", "dynamic", "provisioning", "controllers", "stateChange"}

\* The steps of ReconcileExistingHost after the defaults are known.
WithDefaults == {"defaultFlag", "compare", "decide", "enabled", "strategy", "disabled", "final",
                 "unlockRequired"}

Chains == [gen : Nat, base : BOOLEAN, want : Wants]

\* The world around a Reconcile, and what one works on.
EnvTyped ==
  /\ host \in Hosts /\ host.oos # 0
  /\ report \in Strategies \cup {"absent"}
  /\ stage \in {"none", "lock", "wait", "done"} /\ sent \in BOOLEAN
  /\ notify \in BOOLEAN /\ controllers \in Nat /\ active \in BOOLEAN
  /\ chain \in Chains
  /\ nextId \in Nat /\ events \in Nat
  /\ factory \in [round : BOOLEAN, reconciled : BOOLEAN, default : BOOLEAN]
  /\ mon \in [kind : Kinds, id : Nat, last : States]

PassTyped ==
  /\ obj \in Objects /\ copy \in Objects
  /\ queued \in BOOLEAN /\ fresh \in BOOLEAN /\ scoped \in BOOLEAN
  /\ pc \in PCs /\ profile \in Wants
  /\ seen \in Hosts /\ snap \in Hosts
  /\ err \in {"none", "retry", "wait", "ignored"}
  /\ snap.oos # 0
  /\ pc \in WithDefaults => copy.defaults # 0

TypeInv == EnvTyped /\ PassTyped

\* A host that is not there has no identifier; identifiers are not used again.
HostOK(h) == h.id < nextId /\ (h.id = 0 => h = NoHost)

IdsInv ==
  /\ HostOK(host) /\ HostOK(seen) /\ HostOK(snap)
  /\ obj.id < nextId /\ copy.id < nextId

\* What only the controller writes, and what others write.
SameStatus(o, p) ==
  /\ o.reconciled = p.reconciled /\ o.scope = p.scope
  /\ o.observed = p.observed /\ o.observedProfile = p.observedProfile /\ o.id = p.id

SameBody(o, p) ==
  /\ o.gen = p.gen /\ o.asked = p.asked /\ o.life = p.life /\ o.finalizer = p.finalizer
  /\ o.annot = p.annot

\* The status of the copy is that of the object throughout a Reconcile; the rest is
\* while no one else has written the object.
CopyInv ==
  /\ pc # "idle" => /\ SameStatus(copy, obj)
                    /\ fresh => SameBody(copy, obj)
                    /\ copy.life # "gone"
                    /\ copy.life = "deleting" => obj.life # "live"
  /\ pc \notin {"idle", "status"} => copy.strategy = obj.strategy /\ copy.defaults = obj.defaults

\* The conditions under which ReconcileExistingHost goes on to change a host.
Allowed(o) == ~o.reconciled \/ o.annot # "none" \/ o.strategy = "lock_required"

\* The branch that was taken is the one for the snapshot and the copy.
DecisionInv ==
  /\ pc \in {"enabled", "strategy"} => UnlockedEnabled(snap)
  /\ pc \in {"disabled", "final", "unlockRequired"} => LockedDisabled(snap)
  /\ pc \in {"enabled", "strategy", "disabled"} => Allowed(copy)

\* From UpdateAnnotation on the annotation of day 2 is that of an object in day 2.
DayTwoOnly(o) == o.annot = "day2" => o.scope = "principal"
Unannotated == {"idle", "scope", "factory", "factoryFlag", "gate", "annotate"}
AnnotInv == pc \notin Unannotated => DayTwoOnly(obj) /\ DayTwoOnly(copy)

\* A finalizer is taken away only when the host that was recorded has gone.
DeleteInv ==
  /\ pc = "delete" => copy.life = "deleting" /\ seen.id = copy.id /\ copy.id # 0
  /\ pc = "unfinalize" =>
       /\ copy.life = "deleting"
       /\ active \/ (copy.id # 0 /\ host.id # copy.id) \/ err = "retry"

\* Somebody will wake the object.
Woken == queued \/ obj.life # "live"

\* A Reconcile whose copy is stale is followed by another; one that waits has a
\* monitor; one that ends for good has found changes refused.
WakeInv ==
  /\ pc \in {"scope", "factory", "factoryFlag", "gate"} /\ fresh => copy = obj
  /\ pc # "idle" => fresh \/ Woken
  /\ pc = "status" /\ err = "wait" => mon.kind # "none" \/ Woken
  /\ pc = "status" /\ err = "ignored" => copy.reconciled /\ copy.annot = "none"

-----------------------------------------------------------------------------
\* The latest generation of the object and of its profile was observed, and no profile
\* changed that has no generation to observe.
Current(o) == o.observed = o.gen /\ o.observedProfile = chain.gen /\ ~chain.base

\* The configuration of the host is the one o asks for, as far as o's defaults are known.
Fits(o) == /\ host.nets = chain.want.nets
           /\ IF chain.want.oos = 0 THEN o.defaults \in {0, host.oos}
              ELSE host.oos = chain.want.oos

\* The host is the first, or there has been none.
NotLost == host.id = 1 \/ (host.id = 0 /\ nextId = 1)

\* The steps of ReconcileExistingHost, and those with a comparison that still holds.
Existing == {"populate", "finalize", "defaults", "defaultFlag", "compare",
             "decide", "enabled", "strategy", "disabled", "final", "unlockRequired", "status"}
Compared == {"finalize", "defaults", "defaultFlag", "compare", "decide", "enabled", "strategy",
             "disabled"}

\* The steps of a Reconcile after UpdateConfigStatus.
Observed == Existing \cup {"get", "new", "delete", "unfinalize"}

\* Generations only grow, and the observed ones follow them.
GenInv ==
  /\ obj.gen # 0 /\ chain.gen # 0
  /\ obj.observed \leq obj.gen /\ obj.observedProfile \leq chain.gen
  /\ pc \in Observed => obj.observed # 0 /\ obj.observedProfile # 0
  /\ obj.observed = 0 \/ obj.observedProfile = 0 => ~obj.reconciled

\* An object about to enter Day-2 operation asks for no strategy.
ScopeOK(o) ==
  o.scope = "bootstrap" /\ o.asked = "principal" /\ o.observed = o.gen
  => o.strategy = "not_required"

\* A Reconcile with a profile that is out of date has a generation yet to observe, or
\* found the required strategy withdrawn by the one it observed.
ProfileInv ==
  /\ pc \in {"scope", "factory", "factoryFlag", "gate", "annotate", "observe"}
     => profile = chain.want \/ ~Current(obj)
  /\ pc \in Existing \cup {"get", "new"} /\ pc # "status" /\ Current(obj) /\ obj.scope = "principal"
     => profile = chain.want \/ obj.strategy = "not_required"

\* What the controller has not seen yet, it will.
CurrentInv ==
  pc \in Observed \/ (pc = "idle" /\ obj.scope = "principal")
  => Current(obj) \/ Woken \/ notify \/ chain.base

\* While the object lives and the host is not lost, that is the one that was found, what
\* was read of its out-of-service configuration still holds, and after the last request it
\* is as asked.
KnownInv ==
  obj.life = "live" /\ NotLost =>
    /\ pc \in Existing => seen.id # 0 /\ host.id = seen.id
    /\ pc \in Compared => /\ host.id = snap.id
                          /\ host.oos = snap.oos /\ host.nets = snap.nets
    /\ pc \in {"final", "unlockRequired"}
       => host.oos = Effective(copy) /\ host.nets = profile.nets
    /\ host.id = 0 => obj.strategy = "not_required"

\* A host that was locked when the pass began is not found unlocked later in it, so that
\* no pass ends in sync with a strategy that the status then takes for carried out.
SeenInv ==
  /\ pc \in Existing /\ LockedDisabled(seen) => ~UnlockedEnabled(host)
  /\ pc \in Compared /\ LockedDisabled(seen) => ~UnlockedEnabled(snap)
  /\ pc = "status" /\ fresh /\ err = "none" /\ copy.strategy = "lock_required"
     => ~LockedDisabled(seen)

Unlockable(o) ==
  /\ o.strategy = "unlock_required" /\ o.scope = "principal" /\ Current(o)
  /\ o.life = "live" /\ NotLost

\* An object that asks to be unlocked fits its host, and what is saved does, too.
UnlockInv ==
  /\ ScopeOK(obj) /\ (pc = "status" /\ fresh => ScopeOK(copy))
  /\ Unlockable(obj) => Fits(obj)
  /\ pc = "status" /\ fresh /\ Unlockable(copy) => Fits(copy)

-----------------------------------------------------------------------------
(* Objects and hosts keep their types when their fields are assigned.      *)

LEMMA ObjectUpdates ==
  ASSUME NEW o \in Objects
  PROVE  /\ [o EXCEPT !.scope = o.asked] \in Objects
         /\ [o EXCEPT !.reconciled = FALSE] \in Objects
         /\ [o EXCEPT !.finalizer = TRUE] \in Objects
         /\ [o EXCEPT !.finalizer = FALSE, !.life = "gone"] \in Objects
         /\ \A a \in {"none", "day2", "true", "other"} : [o EXCEPT !.annot = a] \in Objects
         /\ \A d \in 0..2 : [o EXCEPT !.defaults = d] \in Objects
         /\ \A s \in Strategies : [o EXCEPT !.strategy = s] \in Objects
         /\ \A b \in BOOLEAN, d \in SUBSET {"admin", "oos", "nets", "fs", "routes"} :
              [o EXCEPT !.inSync = b, !.delta = d] \in Objects
BY DEF Objects

LEMMA ObservedTyped ==
  ASSUME NEW o \in Objects, chain.gen \in Nat
  PROVE  ObserveProfile(o) \in Objects /\ Observe(o) \in Objects
<1>1. ASSUME NEW q \in Objects
      PROVE  ObserveProfile(q) \in Objects
  <2>1. \A g \in Nat : [q EXCEPT !.profileUpdated = FALSE, !.observedProfile = g] \in Objects
    BY <1>1 DEF Objects
  <2>2. \A g \in Nat, s \in Strategies :
          [q EXCEPT !.profileUpdated = TRUE, !.reconciled = FALSE, !.strategy = s,
                    !.observedProfile = g] \in Objects
    BY <1>1 DEF Objects
  <2>3. "not_required" \in Strategies
    BY DEF Strategies
  <2> QED
    BY <1>1, <2>1, <2>2, <2>3 DEF ObserveProfile
<1>2. ASSUME NEW q \in Objects
      PROVE  ObserveGeneration(q) \in Objects
  <2>1. \A g \in Nat : [q EXCEPT !.updated = FALSE, !.observed = g] \in Objects
    BY <1>2 DEF Objects
  <2>2. \A g \in Nat, s \in Strategies, b \in BOOLEAN :
          [q EXCEPT !.updated = TRUE, !.strategy = s, !.reconciled = (@ /\ b),
                    !.observed = g] \in Objects
    BY <1>2 DEF Objects
  <2>3. "not_required" \in Strategies /\ q.gen \in Nat /\ (q.scope # "principal") \in BOOLEAN
    BY <1>2 DEF Strategies, Objects
  <2> QED
    BY <1>2, <2>1, <2>2, <2>3 DEF ObserveGeneration
<1> QED
  BY <1>1, <1>2 DEF Observe

LEMMA UserUpdates ==
  ASSUME NEW o \in Objects
  PROVE  /\ \A a \in Scopes : [o EXCEPT !.gen = @ + 1, !.asked = a] \in Objects
         /\ [o EXCEPT !.gen = @ + 1, !.life = IF o.finalizer THEN "deleting" ELSE "gone"]
              \in Objects
<1>1. o.gen + 1 \in Nat
  BY DEF Objects
<1>2. \A g \in Nat, a \in Scopes : [o EXCEPT !.gen = g, !.asked = a] \in Objects
  BY ConstantsAssumption DEF Objects
<1>3. \A g \in Nat, l \in {"deleting", "gone"} : [o EXCEPT !.gen = g, !.life = l] \in Objects
  BY DEF Objects
<1> QED
  BY <1>1, <1>2, <1>3

LEMMA SettledTyped ==
  ASSUME NEW o \in Objects, NEW b \in BOOLEAN, seen \in Hosts
  PROVE  Settled(o, b) \in Objects
<1> DEFINE r == Recorded(o, b)
<1>1. r \in Objects
  <2>1. \A i \in Nat, d \in 0..2, s \in States :
          [o EXCEPT !.defaults = d, !.id = i, !.state = s, !.inSync = b] \in Objects
    BY DEF Objects
  <2>2. seen.id \in Nat /\ seen.state \in States /\ o.defaults \in 0..2 /\ 0 \in 0..2
    BY DEF Hosts, Objects
  <2> QED
    BY <2>1, <2>2 DEF Recorded
<1>2. SettledStrategy(r) \in Strategies
  <2> HIDE DEF r
  <2>1. r.strategy \in Strategies
    BY <1>1 DEF Objects
  <2> QED
    BY <2>1 DEF SettledStrategy, Strategies
<1>3. ASSUME NEW q \in Objects, NEW s \in Strategies
      PROVE  [q EXCEPT !.strategy = s, !.reconciled = (@ \/ b),
                       !.updated = (@ /\ (q.reconciled \/ ~b)),
                       !.profileUpdated = (@ /\ (q.reconciled \/ ~b))] \in Objects
  BY <1>3 DEF Objects
<1> HIDE DEF r
<1> QED
  BY <1>1, <1>2, <1>3 DEF Settled, r

LEMMA HostUpdates ==
  ASSUME NEW h \in Hosts
  PROVE  /\ \A s \in States : [h EXCEPT !.state = s] \in Hosts
         /\ [h EXCEPT !.named = TRUE] \in Hosts
         /\ \A v \in 1..2, r \in 1..2 : [h EXCEPT !.fs = v, !.routes = r] \in Hosts
         /\ \A v \in 0..2, n \in 1..2, r \in 1..2 :
              [h EXCEPT !.oos = v, !.nets = n, !.routes = r] \in Hosts
         /\ \A n \in 1..2 : [h EXCEPT !.nets = n] \in Hosts /\ [h EXCEPT !.nets = n].oos = h.oos
BY DEF Hosts

LEMMA NoHostTyped ==
  NoHost \in Hosts /\ NoHost.oos = 1 /\ NoHost.id = 0 /\ NoHost.state = "none"
BY DEF NoHost, Hosts, States

LEMMA NewHostTyped ==
  ASSUME NEW i \in Nat, NEW n \in BOOLEAN, NEW s \in States
  PROVE  /\ [NoHost EXCEPT !.id = i, !.named = n, !.state = s] \in Hosts
         /\ [NoHost EXCEPT !.id = i, !.named = n, !.state = s].oos = 1
         /\ [NoHost EXCEPT !.id = i, !.state = s] \in Hosts
         /\ [NoHost EXCEPT !.id = i, !.state = s].oos = 1
BY NoHostTyped DEF Hosts

-----------------------------------------------------------------------------
(* The requests keep the types.                                            *)

Monitors == [kind : Kinds, id : Nat, last : States]

LEMMA EventTyped ==
  ASSUME EnvTyped, NEW kind, Event(kind) \/ NoFault
  PROVE  events' \in Nat
BY DEF EnvTyped, Event, NoFault

LEMMA MonitorTyped ==
  ASSUME TypeInv
  PROVE  /\ CancelMonitor => mon' \in Monitors
         /\ \A kind \in Kinds : StartMonitor(kind) => mon' \in Monitors
BY DEF TypeInv, PassTyped, Hosts, CancelMonitor, StartMonitor, Monitors, Kinds, States

LEMMA ReturnTyped ==
  ASSUME TypeInv, NEW again \in BOOLEAN, Return(again), obj' \in Objects
  PROVE  PassTyped'
<1>1. chain.want \in Wants
  BY DEF TypeInv, EnvTyped, Chains
<1>2. "idle" \in PCs /\ "idle" \notin WithDefaults
  BY DEF PCs, WithDefaults
<1>3. queued' \in BOOLEAN /\ fresh' \in BOOLEAN /\ scoped' \in BOOLEAN
  BY DEF Return, TypeInv, PassTyped
<1>4. copy' \in Objects /\ profile' \in Wants /\ pc' \in PCs /\ pc' \notin WithDefaults
  BY <1>1, <1>2 DEF Return
<1>5. seen' \in Hosts /\ snap' \in Hosts /\ snap'.oos # 0 /\ err' = "none"
  BY NoHostTyped DEF Return
<1> QED
  BY <1>3, <1>4, <1>5 DEF PassTyped

LEMMA WriteTyped ==
  ASSUME TypeInv, NEW new \in Objects, Write(new)
  PROVE  /\ obj' \in Objects /\ copy' \in Objects
         /\ queued' \in BOOLEAN /\ fresh' \in BOOLEAN /\ events' \in Nat
BY DEF Write, TypeInv, PassTyped, EnvTyped, NoFault

LEMMA WriteFailsTyped ==
  ASSUME TypeInv, NEW new \in Objects, WriteFails(new)
  PROVE  obj' \in Objects /\ queued' \in BOOLEAN /\ events' \in Nat
<1>1. events' \in Nat
  BY DEF WriteFails, TypeInv, EnvTyped, NoFault, Fault, Event
<1>2. obj' \in {obj, new} /\ queued' \in BOOLEAN
  BY DEF WriteFails, TypeInv, PassTyped
<1> QED
  BY <1>1, <1>2 DEF TypeInv, PassTyped

LEMMA KeepsValuesTyped ==
  ASSUME TypeInv, NEW new \in Objects, KeepsValues(new)
  PROVE  copy' \in Objects /\ fresh' \in BOOLEAN
BY DEF KeepsValues, TypeInv, PassTyped

LEMMA ReadAndWriteTyped ==
  ASSUME TypeInv, NEW new \in Objects, NEW next \in PCs \ WithDefaults, ReadAndWrite(new, next)
  PROVE  PassTyped' /\ events' \in Nat
<1>1. events' \in Nat
  <2>1. Fault \/ NoFault
    BY DEF ReadAndWrite
  <2> QED
    BY <2>1, EventTyped DEF TypeInv, Fault
<1>2. CASE Return(TRUE)
  <2>1. obj' \in {obj, new}
    BY DEF ReadAndWrite
  <2>2. obj' \in Objects
    BY <2>1 DEF TypeInv, PassTyped
  <2> QED
    BY <1>1, <1>2, <2>2, ReturnTyped
<1>3. CASE ~Return(TRUE)
  <2>1. /\ obj' = new /\ copy' = new /\ fresh' = TRUE
        /\ queued' = (queued \/ new # obj)
        /\ pc' = next
        /\ UNCHANGED <<profile, scoped, seen, snap, err>>
    BY <1>3 DEF ReadAndWrite, Goto
  <2> QED
    BY <1>1, <2>1 DEF TypeInv, PassTyped
<1> QED
  BY <1>2, <1>3

\* A step of the controller that leaves the system alone.
LEMMA EnvKept ==
  ASSUME TypeInv, UNCHANGED <<profileVars, sysVars, vimVars>>,
         report' \in Strategies \cup {"absent"}, mon' \in Monitors, events' \in Nat,
         factory' \in [round : BOOLEAN, reconciled : BOOLEAN, default : BOOLEAN]
  PROVE  EnvTyped'
BY DEF TypeInv, EnvTyped, profileVars, sysVars, vimVars, Monitors

\* ReconcileExistingHost goes on to next, or leaves.
LEMMA GoesOnTyped ==
  ASSUME TypeInv, NEW next \in PCs, pc' = next, err' \in {"none", "retry", "wait", "ignored"},
         next \in WithDefaults => copy.defaults # 0,
         UNCHANGED <<kubeVars, copy, fresh, profile, scoped, seen, snap>>
  PROVE  PassTyped'
BY DEF TypeInv, PassTyped, kubeVars

\* The object and the host at the start.
LEMMA InitShape ==
  ASSUME Init
  PROVE  /\ obj \in Objects /\ obj.id \in {0, host.id} /\ obj.strategy = "not_required"
         /\ obj.observed \in {0, 1} /\ obj.observedProfile \in {0, 1} /\ obj.gen \in {1, 2}
         /\ obj.observed = 0 \/ obj.observedProfile = 0 => ~obj.reconciled
         /\ chain.gen = 1 /\ chain.want \in Wants /\ chain \in Chains
         /\ \/ host = NoHost
            \/ \E n \in BOOLEAN : host = [NoHost EXCEPT !.id = 1, !.named = n, !.state = "online"]
            \/ \E old \in Wants :
                 host = [id |-> 1, named |-> TRUE, state |-> "available",
                         oos |-> IF old.oos = 0 THEN 1 ELSE old.oos, nets |-> old.nets,
                         fs |-> old.fs, routes |-> old.routes]
         /\ factory \in [round : BOOLEAN, reconciled : BOOLEAN, default : BOOLEAN]
<1>1. PICK want \in Wants, asked \in Scopes :
        /\ chain = [gen |-> 1, base |-> FALSE, want |-> want]
        /\ \/ /\ obj = NewObject(asked)
              /\ host \in {NoHost} \cup
                          {[NoHost EXCEPT !.id = 1, !.named = n, !.state = "online"] :
                             n \in BOOLEAN}
              /\ factory = [round |-> FALSE, reconciled |-> FALSE, default |-> FALSE]
           \/ \E old \in {w \in Wants : w.admin = "unlocked"} :
                /\ obj = [NewObject(asked) EXCEPT
                            !.gen = IF want = old THEN 1 ELSE 2,
                            !.finalizer = TRUE, !.observed = 1, !.observedProfile = 1,
                            !.reconciled = TRUE, !.inSync = TRUE, !.id = 1,
                            !.defaults = 1, !.state = "available"]
                /\ host = [id |-> 1, named |-> TRUE, state |-> "available",
                           oos |-> IF old.oos = 0 THEN 1 ELSE old.oos, nets |-> old.nets,
                           fs |-> old.fs, routes |-> old.routes]
                /\ factory \in [round : BOOLEAN, reconciled : {FALSE}, default : {FALSE}]
  BY DEF Init
<1>2. chain \in Chains /\ chain.want \in Wants
  BY <1>1 DEF Chains
<1>3. NewObject(asked) \in Objects
  BY ConstantsAssumption DEF NewObject, Objects, Strategies, States
<1>4. \/ host = NoHost
      \/ \E n \in BOOLEAN : host = [NoHost EXCEPT !.id = 1, !.named = n, !.state = "online"]
      \/ \E old \in Wants :
           host = [id |-> 1, named |-> TRUE, state |-> "available",
                   oos |-> IF old.oos = 0 THEN 1 ELSE old.oos, nets |-> old.nets,
                   fs |-> old.fs, routes |-> old.routes]
  BY <1>1, Zenon
<1>5. factory \in [round : BOOLEAN, reconciled : BOOLEAN, default : BOOLEAN]
  <2>1. CASE factory = [round |-> FALSE, reconciled |-> FALSE, default |-> FALSE]
    BY <2>1
  <2>2. CASE factory \in [round : BOOLEAN, reconciled : {FALSE}, default : {FALSE}]
    BY <2>2
  <2> QED
    BY <1>1, <2>1, <2>2
<1>6. chain.gen = 1 /\ chain.want \in Wants /\ chain \in Chains
  BY <1>1 DEF Chains
<1>7. CASE obj = NewObject(asked)
  <2>1. obj = [life |-> "live", gen |-> 1, asked |-> asked, annot |-> "none",
               finalizer |-> FALSE, scope |-> "bootstrap", observed |-> 0,
               observedProfile |-> 0, updated |-> FALSE, profileUpdated |-> FALSE,
               reconciled |-> FALSE, inSync |-> FALSE, strategy |-> "not_required", id |-> 0,
               defaults |-> 0, state |-> "none", delta |-> {}]
    BY <1>7 DEF NewObject
  <2>2. /\ obj.id \in {0, host.id} /\ obj.strategy = "not_required"
        /\ obj.observed \in {0, 1} /\ obj.observedProfile \in {0, 1} /\ obj.gen \in {1, 2}
        /\ obj.observed = 0 \/ obj.observedProfile = 0 => ~obj.reconciled
    BY <2>1
  <2>3. obj \in Objects
    BY <1>3, <1>7
  <2> QED
    BY <1>4, <1>5, <1>6, <2>2, <2>3, Zenon
<1>8. CASE host.id = 1 /\ \E old \in Wants :
             obj = [NewObject(asked) EXCEPT
                      !.gen = IF want = old THEN 1 ELSE 2,
                      !.finalizer = TRUE, !.observed = 1, !.observedProfile = 1,
                      !.reconciled = TRUE, !.inSync = TRUE, !.id = 1,
                      !.defaults = 1, !.state = "available"]
  <2>1. PICK g \in {1, 2} :
             obj = [NewObject(asked) EXCEPT
                      !.gen = g, !.finalizer = TRUE, !.observed = 1, !.observedProfile = 1,
                      !.reconciled = TRUE, !.inSync = TRUE, !.id = 1,
                      !.defaults = 1, !.state = "available"]
    BY <1>8
  <2>2. obj = [life |-> "live", gen |-> g, asked |-> asked, annot |-> "none",
               finalizer |-> TRUE, scope |-> "bootstrap", observed |-> 1,
               observedProfile |-> 1, updated |-> FALSE, profileUpdated |-> FALSE,
               reconciled |-> TRUE, inSync |-> TRUE, strategy |-> "not_required", id |-> 1,
               defaults |-> 1, state |-> "available", delta |-> {}]
    BY <2>1 DEF NewObject
  <2>3. obj \in Objects
    BY <2>2, ConstantsAssumption DEF Objects, Strategies, States
  <2>4. /\ obj.id \in {0, host.id} /\ obj.strategy = "not_required"
        /\ obj.observed \in {0, 1} /\ obj.observedProfile \in {0, 1} /\ obj.gen \in {1, 2}
        /\ obj.observed = 0 \/ obj.observedProfile = 0 => ~obj.reconciled
    <3>1. host.id = 1
      BY <1>8
    <3> QED
      BY <2>2, <3>1
  <2> QED
    BY <1>4, <1>5, <1>6, <2>3, <2>4, Zenon
<1>9. CASE obj # NewObject(asked)
  <2>1. \E old \in Wants :
             /\ obj = [NewObject(asked) EXCEPT
                         !.gen = IF want = old THEN 1 ELSE 2,
                         !.finalizer = TRUE, !.observed = 1, !.observedProfile = 1,
                         !.reconciled = TRUE, !.inSync = TRUE, !.id = 1,
                         !.defaults = 1, !.state = "available"]
             /\ host = [id |-> 1, named |-> TRUE, state |-> "available",
                        oos |-> IF old.oos = 0 THEN 1 ELSE old.oos, nets |-> old.nets,
                        fs |-> old.fs, routes |-> old.routes]
    BY <1>1, <1>9, Zenon
  <2>2. host.id = 1
    BY <2>1
  <2> QED
    BY <1>8, <2>1, <2>2, Zenon
<1> QED
  BY <1>7, <1>9

LEMMA InitTyped == Init => TypeInv
<1> SUFFICES ASSUME Init PROVE TypeInv
  OBVIOUS
<1>2. chain \in Chains /\ chain.want \in Wants
  BY InitShape
<1>4. obj \in Objects
  BY InitShape
<1>5. host \in Hosts /\ host.oos # 0
  <2>1. CASE host = NoHost
    BY <2>1, NoHostTyped
  <2>2. CASE \E n \in BOOLEAN : host = [NoHost EXCEPT !.id = 1, !.named = n, !.state = "online"]
    <3>1. PICK n \in BOOLEAN : host = [NoHost EXCEPT !.id = 1, !.named = n, !.state = "online"]
      BY <2>2
    <3>2. "online" \in States /\ 1 \in Nat
      BY DEF States
    <3> QED
      <4>1. host \in Hosts /\ host.oos = 1
        BY <3>1, <3>2, NewHostTyped, Zenon
      <4> QED
        BY <4>1
  <2>3. CASE \E old \in Wants :
               host = [id |-> 1, named |-> TRUE, state |-> "available",
                       oos |-> IF old.oos = 0 THEN 1 ELSE old.oos, nets |-> old.nets,
                       fs |-> old.fs, routes |-> old.routes]
    <3>1. PICK old \in Wants :
               host = [id |-> 1, named |-> TRUE, state |-> "available",
                       oos |-> IF old.oos = 0 THEN 1 ELSE old.oos, nets |-> old.nets,
                       fs |-> old.fs, routes |-> old.routes]
      BY <2>3
    <3>2. old \in Asked
      BY ConstantsAssumption
    <3>3. old.oos \in 0..2 /\ old.nets \in 1..2 /\ old.fs \in 1..2 /\ old.routes \in 1..2
      BY <3>2 DEF Asked
    <3> DEFINE v == IF old.oos = 0 THEN 1 ELSE old.oos
    <3>4. v \in 0..2 /\ v # 0
      BY <3>3
    <3> HIDE DEF v
    <3> QED
      BY <3>1, <3>3, <3>4 DEF Hosts, States, v
  <2> QED
    BY <2>1, <2>2, <2>3, InitShape
<1>6. factory \in [round : BOOLEAN, reconciled : BOOLEAN, default : BOOLEAN]
  BY InitShape
<1>7. /\ queued = TRUE /\ notify = FALSE /\ nextId = host.id + 1
      /\ controllers \in Nat /\ active \in {FALSE, host.named}
      /\ report = "absent" /\ sent = FALSE /\ stage = "none"
      /\ mon = [kind |-> "none", id |-> 0, last |-> "none"]
      /\ pc = "idle" /\ copy = obj /\ fresh = FALSE /\ scoped = FALSE
      /\ profile = chain.want
      /\ seen = NoHost /\ snap = NoHost /\ err = "none"
      /\ events = 0
  BY DEF Init
<1>8. EnvTyped
  <2>1. mon \in Monitors
    BY <1>7 DEF Monitors, Kinds, States
  <2>2. active \in BOOLEAN
    <3>1. host.named \in BOOLEAN
      BY <1>5 DEF Hosts
    <3> QED
      BY <1>7, <3>1, Zenon
  <2>3. nextId \in Nat
    BY <1>5, <1>7 DEF Hosts
  <2> QED
    BY <1>2, <1>5, <1>6, <1>7, <2>1, <2>2, <2>3 DEF EnvTyped, Monitors
<1>9. PassTyped
  <2>1. pc \in PCs /\ pc \notin WithDefaults
    BY <1>7 DEF PCs, WithDefaults
  <2>2. queued \in BOOLEAN /\ fresh \in BOOLEAN /\ scoped \in BOOLEAN
    BY <1>7
  <2>3. profile \in Wants /\ copy \in Objects
    BY <1>2, <1>4, <1>7
  <2> QED
    BY <1>4, <1>7, <2>1, <2>2, <2>3, NoHostTyped DEF PassTyped
<1> QED
  BY <1>8, <1>9 DEF TypeInv

-----------------------------------------------------------------------------
(* Type correctness.                                                       *)

Flags == [round : BOOLEAN, reconciled : BOOLEAN, default : BOOLEAN]

\* Reconcile up to the annotation.
LEMMA FirstStepsTyped ==
  ASSUME TypeInv,
         FetchInstance \/ UpdateDeploymentScope \/ UpdateStatusForFactoryInstall
         \/ SetFactoryReconciledUpdated \/ AddFinalizer \/ UpdateAnnotation
         \/ UpdateConfigStatus
  PROVE  TypeInv'
<1>0. /\ obj \in Objects /\ copy \in Objects /\ chain.want \in Wants /\ chain.gen \in Nat
      /\ mon \in Monitors /\ report \in Strategies \cup {"absent"} /\ factory \in Flags
  BY DEF TypeInv, EnvTyped, PassTyped, Monitors, Flags, Chains
<1>1. CASE FetchInstance
  <2>1. mon' \in Monitors
    BY <1>0, <1>1, MonitorTyped DEF FetchInstance
  <2>2. EnvTyped'
    BY <1>0, <1>1, <2>1, EnvKept DEF FetchInstance, TypeInv, EnvTyped, Flags
  <2>3. PassTyped'
    <3>1. pc' \in {pc, "scope"} /\ copy' \in {copy, obj} /\ fresh' \in {fresh, TRUE}
      BY <1>1 DEF FetchInstance, Goto
    <3>2. pc' \in PCs /\ pc' \notin WithDefaults
      BY <1>1, <3>1 DEF FetchInstance, PCs, WithDefaults
    <3>3. profile' \in Wants /\ queued' = FALSE /\ UNCHANGED <<obj, scoped, seen, snap, err>>
      BY <1>0, <1>1 DEF FetchInstance, TypeInv, PassTyped
    <3> QED
      BY <1>0, <3>1, <3>2, <3>3 DEF TypeInv, PassTyped
  <2> QED
    BY <2>2, <2>3 DEF TypeInv
<1>2. CASE UpdateDeploymentScope
  <2> DEFINE new == [copy EXCEPT !.scope = copy.asked]
  <2>1. new \in Objects
    BY <1>0, ObjectUpdates
  <2> HIDE DEF new
  <2>2. UNCHANGED <<profileVars, sysVars, report, vimVars, mon, factory>>
    BY <1>2 DEF UpdateDeploymentScope
  <2>3. \/ pc' = "factory" /\ UNCHANGED <<kubeVars, localVars, events>>
        \/ Write(new) /\ pc' = "factory" /\ scoped' = TRUE /\ UNCHANGED <<profile, seen, snap, err>>
        \/ WriteFails(new) /\ Return(TRUE)
    BY <1>2 DEF UpdateDeploymentScope, Goto, new
  <2>4. events' \in Nat /\ PassTyped'
    <3>1. CASE pc' = "factory" /\ UNCHANGED <<kubeVars, localVars, events>>
      BY <3>1 DEF TypeInv, PassTyped, EnvTyped, kubeVars, localVars, PCs, WithDefaults
    <3>2. CASE Write(new) /\ pc' = "factory" /\ scoped' = TRUE /\ UNCHANGED <<profile, seen, snap, err>>
      <4>1. /\ obj' \in Objects /\ copy' \in Objects
            /\ queued' \in BOOLEAN /\ fresh' \in BOOLEAN /\ events' \in Nat
        BY <2>1, <3>2, WriteTyped
      <4> QED
        BY <3>2, <4>1 DEF TypeInv, PassTyped, PCs, WithDefaults
    <3>3. CASE WriteFails(new) /\ Return(TRUE)
      BY <2>1, <3>3, WriteFailsTyped, ReturnTyped
    <3> QED
      BY <2>3, <3>1, <3>2, <3>3
  <2> QED
    BY <1>0, <2>2, <2>4, EnvKept DEF TypeInv, Flags
<1>3. CASE UpdateStatusForFactoryInstall
  <2> DEFINE new == [copy EXCEPT !.reconciled = FALSE]
  <2>1. new \in Objects
    BY <1>0, ObjectUpdates
  <2> HIDE DEF new
  <2>2. UNCHANGED <<profileVars, sysVars, report, vimVars, mon, factory>>
    BY <1>3 DEF UpdateStatusForFactoryInstall
  <2>3. \/ pc' = "gate" /\ UNCHANGED <<kubeVars, localVars, events>>
        \/ Write(new) /\ pc' = "factoryFlag" /\ UNCHANGED <<profile, scoped, seen, snap, err>>
        \/ WriteFails(new) /\ Return(TRUE)
    BY <1>3 DEF UpdateStatusForFactoryInstall, Goto, new
  <2>4. events' \in Nat /\ PassTyped'
    <3>1. CASE pc' = "gate" /\ UNCHANGED <<kubeVars, localVars, events>>
      BY <3>1 DEF TypeInv, PassTyped, EnvTyped, kubeVars, localVars, PCs, WithDefaults
    <3>2. CASE Write(new) /\ pc' = "factoryFlag" /\ UNCHANGED <<profile, scoped, seen, snap, err>>
      <4>1. /\ obj' \in Objects /\ copy' \in Objects
            /\ queued' \in BOOLEAN /\ fresh' \in BOOLEAN /\ events' \in Nat
        BY <2>1, <3>2, WriteTyped
      <4> QED
        BY <3>2, <4>1 DEF TypeInv, PassTyped, PCs, WithDefaults
    <3>3. CASE WriteFails(new) /\ Return(TRUE)
      BY <2>1, <3>3, WriteFailsTyped, ReturnTyped
    <3> QED
      BY <2>3, <3>1, <3>2, <3>3
  <2> QED
    BY <1>0, <2>2, <2>4, EnvKept DEF TypeInv, Flags
<1>4. CASE SetFactoryReconciledUpdated
  <2>1. events' \in Nat
    BY <1>4, EventTyped DEF SetFactoryReconciledUpdated, TypeInv, Fault
  <2>2. factory' \in Flags
    <3>1. [factory EXCEPT !.reconciled = TRUE] \in Flags
      BY <1>0 DEF Flags
    <3> QED
      BY <1>0, <1>4, <3>1 DEF SetFactoryReconciledUpdated
  <2>3. PassTyped'
    <3>1. CASE pc' = "gate" /\ UNCHANGED <<kubeVars, localVars>>
      BY <3>1 DEF TypeInv, PassTyped, kubeVars, localVars, PCs, WithDefaults
    <3>2. CASE UNCHANGED obj /\ Return(TRUE)
      BY <1>0, <3>2, ReturnTyped
    <3> QED
      BY <1>4, <3>1, <3>2 DEF SetFactoryReconciledUpdated, Goto
  <2> QED
    BY <1>0, <1>4, <2>1, <2>2, <2>3, EnvKept DEF SetFactoryReconciledUpdated, TypeInv, Flags
<1>5. CASE AddFinalizer
  <2> DEFINE new == [copy EXCEPT !.finalizer = TRUE]
  <2>1. new \in Objects
    BY <1>0, ObjectUpdates
  <2> HIDE DEF new
  <2>2. UNCHANGED <<profileVars, sysVars, report, vimVars, mon, factory>>
    BY <1>5 DEF AddFinalizer
  <2>3. \/ pc' = "annotate" /\ UNCHANGED <<kubeVars, localVars, events>>
        \/ UNCHANGED <<obj, events>> /\ Return(FALSE)
        \/ NoFault /\ obj' = new /\ Return(FALSE)
        \/ WriteFails(new) /\ Return(TRUE)
    BY <1>5 DEF AddFinalizer, Goto, new
  <2>4. events' \in Nat /\ PassTyped'
    <3>1. CASE pc' = "annotate" /\ UNCHANGED <<kubeVars, localVars, events>>
      BY <3>1 DEF TypeInv, PassTyped, EnvTyped, kubeVars, localVars, PCs, WithDefaults
    <3>2. CASE UNCHANGED <<obj, events>> /\ Return(FALSE)
      BY <1>0, <3>2, ReturnTyped DEF TypeInv, EnvTyped
    <3>3. CASE NoFault /\ obj' = new /\ Return(FALSE)
      BY <2>1, <3>3, ReturnTyped DEF TypeInv, EnvTyped, NoFault
    <3>4. CASE WriteFails(new) /\ Return(TRUE)
      BY <2>1, <3>4, WriteFailsTyped, ReturnTyped
    <3> QED
      BY <2>3, <3>1, <3>2, <3>3, <3>4
  <2> QED
    BY <1>0, <2>2, <2>4, EnvKept DEF TypeInv, Flags
<1>6. CASE UpdateAnnotation
  <2>1. [obj EXCEPT !.annot = AfterInSync(obj)] \in Objects
    <3>1. AfterInSync(obj) \in {"none", "day2", "true", "other"}
      BY <1>0 DEF AfterInSync, Objects
    <3> QED
      BY <1>0, <3>1, ObjectUpdates
  <2>2. "observe" \in PCs \ WithDefaults
    BY DEF PCs, WithDefaults
  <2>3. PassTyped' /\ events' \in Nat
    BY <1>6, <2>1, <2>2, ReadAndWriteTyped DEF UpdateAnnotation
  <2> QED
    BY <1>0, <1>6, <2>3, EnvKept DEF UpdateAnnotation, TypeInv, Flags
<1>7. CASE UpdateConfigStatus
  <2>1. Observe(obj) \in Objects
    BY <1>0, ObservedTyped
  <2>2. "get" \in PCs \ WithDefaults
    BY DEF PCs, WithDefaults
  <2>3. PassTyped' /\ events' \in Nat
    BY <1>7, <2>1, <2>2, ReadAndWriteTyped DEF UpdateConfigStatus
  <2>4. report' \in Strategies \cup {"absent"}
    <3>1. report' \in {report, "not_required"}
      BY <1>7 DEF UpdateConfigStatus
    <3> QED
      BY <1>0, <3>1 DEF Strategies
  <2> QED
    BY <1>0, <1>7, <2>3, <2>4, EnvKept DEF UpdateConfigStatus, TypeInv, Flags
<1> QED
  BY <1>1, <1>2, <1>3, <1>4, <1>5, <1>6, <1>7

\* A monitor that ReconcileNewHost or ReconcileDeletedHost starts before it returns.
LEMMA ReturnWaitingTyped ==
  ASSUME TypeInv, NEW kind \in Kinds, ReturnWaiting(kind)
  PROVE  PassTyped' /\ mon' \in Monitors
BY MonitorTyped, ReturnTyped DEF ReturnWaiting, TypeInv, PassTyped

\* Finding, creating and deleting the host.
LEMMA LifecycleTyped ==
  ASSUME TypeInv, GetHost \/ ReconcileNewHost \/ ReconcileDeletedHost \/ RemoveHostFinalizer
  PROVE  TypeInv'
<1>0. /\ obj \in Objects /\ copy \in Objects /\ host \in Hosts /\ host.oos # 0
      /\ mon \in Monitors /\ report \in Strategies \cup {"absent"} /\ factory \in Flags
      /\ nextId \in Nat
  BY DEF TypeInv, EnvTyped, PassTyped, Monitors, Flags
<1>1. CASE GetHost
  <2>1. events' \in Nat
    <3>1. Fault \/ NoFault
      BY <1>1 DEF GetHost
    <3> QED
      BY <3>1, EventTyped DEF TypeInv, Fault
  <2>2. \/ /\ pc' \in {"delete", "populate", "new"} /\ seen' = host
           /\ UNCHANGED <<kubeVars, copy, fresh, profile, scoped, snap, err>>
        \/ /\ pc' = "unfinalize" /\ err' = "retry"
           /\ UNCHANGED <<kubeVars, copy, fresh, profile, scoped, seen, snap>>
        \/ \E again \in BOOLEAN : UNCHANGED obj /\ Return(again)
    BY <1>1 DEF GetHost, Goto
  <2>3. PassTyped'
    <3>1. CASE /\ pc' \in {"delete", "populate", "new"} /\ seen' = host
               /\ UNCHANGED <<kubeVars, copy, fresh, profile, scoped, snap, err>>
      BY <1>0, <3>1 DEF TypeInv, PassTyped, kubeVars, PCs, WithDefaults
    <3>2. CASE /\ pc' = "unfinalize" /\ err' = "retry"
               /\ UNCHANGED <<kubeVars, copy, fresh, profile, scoped, seen, snap>>
      BY <3>2 DEF TypeInv, PassTyped, kubeVars, PCs, WithDefaults
    <3>3. CASE \E again \in BOOLEAN : UNCHANGED obj /\ Return(again)
      BY <1>0, <3>3, ReturnTyped
    <3> QED
      BY <2>2, <3>1, <3>2, <3>3
  <2> QED
    BY <1>0, <1>1, <2>1, <2>3, EnvKept DEF GetHost, TypeInv, Flags
<1>2. CASE ReconcileNewHost
  <2> DEFINE created == [NoHost EXCEPT !.id = nextId, !.named = TRUE, !.state = "offline"]
             found == [host EXCEPT !.named = TRUE]
  <2>1. created \in Hosts /\ created.oos = 1
    <3>1. "offline" \in States
      BY DEF States
    <3> QED
      BY <1>0, <3>1, NewHostTyped, Zenon
  <2>2. found \in Hosts /\ found.oos = host.oos
    BY <1>0 DEF Hosts
  <2> HIDE DEF created, found
  <2>3. events' \in Nat
    <3>1. Fault \/ NoFault
      BY <1>2 DEF ReconcileNewHost, ProvisionHost
    <3> QED
      BY <3>1, EventTyped DEF TypeInv, Fault
  <2>4. \/ /\ \E kind \in {"dynamic", "provisioning"} : ReturnWaiting(kind)
           /\ UNCHANGED <<host, nextId>>
        \/ /\ \E again \in BOOLEAN : UNCHANGED <<obj, mon>> /\ Return(again)
           /\ host' \in {host, created, found} /\ nextId' \in {nextId, nextId + 1}
        \/ /\ host' \in {created, found} /\ seen' = host' /\ nextId' \in {nextId, nextId + 1}
           /\ pc' = "populate"
           /\ UNCHANGED <<kubeVars, mon, copy, fresh, profile, scoped, snap, err>>
    BY <1>2 DEF ReconcileNewHost, ProvisionHost, Goto, created, found
  <2>5. PassTyped' /\ mon' \in Monitors
    <3>1. CASE \E kind \in {"dynamic", "provisioning"} : ReturnWaiting(kind)
      BY <3>1, ReturnWaitingTyped DEF Kinds
    <3>2. CASE \E again \in BOOLEAN : UNCHANGED <<obj, mon>> /\ Return(again)
      BY <1>0, <3>2, ReturnTyped
    <3>3. CASE /\ host' \in {created, found} /\ seen' = host'
               /\ pc' = "populate"
               /\ UNCHANGED <<kubeVars, mon, copy, fresh, profile, scoped, snap, err>>
      BY <1>0, <2>1, <2>2, <3>3 DEF TypeInv, PassTyped, kubeVars, PCs, WithDefaults
    <3> QED
      BY <2>4, <3>1, <3>2, <3>3
  <2>6. host' \in Hosts /\ host'.oos # 0 /\ nextId' \in Nat
    <3>1. host' \in {host, created, found} /\ nextId' \in {nextId, nextId + 1}
      BY <2>4
    <3> QED
      BY <1>0, <2>1, <2>2, <3>1
  <2>7. UNCHANGED <<profileVars, controllers, active, report, vimVars, factory>>
    BY <1>2 DEF ReconcileNewHost
  <2> QED
    BY <2>3, <2>5, <2>6, <2>7 DEF TypeInv, EnvTyped, profileVars, vimVars, Monitors
<1>3. CASE ReconcileDeletedHost
  <2>1. events' \in Nat
    <3>1. Fault \/ NoFault
      BY <1>3 DEF ReconcileDeletedHost
    <3> QED
      BY <3>1, EventTyped DEF TypeInv, Fault
  <2>2. \/ pc' = "unfinalize" /\ UNCHANGED <<kubeVars, mon, localVars>>
        \/ \E kind \in {"stable", "lockedDisabled"} : ReturnWaiting(kind)
        \/ UNCHANGED <<obj, mon>> /\ Return(TRUE)
    BY <1>3 DEF ReconcileDeletedHost, Goto
  <2>3. PassTyped' /\ mon' \in Monitors
    <3>1. CASE pc' = "unfinalize" /\ UNCHANGED <<kubeVars, mon, localVars>>
      BY <1>0, <3>1 DEF TypeInv, PassTyped, kubeVars, localVars, PCs, WithDefaults
    <3>2. CASE \E kind \in {"stable", "lockedDisabled"} : ReturnWaiting(kind)
      BY <3>2, ReturnWaitingTyped DEF Kinds
    <3>3. CASE UNCHANGED <<obj, mon>> /\ Return(TRUE)
      BY <1>0, <3>3, ReturnTyped
    <3> QED
      BY <2>2, <3>1, <3>2, <3>3
  <2>4. host' \in Hosts /\ host'.oos # 0
    <3> DEFINE locking == [host EXCEPT !.state = "locking"]
    <3>1. locking \in Hosts /\ locking.oos = host.oos
      BY <1>0 DEF Hosts, States
    <3> HIDE DEF locking
    <3>2. host' \in {host, locking, NoHost}
      BY <1>3 DEF ReconcileDeletedHost, locking
    <3> QED
      BY <1>0, <3>1, <3>2, NoHostTyped
  <2>5. UNCHANGED <<profileVars, nextId, controllers, active, report, vimVars, factory>>
    BY <1>3 DEF ReconcileDeletedHost
  <2> QED
    BY <2>1, <2>3, <2>4, <2>5 DEF TypeInv, EnvTyped, profileVars, vimVars, Monitors
<1>4. CASE RemoveHostFinalizer
  <2> DEFINE new == [copy EXCEPT !.finalizer = FALSE, !.life = "gone"]
  <2>1. new \in Objects
    BY <1>0, ObjectUpdates
  <2> HIDE DEF new
  <2>2. events' \in Nat
    <3>1. Fault \/ NoFault
      BY <1>4 DEF RemoveHostFinalizer
    <3> QED
      BY <3>1, EventTyped DEF TypeInv, Fault
  <2>3. obj' \in {obj, new} /\ Return(err = "retry")
    BY <1>4 DEF RemoveHostFinalizer, new
  <2>4. PassTyped'
    BY <1>0, <2>1, <2>3, ReturnTyped
  <2> QED
    BY <1>0, <1>4, <2>2, <2>4, EnvKept DEF RemoveHostFinalizer, TypeInv, Flags
<1> QED
  BY <1>1, <1>2, <1>3, <1>4

LEMMA WaitTyped ==
  ASSUME TypeInv, NEW kind \in Kinds, Wait(kind)
  PROVE  mon' \in Monitors /\ pc' = "status" /\ err' = "wait"
BY MonitorTyped DEF Wait, Leave

LEMMA ProfileTyped ==
  ASSUME TypeInv
  PROVE  /\ profile.oos \in 0..2 /\ profile.nets \in 1..2
         /\ profile.fs \in 1..2 /\ profile.routes \in 1..2
         /\ Effective(copy) \in 0..2
         /\ copy.defaults # 0 => Effective(copy) # 0
<1>1. profile \in Asked /\ copy.defaults \in 0..2
  BY ConstantsAssumption DEF TypeInv, PassTyped, Objects
<1> QED
  BY <1>1 DEF Asked, Effective

\* ReconcileExistingHost up to the decision what is to be done.
LEMMA ComparisonTyped ==
  ASSUME TypeInv,
         PopulateHostInfo \/ FinalizeFactory \/ BuildHostDefaults \/ SetFactoryDefaultUpdated
         \/ SetInstanceDelta \/ Decide
  PROVE  TypeInv'
<1>0. /\ obj \in Objects /\ copy \in Objects /\ host \in Hosts /\ host.oos # 0
      /\ snap \in Hosts /\ snap.oos # 0 /\ seen \in Hosts
      /\ mon \in Monitors /\ report \in Strategies \cup {"absent"} /\ factory \in Flags
      /\ err \in {"none", "retry", "wait", "ignored"}
      /\ pc \in WithDefaults => copy.defaults # 0
  BY DEF TypeInv, EnvTyped, PassTyped, Monitors, Flags
<1>1. CASE PopulateHostInfo
  <2>1. events' \in Nat
    <3>1. Fault \/ NoFault
      BY <1>1 DEF PopulateHostInfo
    <3> QED
      BY <3>1, EventTyped DEF TypeInv, Fault
  <2>2. /\ mon' \in Monitors /\ pc' \in {"status", "finalize"} /\ snap' \in {snap, host}
        /\ err' \in {err, "wait", "retry"}
    <3>1. CASE Wait("stable") /\ UNCHANGED snap
      BY <3>1, WaitTyped DEF Kinds
    <3>2. CASE ~(Wait("stable") /\ UNCHANGED snap)
      BY <1>0, <1>1, <3>2 DEF PopulateHostInfo, Goto, Leave
    <3> QED
      BY <3>1, <3>2
  <2>3. PassTyped'
    BY <1>0, <1>1, <2>2 DEF PopulateHostInfo, TypeInv, PassTyped, kubeVars, PCs, WithDefaults
  <2> QED
    BY <1>0, <1>1, <2>1, <2>2, <2>3, EnvKept DEF PopulateHostInfo, TypeInv, Flags
<1>2. CASE FinalizeFactory
  <2>1. events' \in Nat
    <3>1. Fault \/ NoFault
      BY <1>2 DEF FinalizeFactory
    <3> QED
      BY <3>1, EventTyped DEF TypeInv, Fault
  <2>2. factory' \in Flags
    <3>1. [factory EXCEPT !.round = FALSE, !.reconciled = FALSE] \in Flags
      BY <1>0 DEF Flags
    <3> QED
      BY <1>0, <1>2, <3>1 DEF FinalizeFactory, SetFactoryConfigFinalized
  <2>3. PassTyped'
    <3>1. pc' \in {"defaults", "status"} /\ err' \in {err, "retry"}
      BY <1>2 DEF FinalizeFactory, Goto, Leave
    <3> QED
      BY <1>0, <1>2, <3>1 DEF FinalizeFactory, TypeInv, PassTyped, kubeVars, PCs, WithDefaults
  <2> QED
    BY <1>0, <1>2, <2>1, <2>2, <2>3, EnvKept DEF FinalizeFactory, TypeInv, Flags
<1>3. CASE BuildHostDefaults
  <2> DEFINE new == [copy EXCEPT !.defaults = snap.oos]
  <2>1. new \in Objects /\ new.defaults = snap.oos
    <3>1. snap.oos \in 0..2
      BY <1>0 DEF Hosts
    <3>2. new \in Objects
      BY <1>0, <3>1, ObjectUpdates
    <3>3. new.defaults = snap.oos
      BY <1>0 DEF Objects
    <3> QED
      BY <3>2, <3>3
  <2> HIDE DEF new
  <2>2. UNCHANGED <<profileVars, sysVars, report, vimVars, factory, profile, scoped, seen, snap>>
    BY <1>3 DEF BuildHostDefaults
  <2>3. \/ /\ copy.defaults # 0 /\ NoFault /\ pc' = "compare"
           /\ UNCHANGED <<kubeVars, mon, copy, fresh, err>>
        \/ NoFault /\ Wait("inventory") /\ UNCHANGED <<kubeVars, copy, fresh>>
        \/ Write(new) /\ pc' \in {"defaultFlag", "compare"} /\ UNCHANGED <<mon, err>>
        \/ WriteFails(new) /\ KeepsValues(new) /\ Leave("retry") /\ UNCHANGED mon
    BY <1>3 DEF BuildHostDefaults, Goto, new
  <2>4. PassTyped' /\ mon' \in Monitors /\ events' \in Nat
    <3>1. CASE /\ copy.defaults # 0 /\ NoFault /\ pc' = "compare"
               /\ UNCHANGED <<kubeVars, mon, copy, fresh, err>>
      BY <1>0, <2>2, <3>1 DEF TypeInv, PassTyped, EnvTyped, NoFault, kubeVars, PCs
    <3>2. CASE NoFault /\ Wait("inventory") /\ UNCHANGED <<kubeVars, copy, fresh>>
      <4>1. mon' \in Monitors /\ pc' = "status" /\ err' = "wait"
        BY <3>2, WaitTyped DEF Kinds
      <4> QED
        BY <1>0, <2>2, <3>2, <4>1
           DEF TypeInv, PassTyped, EnvTyped, NoFault, kubeVars, PCs, WithDefaults
    <3>3. CASE Write(new) /\ pc' \in {"defaultFlag", "compare"} /\ UNCHANGED <<mon, err>>
      <4>1. /\ obj' \in Objects /\ copy' \in Objects /\ copy' = new
            /\ queued' \in BOOLEAN /\ fresh' \in BOOLEAN /\ events' \in Nat
        BY <2>1, <3>3, WriteTyped DEF Write
      <4> QED
        BY <1>0, <2>1, <2>2, <3>3, <4>1 DEF TypeInv, PassTyped, PCs
    <3>4. CASE WriteFails(new) /\ KeepsValues(new) /\ Leave("retry") /\ UNCHANGED mon
      <4>1. /\ obj' \in Objects /\ copy' \in Objects
            /\ queued' \in BOOLEAN /\ fresh' \in BOOLEAN /\ events' \in Nat
        BY <2>1, <3>4, WriteFailsTyped, KeepsValuesTyped
      <4> QED
        BY <1>0, <2>2, <3>4, <4>1 DEF TypeInv, PassTyped, Leave, PCs, WithDefaults
    <3> QED
      BY <2>3, <3>1, <3>2, <3>3, <3>4
  <2> QED
    BY <1>0, <2>2, <2>4, EnvKept DEF TypeInv, Flags
<1>4. CASE SetFactoryDefaultUpdated
  <2>1. events' \in Nat
    BY <1>4, EventTyped DEF SetFactoryDefaultUpdated, TypeInv, Fault
  <2>2. factory' \in Flags
    <3>1. [factory EXCEPT !.default = TRUE] \in Flags
      BY <1>0 DEF Flags
    <3> QED
      BY <1>0, <1>4, <3>1 DEF SetFactoryDefaultUpdated
  <2>3. PassTyped'
    <3>1. pc' \in {"compare", "status"} /\ err' \in {err, "retry"} /\ copy.defaults # 0
      BY <1>0, <1>4 DEF SetFactoryDefaultUpdated, Goto, Leave, WithDefaults
    <3> QED
      BY <1>0, <1>4, <3>1 DEF SetFactoryDefaultUpdated, TypeInv, PassTyped, kubeVars, PCs
  <2> QED
    BY <1>0, <1>4, <2>1, <2>2, <2>3, EnvKept DEF SetFactoryDefaultUpdated, TypeInv, Flags
<1>5. CASE SetInstanceDelta
  <2> DEFINE new == [copy EXCEPT !.inSync = CompareAttributes(copy, snap),
                                 !.delta = IF CompareAttributes(copy, snap) THEN {}
                                           ELSE Delta(copy, snap)]
  <2>1. new \in Objects /\ new.defaults = copy.defaults
    <3>1. CompareAttributes(copy, snap) \in BOOLEAN
      BY DEF CompareAttributes
    <3>2. (IF CompareAttributes(copy, snap) THEN {} ELSE Delta(copy, snap))
             \in SUBSET {"admin", "oos", "nets", "fs", "routes"}
      BY DEF Delta
    <3> HIDE DEF CompareAttributes
    <3>3. new \in Objects
      BY <1>0, <3>1, <3>2, ObjectUpdates
    <3>4. new.defaults = copy.defaults
      BY <1>0 DEF Objects
    <3> QED
      BY <3>3, <3>4
  <2> HIDE DEF new
  <2>2. /\ UNCHANGED <<profileVars, sysVars, report, vimVars, mon, factory, profile, scoped,
                       seen, snap, err>>
        /\ pc' = "decide" /\ copy.defaults # 0
    BY <1>0, <1>5 DEF SetInstanceDelta, Goto, WithDefaults
  <2>3. \/ NoFault /\ copy' = new /\ UNCHANGED <<kubeVars, fresh>>
        \/ Write(new)
        \/ WriteFails(new) /\ KeepsValues(new)
    BY <1>5 DEF SetInstanceDelta, new
  <2>4. /\ obj' \in Objects /\ copy' \in Objects /\ copy' = new
        /\ queued' \in BOOLEAN /\ fresh' \in BOOLEAN /\ events' \in Nat
    <3>1. CASE NoFault /\ copy' = new /\ UNCHANGED <<kubeVars, fresh>>
      BY <1>0, <2>1, <3>1 DEF TypeInv, PassTyped, EnvTyped, NoFault, kubeVars
    <3>2. CASE Write(new)
      BY <2>1, <3>2, WriteTyped DEF Write
    <3>3. CASE WriteFails(new) /\ KeepsValues(new)
      BY <2>1, <3>3, WriteFailsTyped, KeepsValuesTyped DEF KeepsValues
    <3> QED
      BY <2>3, <3>1, <3>2, <3>3
  <2>5. PassTyped'
    BY <1>0, <2>1, <2>2, <2>4 DEF TypeInv, PassTyped, PCs
  <2> QED
    BY <1>0, <2>2, <2>4, <2>5, EnvKept DEF TypeInv, Flags
<1>6. CASE Decide
  <2>1. \/ \E kind \in {"unlockedAvailable", "stable"} : Wait(kind)
        \/ \E e \in {"none", "ignored"} : Leave(e) /\ UNCHANGED mon
        \/ pc' \in {"strategy", "enabled", "unlockRequired", "disabled"} /\ UNCHANGED <<mon, err>>
    BY <1>6 DEF Decide, Goto
  <2>2. /\ pc' \in {"status", "strategy", "enabled", "unlockRequired", "disabled"}
        /\ err' \in {"none", "retry", "wait", "ignored"} /\ mon' \in Monitors
    <3>1. CASE \E kind \in {"unlockedAvailable", "stable"} : Wait(kind)
      BY <3>1, WaitTyped DEF Kinds
    <3>2. CASE ~(\E kind \in {"unlockedAvailable", "stable"} : Wait(kind))
      BY <1>0, <2>1, <3>2 DEF Leave
    <3> QED
      BY <3>1, <3>2
  <2>3. copy.defaults # 0
    BY <1>0, <1>6 DEF Decide, WithDefaults
  <2>4. PassTyped'
    BY <1>0, <1>6, <2>2, <2>3 DEF Decide, TypeInv, PassTyped, kubeVars, PCs
  <2> QED
    BY <1>0, <1>6, <2>2, <2>4, EnvKept DEF Decide, TypeInv, EnvTyped, Flags
<1> QED
  BY <1>1, <1>2, <1>3, <1>4, <1>5, <1>6

\* What a request to the System API leaves.
LEMMA RequestTyped ==
  ASSUME TypeInv, NEW accepted \in BOOLEAN, NEW new \in Hosts, new.oos # 0, NEW ACTION next,
         Request(accepted, new, next)
  PROVE  host' \in Hosts /\ host'.oos # 0 /\ events' \in Nat
<1>1. Fault \/ NoFault
  BY DEF Request
<1>2. events' \in Nat
  BY <1>1, EventTyped DEF TypeInv, Fault
<1>3. host' \in {host, new}
  BY DEF Request
<1> QED
  BY <1>2, <1>3 DEF TypeInv, EnvTyped

LEMMA SetStrategyTyped ==
  ASSUME TypeInv, NEW value \in Strategies, NEW ACTION next, SetStrategy(value, next)
  PROVE  /\ obj' \in Objects /\ copy' \in Objects
         /\ queued' \in BOOLEAN /\ fresh' \in BOOLEAN /\ events' \in Nat
         /\ report' \in Strategies
         /\ next \/ (Leave("retry") /\ UNCHANGED mon)
<1> DEFINE new == [copy EXCEPT !.strategy = value]
<1>1. new \in Objects
  BY ObjectUpdates DEF TypeInv, PassTyped
<1> HIDE DEF new
<1>2. /\ report' = value
      /\ \/ Write(new) /\ next
         \/ WriteFails(new) /\ KeepsValues(new) /\ Leave("retry") /\ UNCHANGED mon
  BY DEF SetStrategy, new
<1> QED
  BY <1>1, <1>2, WriteTyped, WriteFailsTyped, KeepsValuesTyped

\* ReconcileHostByState and the status.
LEMMA ByStateTyped ==
  ASSUME TypeInv,
         ReconcileEnabledHost \/ RequireLock \/ AssignAdminNetwork \/ ReconcileDisabledHost
         \/ ReconcileFinalState \/ RequireUnlock \/ StatusUpdate
  PROVE  TypeInv'
<1>0. /\ obj \in Objects /\ copy \in Objects /\ host \in Hosts /\ host.oos # 0
      /\ snap \in Hosts /\ snap.oos # 0 /\ seen \in Hosts
      /\ mon \in Monitors /\ report \in Strategies \cup {"absent"} /\ factory \in Flags
      /\ err \in {"none", "retry", "wait", "ignored"}
      /\ pc \in WithDefaults => copy.defaults # 0
  BY DEF TypeInv, EnvTyped, PassTyped, Monitors, Flags
<1>1. CASE ReconcileEnabledHost
  <2> DEFINE locking == [host EXCEPT !.state = "locking"]
             set == [host EXCEPT !.fs = profile.fs, !.routes = profile.routes]
             mine == host.id = snap.id
  <2>1. locking \in Hosts /\ locking.oos = host.oos
    BY <1>0 DEF Hosts, States
  <2>2. set \in Hosts /\ set.oos = host.oos
    BY <1>0, ProfileTyped DEF Hosts
  <2> HIDE DEF locking, set
  <2>3. \/ Request(mine /\ UnlockedEnabled(host), locking, Leave("retry"))
        \/ Request(mine, set, Goto("strategy") /\ UNCHANGED err)
    BY <1>1 DEF ReconcileEnabledHost, locking, set
  <2>4. host' \in Hosts /\ host'.oos # 0 /\ events' \in Nat
    BY <1>0, <2>1, <2>2, <2>3, RequestTyped DEF UnlockedEnabled
  <2>5. pc' \in {"status", "strategy"} /\ err' \in {err, "retry"}
    BY <2>3 DEF Request, Goto, Leave
  <2>6. copy.defaults # 0
    BY <1>0, <1>1 DEF ReconcileEnabledHost, WithDefaults
  <2>7. PassTyped'
    BY <1>0, <1>1, <2>5, <2>6 DEF ReconcileEnabledHost, TypeInv, PassTyped, kubeVars, PCs
  <2> QED
    BY <1>1, <2>4, <2>7 DEF ReconcileEnabledHost, TypeInv, EnvTyped, profileVars, vimVars
<1>2. CASE RequireLock
  <2>1. /\ UNCHANGED <<profileVars, sysVars, vimVars, factory, profile, scoped, seen, snap>>
        /\ \/ SetStrategy("lock_required", Wait("lockedDisabled"))
           \/ SetStrategy("not_required", Leave("none") /\ UNCHANGED mon)
           \/ Wait("lockedDisabled") /\ UNCHANGED <<kubeVars, report, copy, fresh, events>>
           \/ Leave("none") /\ UNCHANGED <<kubeVars, report, mon, copy, fresh, events>>
    BY <1>2 DEF RequireLock
  <2>2. /\ obj' \in Objects /\ copy' \in Objects
        /\ queued' \in BOOLEAN /\ fresh' \in BOOLEAN /\ events' \in Nat
        /\ report' \in Strategies \cup {"absent"}
        /\ Wait("lockedDisabled") \/ (\E e \in {"none", "retry"} : Leave(e) /\ UNCHANGED mon)
    <3>1. "lock_required" \in Strategies /\ "not_required" \in Strategies
      BY DEF Strategies
    <3>2. CASE SetStrategy("lock_required", Wait("lockedDisabled"))
      BY <3>1, <3>2, SetStrategyTyped
    <3>3. CASE SetStrategy("not_required", Leave("none") /\ UNCHANGED mon)
      BY <3>1, <3>3, SetStrategyTyped
    <3>4. CASE UNCHANGED <<kubeVars, report, copy, fresh, events>>
      BY <1>0, <2>1, <3>4 DEF TypeInv, PassTyped, EnvTyped, kubeVars, SetStrategy
    <3> QED
      BY <2>1, <3>2, <3>3, <3>4
  <2>3. mon' \in Monitors /\ pc' = "status" /\ err' \in {"none", "retry", "wait"}
    BY <1>0, <2>2, WaitTyped DEF Kinds, Leave
  <2>4. PassTyped'
    BY <1>0, <2>1, <2>2, <2>3 DEF TypeInv, PassTyped, PCs, WithDefaults
  <2> QED
    BY <1>0, <2>1, <2>2, <2>3, <2>4, EnvKept DEF TypeInv, Flags
<1>3. CASE ReconcileDisabledHost
  <2> DEFINE set == [host EXCEPT !.oos = Effective(copy), !.nets = profile.nets,
                                 !.routes = profile.routes]
             ok == host.id = snap.id /\ LockedDisabled(host)
  <2>1. copy.defaults # 0
    BY <1>0, <1>3 DEF ReconcileDisabledHost, WithDefaults
  <2>2. set \in Hosts /\ set.oos # 0
    <3>1. /\ Effective(copy) \in 0..2 /\ Effective(copy) # 0 /\ profile.routes \in 1..2
          /\ profile.nets \in 1..2
      BY <2>1, ProfileTyped
    <3>2. set \in Hosts
      BY <1>0, <3>1, HostUpdates
    <3>3. set.oos = Effective(copy)
      BY <1>0 DEF Hosts
    <3> QED
      BY <3>1, <3>2, <3>3
  <2> HIDE DEF set
  <2>3. Request(ok, set, Goto("final") /\ UNCHANGED err)
    BY <1>3 DEF ReconcileDisabledHost, set
  <2>4. host' \in Hosts /\ host'.oos # 0 /\ events' \in Nat
    BY <1>0, <2>2, <2>3, RequestTyped DEF LockedDisabled
  <2>5. pc' \in {"status", "final"} /\ err' \in {err, "retry"}
    BY <2>3 DEF Request, Goto, Leave
  <2>6. PassTyped'
    BY <1>0, <1>3, <2>1, <2>5 DEF ReconcileDisabledHost, TypeInv, PassTyped, kubeVars, PCs
  <2> QED
    BY <1>3, <2>4, <2>6 DEF ReconcileDisabledHost, TypeInv, EnvTyped, profileVars, vimVars
<1>4. CASE ReconcileFinalState
  <2> DEFINE unlocking == [host EXCEPT !.state = "unlocking"]
             ok == host.id = snap.id /\ host.state = "online"
  <2>1. unlocking \in Hosts /\ unlocking.oos = host.oos
    BY <1>0 DEF Hosts, States
  <2> HIDE DEF unlocking
  <2>2. \/ NoFault /\ pc' = "unlockRequired" /\ UNCHANGED <<host, mon, factory, err>>
        \/ NoFault /\ Wait("controllers") /\ UNCHANGED <<host, factory>>
        \/ Request(ok, unlocking, Leave("retry")) /\ UNCHANGED mon
    BY <1>4 DEF ReconcileFinalState, Goto, unlocking
  <2>3. host' \in Hosts /\ host'.oos # 0 /\ events' \in Nat
    <3>1. CASE NoFault /\ UNCHANGED host
      BY <1>0, <3>1, EventTyped DEF TypeInv
    <3>2. CASE Request(ok, unlocking, Leave("retry"))
      BY <1>0, <2>1, <3>2, RequestTyped
    <3> QED
      BY <2>2, <3>1, <3>2
  <2>4. factory' \in Flags
    <3>1. [factory EXCEPT !.round = FALSE, !.reconciled = FALSE] \in Flags
      BY <1>0 DEF Flags
    <3>2. factory' \in {factory, [factory EXCEPT !.round = FALSE, !.reconciled = FALSE]}
      BY <1>4 DEF ReconcileFinalState, SetFactoryConfigFinalized
    <3> QED
      BY <1>0, <3>1, <3>2
  <2>5. /\ pc' \in {"status", "unlockRequired"} /\ err' \in {err, "retry", "wait"}
        /\ mon' \in Monitors
    <3>1. CASE Wait("controllers")
      BY <3>1, WaitTyped DEF Kinds
    <3>2. CASE ~Wait("controllers")
      BY <1>0, <2>2, <3>2 DEF Request, Leave
    <3> QED
      BY <3>1, <3>2
  <2>6. copy.defaults # 0
    BY <1>0, <1>4 DEF ReconcileFinalState, WithDefaults
  <2>7. PassTyped'
    BY <1>0, <1>4, <2>5, <2>6 DEF ReconcileFinalState, TypeInv, PassTyped, kubeVars, PCs
  <2> QED
    BY <1>4, <2>3, <2>4, <2>5, <2>7
       DEF ReconcileFinalState, TypeInv, EnvTyped, profileVars, vimVars, Monitors, Flags
<1>5. CASE RequireUnlock
  <2>1. /\ UNCHANGED <<profileVars, sysVars, vimVars, factory, profile, scoped, seen, snap>>
        /\ \/ SetStrategy("unlock_required", Wait("unlockedEnabled"))
           \/ Wait("unlockedEnabled") /\ UNCHANGED <<kubeVars, report, copy, fresh, events>>
    BY <1>5 DEF RequireUnlock
  <2>2. /\ obj' \in Objects /\ copy' \in Objects
        /\ queued' \in BOOLEAN /\ fresh' \in BOOLEAN /\ events' \in Nat
        /\ report' \in Strategies \cup {"absent"}
        /\ Wait("unlockedEnabled") \/ (Leave("retry") /\ UNCHANGED mon)
    <3>1. "unlock_required" \in Strategies
      BY DEF Strategies
    <3>2. CASE SetStrategy("unlock_required", Wait("unlockedEnabled"))
      BY <3>1, <3>2, SetStrategyTyped
    <3>3. CASE Wait("unlockedEnabled") /\ UNCHANGED <<kubeVars, report, copy, fresh, events>>
      BY <1>0, <3>3 DEF TypeInv, PassTyped, EnvTyped, kubeVars
    <3> QED
      BY <2>1, <3>2, <3>3
  <2>3. mon' \in Monitors /\ pc' = "status" /\ err' \in {"retry", "wait"}
    BY <1>0, <2>2, WaitTyped DEF Kinds, Leave
  <2>4. PassTyped'
    BY <1>0, <2>1, <2>2, <2>3 DEF TypeInv, PassTyped, PCs, WithDefaults
  <2> QED
    BY <1>0, <2>1, <2>2, <2>3, <2>4, EnvKept DEF TypeInv, Flags
<1>6. CASE StatusUpdate
  <2> DEFINE new == Settled(copy, err = "none")
  <2>1. new \in Objects
    BY <1>0, SettledTyped
  <2>2. new.strategy \in Strategies
    BY <2>1 DEF Objects
  <2> HIDE DEF new
  <2>3. /\ UNCHANGED <<profileVars, sysVars, vimVars, factory>>
        /\ report' \in {report, new.strategy}
        /\ UNCHANGED mon \/ StartMonitor("stateChange")
        /\ \/ NoFault /\ obj' \in {obj, new} /\ Return(err = "retry")
           \/ WriteFails(new) /\ Return(TRUE)
    BY <1>6 DEF StatusUpdate, new
  <2>4. obj' \in Objects /\ events' \in Nat /\ PassTyped'
    <3>1. CASE NoFault /\ obj' \in {obj, new} /\ Return(err = "retry")
      BY <1>0, <2>1, <3>1, ReturnTyped, EventTyped DEF TypeInv
    <3>2. CASE WriteFails(new) /\ Return(TRUE)
      BY <2>1, <3>2, WriteFailsTyped, ReturnTyped
    <3> QED
      BY <2>3, <3>1, <3>2
  <2>5. mon' \in Monitors /\ report' \in Strategies \cup {"absent"}
    BY <1>0, <2>2, <2>3, MonitorTyped DEF Kinds
  <2> QED
    BY <1>0, <2>3, <2>4, <2>5, EnvKept DEF TypeInv, Flags
<1>7. CASE AssignAdminNetwork
  <2> DEFINE set == [host EXCEPT !.nets = profile.nets]
             mine == host.id = snap.id
  <2>1. set \in Hosts /\ set.oos # 0
    BY <1>0, ProfileTyped, HostUpdates
  <2> HIDE DEF set
  <2>2. Request(mine, set, Leave("none"))
    BY <1>7 DEF AssignAdminNetwork, set
  <2>3. host' \in Hosts /\ host'.oos # 0 /\ events' \in Nat
    BY <2>1, <2>2, RequestTyped
  <2>4. pc' = "status" /\ err' \in {"none", "retry"}
    BY <2>2 DEF Request, Leave
  <2>5. PassTyped'
    BY <1>0, <1>7, <2>4 DEF AssignAdminNetwork, TypeInv, PassTyped, kubeVars, PCs, WithDefaults
  <2> QED
    BY <1>7, <2>3, <2>5 DEF AssignAdminNetwork, TypeInv, EnvTyped, profileVars, vimVars
<1> QED
  BY <1>1, <1>2, <1>3, <1>4, <1>5, <1>6, <1>7

\* The monitors, the system, the VIM, the user and the process.
LEMMA OthersTyped ==
  ASSUME TypeInv, UpdateHosts \/ MonitorFires \/ StateChangePoll \/ System \/ Vim \/ Others
  PROVE  TypeInv'
<1>0. /\ obj \in Objects /\ copy \in Objects /\ host \in Hosts /\ host.oos # 0
      /\ mon \in Monitors /\ report \in Strategies \cup {"absent"} /\ factory \in Flags
      /\ nextId \in Nat /\ chain \in Chains
  BY DEF TypeInv, EnvTyped, PassTyped, Monitors, Flags
<1>1. CASE UpdateHosts
  <2>1. queued' \in BOOLEAN /\ fresh' \in BOOLEAN /\ notify' \in BOOLEAN
    BY <1>1 DEF UpdateHosts, TypeInv, PassTyped
  <2>2. /\ UNCHANGED <<obj, chain, sysVars, report, vimVars, mon, factory, pc, copy, profile>>
        /\ UNCHANGED <<scoped, seen, snap, err, events>>
    BY <1>1 DEF UpdateHosts
  <2>3. EnvTyped'
    BY <2>1, <2>2 DEF TypeInv, EnvTyped, sysVars, vimVars
  <2>4. PassTyped'
    BY <2>1, <2>2 DEF TypeInv, PassTyped
  <2> QED
    BY <2>3, <2>4 DEF TypeInv
<1>2. CASE MonitorFires
  <2>1. Fault \/ NoFault
    BY <1>2 DEF MonitorFires
  <2>2. events' \in Nat /\ mon' \in Monitors
    BY <1>2, <2>1, EventTyped, MonitorTyped DEF TypeInv, Fault, MonitorFires
  <2>3. EnvTyped'
    BY <1>0, <1>2, <2>2, EnvKept DEF MonitorFires, Flags
  <2>4. PassTyped'
    BY <1>0, <1>2 DEF MonitorFires, TypeInv, PassTyped
  <2> QED
    BY <2>3, <2>4 DEF TypeInv
<1>3. CASE StateChangePoll
  <2>1. mon' \in Monitors
    BY <1>0, <1>3 DEF StateChangePoll, Monitors, Hosts
  <2> QED
    BY <1>0, <1>3, <2>1, EnvKept
       DEF StateChangePoll, TypeInv, EnvTyped, PassTyped, kubeVars, localVars, Flags
<1>4. ASSUME NEW to \in States, host' = [host EXCEPT !.state = to]
      PROVE  host' \in Hosts /\ host'.oos # 0
  BY <1>0, <1>4 DEF Hosts
<1>5. CASE System
  <2>1. CASE HostProgress
    <3>1. \E to \in {"online", "degraded", "available"} : host' = [host EXCEPT !.state = to]
      BY <2>1 DEF HostProgress, HostMoves
    <3>2. host' \in Hosts /\ host'.oos # 0
      BY <1>4, <3>1 DEF States
    <3> QED
      BY <2>1, <3>2
         DEF HostProgress, TypeInv, EnvTyped, PassTyped, profileVars, kubeVars, vimVars, localVars
  <2>2. CASE HostAppears
    <3>1. "online" \in States
      BY DEF States
    <3>2. host' \in Hosts /\ host'.oos = 1
      BY <1>0, <2>2, <3>1, NewHostTyped DEF HostAppears
    <3>3. nextId' \in Nat
      BY <1>0, <2>2 DEF HostAppears
    <3> QED
      BY <2>2, <3>2, <3>3
         DEF HostAppears, TypeInv, EnvTyped, PassTyped, profileVars, kubeVars, vimVars, localVars
  <2>3. CASE ControllersEnabled
    BY <2>3
       DEF ControllersEnabled, TypeInv, EnvTyped, PassTyped, profileVars, kubeVars, vimVars,
           localVars
  <2> QED
    BY <1>5, <2>1, <2>2, <2>3 DEF System
<1>6. CASE Vim
  <2>1. host' \in Hosts /\ host'.oos # 0
    <3>1. CASE UNCHANGED host
      BY <1>0, <3>1
    <3>2. CASE VimLocks
      <4>1. \E to \in {"locking", host.state} : host' = [host EXCEPT !.state = to]
        BY <3>2 DEF VimLocks
      <4>2. host.state \in States
        BY <1>0 DEF Hosts
      <4> QED
        BY <1>4, <4>1, <4>2 DEF States
    <3>3. CASE VimUnlocks
      BY <1>4, <3>3 DEF VimUnlocks, HostMoves, States
    <3> QED
      BY <1>6, <3>1, <3>2, <3>3 DEF Vim, VimStarts, VimEnds
  <2>2. /\ stage' \in {"none", "lock", "wait", "done"} /\ sent' \in BOOLEAN
        /\ report' \in Strategies \cup {"absent"}
    BY <1>0, <1>6 DEF Vim, VimStarts, VimLocks, VimUnlocks, VimEnds, TypeInv, EnvTyped
  <2> QED
    BY <1>6, <2>1, <2>2
       DEF Vim, TypeInv, EnvTyped, PassTyped, profileVars, kubeVars, localVars
<1>7. CASE Others
  <2>1. CASE OperatorActs
    <3>1. \E to \in {"locking", "unlocking"} : host' = [host EXCEPT !.state = to]
      BY <2>1 DEF OperatorActs, HostMoves
    <3>2. host' \in Hosts /\ host'.oos # 0
      BY <1>4, <3>1 DEF States
    <3>3. events' \in Nat
      BY <2>1, EventTyped DEF OperatorActs, TypeInv
    <3> QED
      BY <2>1, <3>2, <3>3
         DEF OperatorActs, TypeInv, EnvTyped, PassTyped, profileVars, kubeVars, vimVars, localVars
  <2>2. CASE OperatorDeletesHost
    <3>1. events' \in Nat
      BY <2>2, EventTyped DEF OperatorDeletesHost, TypeInv
    <3> QED
      BY <2>2, <3>1, NoHostTyped
         DEF OperatorDeletesHost, TypeInv, EnvTyped, PassTyped, profileVars, kubeVars, vimVars,
             localVars
  <2>3. ASSUME NEW new \in Objects, UserWrites(new), events' \in Nat,
               chain' \in Chains
        PROVE  TypeInv'
    <3>1. EnvTyped'
      BY <2>3 DEF UserWrites, TypeInv, EnvTyped, sysVars, vimVars
    <3>2. PassTyped'
      BY <2>3 DEF UserWrites, TypeInv, PassTyped
    <3> QED
      BY <3>1, <3>2 DEF TypeInv
  <2>4. CASE UserChanges
    <3>1. events' \in Nat
      BY <2>4, EventTyped DEF UserChanges, TypeInv
    <3>2. PICK want \in Wants, asked \in Scopes :
            /\ UserWrites([obj EXCEPT !.gen = @ + 1, !.asked = asked])
            /\ chain' = [chain EXCEPT !.want = want, !.base = FALSE]
      BY <2>4 DEF UserChanges
    <3>3. chain' \in Chains
      BY <1>0, <3>2 DEF Chains
    <3>4. [obj EXCEPT !.gen = @ + 1, !.asked = asked] \in Objects
      BY <1>0, UserUpdates
    <3> QED
      BY <2>3, <3>1, <3>2, <3>3, <3>4
  <2>5. CASE UserDeletes
    <3>1. events' \in Nat
      BY <2>5, EventTyped DEF UserDeletes, TypeInv
    <3>2. [obj EXCEPT !.gen = @ + 1, !.life = IF obj.finalizer THEN "deleting" ELSE "gone"]
             \in Objects
      BY <1>0, UserUpdates
    <3> QED
      BY <1>0, <2>3, <2>5, <3>1, <3>2 DEF UserDeletes
  <2>6. CASE ProfileChanges
    <3>1. events' \in Nat
      BY <2>6, EventTyped DEF ProfileChanges, TypeInv
    <3>2. chain' \in Chains
      BY <1>0, <2>6 DEF ProfileChanges, Chains
    <3>3. notify' \in BOOLEAN
      BY <2>6 DEF ProfileChanges
    <3> QED
      BY <2>6, <3>1, <3>2, <3>3
         DEF ProfileChanges, TypeInv, EnvTyped, PassTyped, kubeVars, sysVars, vimVars, localVars
  <2>7. CASE Restart
    <3>1. events' \in Nat /\ mon' \in Monitors
      BY <2>7, EventTyped, MonitorTyped DEF Restart, TypeInv
    <3>2. PassTyped'
      BY <1>0, <2>7, ReturnTyped DEF Restart
    <3> QED
      BY <2>7, <3>1, <3>2 DEF Restart, TypeInv, EnvTyped, profileVars, sysVars, Monitors
  <2>8. CASE UserAnnotates
    <3>1. events' \in Nat
      BY <2>8, EventTyped DEF UserAnnotates, TypeInv
    <3>2. PICK annot \in {"none", "true", "other"} : UserWrites([obj EXCEPT !.annot = annot])
      BY <2>8 DEF UserAnnotates
    <3>3. [obj EXCEPT !.annot = annot] \in Objects
      BY <1>0, ObjectUpdates
    <3> QED
      BY <1>0, <2>3, <2>8, <3>1, <3>2, <3>3 DEF UserAnnotates
  <2> QED
    BY <1>7, <2>1, <2>2, <2>4, <2>5, <2>6, <2>7, <2>8 DEF Others
<1> QED
  BY <1>1, <1>2, <1>3, <1>5, <1>6, <1>7

LEMMA StepTyped == TypeInv /\ [Next]_vars => TypeInv'
<1> SUFFICES ASSUME TypeInv, [Next]_vars PROVE TypeInv'
  OBVIOUS
<1>1. CASE Next
  BY <1>1, FirstStepsTyped, LifecycleTyped, ComparisonTyped, ByStateTyped, OthersTyped
     DEF Next, Reconcile
<1>2. CASE UNCHANGED vars
  BY <1>2
     DEF vars, kubeVars, profileVars, sysVars, vimVars, localVars, TypeInv, EnvTyped, PassTyped
<1> QED
  BY <1>1, <1>2

\* Every variable keeps its type, and the host is never given the value 0, which
\* stands for "not asked for": the defaults are known before anything is applied.
THEOREM HostTyped == Spec => []TypeOK
<1>1. TypeInv => TypeOK
  BY DEF TypeInv, EnvTyped, PassTyped, TypeOK
<1> QED
  BY <1>1, InitTyped, StepTyped, PTL DEF Spec

-----------------------------------------------------------------------------
(* The copy and the object.                                                *)

\* What the assignments to the copy leave alone.
LEMMA FieldsKept ==
  ASSUME NEW o \in Objects
  PROVE  /\ \A d \in 0..2 :
              LET n == [o EXCEPT !.defaults = d] IN
              SameStatus(n, o) /\ SameBody(n, o) /\ n.strategy = o.strategy /\ n.defaults = d
         /\ \A s \in Strategies :
              LET n == [o EXCEPT !.strategy = s] IN
              SameStatus(n, o) /\ SameBody(n, o) /\ n.strategy = s /\ n.defaults = o.defaults
         /\ \A b \in BOOLEAN, d \in SUBSET {"admin", "oos", "nets", "fs", "routes"} :
              LET n == [o EXCEPT !.inSync = b, !.delta = d] IN
              /\ SameStatus(n, o) /\ SameBody(n, o)
              /\ n.strategy = o.strategy /\ n.defaults = o.defaults
BY DEF Objects, SameStatus, SameBody

\* Other requests than those to Kubernetes.
Quiet ==
  GetHost \/ ReconcileNewHost \/ ReconcileDeletedHost \/ PopulateHostInfo \/ FinalizeFactory
  \/ SetFactoryReconciledUpdated \/ SetFactoryDefaultUpdated \/ Decide
  \/ ReconcileEnabledHost \/ AssignAdminNetwork \/ ReconcileDisabledHost
  \/ ReconcileFinalState

LEMMA QuietShape ==
  ASSUME Quiet
  PROVE  /\ pc \notin {"idle", "status"} /\ UNCHANGED obj
         /\ pc' = "idle" \/ UNCHANGED <<copy, fresh, queued>>
<1>1. CASE GetHost
  BY <1>1 DEF GetHost, Return, kubeVars
<1>2. CASE ReconcileNewHost
  BY <1>2 DEF ReconcileNewHost, ProvisionHost, ReturnWaiting, Return, kubeVars
<1>3. CASE ReconcileDeletedHost
  BY <1>3 DEF ReconcileDeletedHost, ReturnWaiting, Return, kubeVars, localVars
<1>4. CASE SetFactoryReconciledUpdated
  BY <1>4 DEF SetFactoryReconciledUpdated, Return, kubeVars, localVars
<1>5. CASE PopulateHostInfo \/ FinalizeFactory \/ SetFactoryDefaultUpdated \/ Decide
  BY <1>5 DEF PopulateHostInfo, FinalizeFactory, SetFactoryDefaultUpdated, Decide, kubeVars
<1>6. CASE ReconcileEnabledHost \/ AssignAdminNetwork \/ ReconcileDisabledHost
           \/ ReconcileFinalState
  BY <1>6 DEF ReconcileEnabledHost, AssignAdminNetwork, ReconcileDisabledHost,
              ReconcileFinalState, kubeVars
<1> QED
  BY <1>1, <1>2, <1>3, <1>4, <1>5, <1>6 DEF Quiet

\* Steps of others that leave the object and the pass alone.
Elsewhere ==
  StateChangePoll \/ System \/ Vim \/ OperatorActs \/ OperatorDeletesHost \/ ProfileChanges

LEMMA ElsewhereShape ==
  ASSUME Elsewhere
  PROVE  UNCHANGED <<kubeVars, pc, localVars>>
BY DEF Elsewhere, StateChangePoll, System, HostProgress, HostAppears, ControllersEnabled, Vim,
       OperatorActs, OperatorDeletesHost, ProfileChanges

LEMMA ReconcileCases ==
  ASSUME Reconcile
  PROVE  \/ Quiet
         \/ FetchInstance \/ UpdateDeploymentScope \/ UpdateStatusForFactoryInstall
         \/ AddFinalizer \/ UpdateAnnotation \/ UpdateConfigStatus \/ RemoveHostFinalizer
         \/ BuildHostDefaults \/ SetInstanceDelta \/ RequireLock \/ RequireUnlock
         \/ StatusUpdate
BY DEF Reconcile, Quiet

\* A save of the copy that fails and goes on with the values that were to be saved.
LEMMA KeptCopy ==
  ASSUME TypeInv, CopyInv, pc \notin {"idle", "status"}, NEW new \in Objects,
         SameStatus(new, copy), SameBody(new, copy), WriteFails(new), KeepsValues(new)
  PROVE  /\ SameStatus(copy', obj') /\ (fresh' => SameBody(copy', obj'))
         /\ copy'.life # "gone" /\ (copy'.life = "deleting" => obj'.life # "live")
<1>1. copy' = new /\ fresh' = (fresh /\ obj' = obj) /\ obj' \in {obj, new}
  BY DEF WriteFails, KeepsValues
<1>2. CASE obj' = obj
  BY <1>1, <1>2 DEF CopyInv, SameStatus, SameBody
<1>3. CASE obj' = new
  BY <1>1, <1>3 DEF CopyInv, SameStatus, SameBody
<1> QED
  BY <1>1, <1>2, <1>3

LEMMA WrittenCopy ==
  ASSUME NEW new, obj' = new, copy' = new, new.life # "gone"
  PROVE  CopyInv'
BY DEF CopyInv, SameStatus, SameBody

LEMMA ReadAndWriteCopy ==
  ASSUME NEW new, NEW next, ReadAndWrite(new, next), new.life = obj.life
  PROVE  CopyInv'
<1>1. CASE Return(TRUE)
  BY <1>1 DEF Return, CopyInv
<1>2. CASE ~Return(TRUE)
  BY <1>2, WrittenCopy DEF ReadAndWrite
<1> QED
  BY <1>1, <1>2

\* SetStrategy changes nothing but the strategy.
LEMMA SetStrategyCopy ==
  ASSUME TypeInv, CopyInv, pc \notin {"idle", "status"}, pc' = "status",
         NEW value \in Strategies, NEW ACTION next, SetStrategy(value, next)
  PROVE  CopyInv'
<1> DEFINE new == [copy EXCEPT !.strategy = value]
<1>1. new \in Objects
  BY ObjectUpdates DEF TypeInv, PassTyped
<1>2. SameStatus(new, copy) /\ SameBody(new, copy)
  BY FieldsKept DEF TypeInv, PassTyped
<1> HIDE DEF new
<1>3. CASE Write(new)
  <2>1. new.life # "gone"
    BY <1>2 DEF CopyInv, SameBody
  <2> QED
    BY <1>3, <2>1, WrittenCopy DEF Write
<1>4. CASE WriteFails(new) /\ KeepsValues(new)
  BY <1>1, <1>2, <1>4, KeptCopy DEF CopyInv
<1> QED
  BY <1>3, <1>4 DEF SetStrategy, new

LEMMA ObservedFields ==
  ASSUME NEW o \in Objects
  PROVE  /\ Observe(o).life = o.life /\ Observe(o).scope = o.scope /\ Observe(o).gen = o.gen
         /\ Observe(o).asked = o.asked /\ Observe(o).finalizer = o.finalizer
         /\ Observe(o).id = o.id /\ Observe(o).annot = o.annot
         /\ Observe(o).defaults = o.defaults
         /\ Observe(o).observed = o.gen /\ Observe(o).observedProfile = chain.gen
<1>1. ASSUME NEW q \in Objects
      PROVE  LET p == ObserveProfile(q) IN
             /\ p.life = q.life /\ p.scope = q.scope /\ p.gen = q.gen /\ p.asked = q.asked
             /\ p.finalizer = q.finalizer /\ p.id = q.id /\ p.annot = q.annot
             /\ p.defaults = q.defaults /\ p.observedProfile = chain.gen
  BY <1>1 DEF ObserveProfile, Objects
<1>2. ASSUME NEW q, q \in Objects \/ \E r \in Objects : q = ObserveProfile(r)
      PROVE  LET p == ObserveGeneration(q) IN
             /\ p.life = q.life /\ p.scope = q.scope /\ p.gen = q.gen /\ p.asked = q.asked
             /\ p.finalizer = q.finalizer /\ p.id = q.id /\ p.annot = q.annot
             /\ p.defaults = q.defaults /\ p.observedProfile = q.observedProfile
             /\ p.observed = q.gen
  BY <1>2 DEF ObserveGeneration, ObserveProfile, Objects
<1> QED
  BY <1>1, <1>2 DEF Observe

LEMMA StepCopy == TypeInv /\ CopyInv /\ [Next]_vars => CopyInv'
<1> SUFFICES ASSUME TypeInv, CopyInv, [Next]_vars PROVE CopyInv'
  OBVIOUS
<1>0. obj \in Objects /\ copy \in Objects
  BY DEF TypeInv, PassTyped
<1>i. ASSUME pc' = "idle" PROVE CopyInv'
  BY <1>i DEF CopyInv
<1>1. CASE Quiet
  <2>1. /\ pc \notin {"idle", "status"} /\ UNCHANGED obj
        /\ pc' = "idle" \/ UNCHANGED <<copy, fresh, queued>>
    BY <1>1, QuietShape
  <2> QED
    BY <1>i, <2>1 DEF CopyInv, SameStatus, SameBody
<1>2. CASE FetchInstance
  BY <1>2 DEF FetchInstance, Goto, CopyInv, SameStatus, SameBody
<1>3. CASE UpdateDeploymentScope
  <2> DEFINE new == [copy EXCEPT !.scope = copy.asked]
  <2>1. new.life = copy.life
    BY <1>0 DEF Objects
  <2> HIDE DEF new
  <2>2. \/ pc' = "factory" /\ UNCHANGED <<kubeVars, localVars, events>>
        \/ Write(new) /\ pc' = "factory"
        \/ pc' = "idle"
    BY <1>3 DEF UpdateDeploymentScope, Goto, Return, new
  <2>3. pc \notin {"idle", "status"}
    BY <1>3 DEF UpdateDeploymentScope
  <2>4. CASE UNCHANGED <<kubeVars, localVars, events>>
    BY <2>2, <2>3, <2>4 DEF CopyInv, SameStatus, SameBody, kubeVars, localVars
  <2>5. CASE Write(new)
    BY <2>1, <2>3, <2>5, WrittenCopy DEF Write, CopyInv
  <2> QED
    BY <1>i, <2>2, <2>4, <2>5
<1>4. CASE UpdateStatusForFactoryInstall
  <2> DEFINE new == [copy EXCEPT !.reconciled = FALSE]
  <2>1. new.life = copy.life
    BY <1>0 DEF Objects
  <2> HIDE DEF new
  <2>2. \/ pc' = "gate" /\ UNCHANGED <<kubeVars, localVars, events>>
        \/ Write(new) /\ pc' = "factoryFlag"
        \/ pc' = "idle"
    BY <1>4 DEF UpdateStatusForFactoryInstall, Goto, Return, new
  <2>3. pc \notin {"idle", "status"}
    BY <1>4 DEF UpdateStatusForFactoryInstall
  <2>4. CASE UNCHANGED <<kubeVars, localVars, events>>
    BY <2>2, <2>3, <2>4 DEF CopyInv, SameStatus, SameBody, kubeVars, localVars
  <2>5. CASE Write(new)
    BY <2>1, <2>3, <2>5, WrittenCopy DEF Write, CopyInv
  <2> QED
    BY <1>i, <2>2, <2>4, <2>5
<1>5. CASE AddFinalizer
  <2>1. pc' = "idle" \/ (pc' = "annotate" /\ UNCHANGED <<kubeVars, localVars, events>>)
    BY <1>5 DEF AddFinalizer, Goto, Return
  <2> QED
    BY <1>i, <1>5, <2>1 DEF AddFinalizer, CopyInv, SameStatus, SameBody, kubeVars, localVars
<1>6. CASE UpdateAnnotation
  <2> DEFINE new == [obj EXCEPT !.annot = AfterInSync(obj)]
  <2>1. new.life = obj.life
    BY <1>0 DEF Objects
  <2> QED
    BY <1>6, <2>1, ReadAndWriteCopy DEF UpdateAnnotation
<1>7. CASE UpdateConfigStatus
  BY <1>0, <1>7, ObservedFields, ReadAndWriteCopy DEF UpdateConfigStatus
<1>8. CASE RemoveHostFinalizer \/ StatusUpdate
  <2>1. pc' = "idle"
    BY <1>8 DEF RemoveHostFinalizer, StatusUpdate, Return
  <2> QED
    BY <1>i, <2>1
<1>9. CASE BuildHostDefaults
  <2> DEFINE new == [copy EXCEPT !.defaults = snap.oos]
  <2>1. new \in Objects /\ SameStatus(new, copy) /\ SameBody(new, copy)
    <3>1. snap.oos \in 0..2
      BY DEF TypeInv, PassTyped, Hosts
    <3> QED
      BY <1>0, <3>1, ObjectUpdates, FieldsKept
  <2> HIDE DEF new
  <2>2. \/ pc' \in {"compare", "status"} /\ UNCHANGED <<kubeVars, copy, fresh>>
        \/ Write(new) /\ pc' \in {"defaultFlag", "compare"}
        \/ WriteFails(new) /\ KeepsValues(new) /\ pc' = "status"
    BY <1>9 DEF BuildHostDefaults, Goto, Wait, Leave, new
  <2>3. pc \notin {"idle", "status"}
    BY <1>9 DEF BuildHostDefaults
  <2>4. CASE UNCHANGED <<kubeVars, copy, fresh>>
    BY <2>2, <2>3, <2>4 DEF CopyInv, SameStatus, SameBody, kubeVars
  <2>5. CASE Write(new)
    <3>1. new.life # "gone"
      BY <2>1, <2>3 DEF CopyInv, SameBody
    <3> QED
      BY <2>5, <3>1, WrittenCopy DEF Write
  <2>6. CASE WriteFails(new) /\ KeepsValues(new) /\ pc' = "status"
    BY <2>1, <2>3, <2>6, KeptCopy DEF CopyInv
  <2> QED
    BY <2>2, <2>4, <2>5, <2>6
<1>10. CASE SetInstanceDelta
  <2> DEFINE new == [copy EXCEPT !.inSync = CompareAttributes(copy, snap),
                                 !.delta = IF CompareAttributes(copy, snap) THEN {}
                                           ELSE Delta(copy, snap)]
  <2>1. /\ new \in Objects /\ SameStatus(new, copy) /\ SameBody(new, copy)
        /\ new.strategy = copy.strategy /\ new.defaults = copy.defaults
    <3>1. CompareAttributes(copy, snap) \in BOOLEAN
      BY DEF CompareAttributes
    <3>2. (IF CompareAttributes(copy, snap) THEN {} ELSE Delta(copy, snap))
             \in SUBSET {"admin", "oos", "nets", "fs", "routes"}
      BY DEF Delta
    <3>3. ASSUME NEW b \in BOOLEAN, NEW d \in SUBSET {"admin", "oos", "nets", "fs", "routes"}
          PROVE  LET n == [copy EXCEPT !.inSync = b, !.delta = d] IN
                 /\ n \in Objects /\ SameStatus(n, copy) /\ SameBody(n, copy)
                 /\ n.strategy = copy.strategy /\ n.defaults = copy.defaults
      BY <1>0, <3>3 DEF Objects, SameStatus, SameBody
    <3> QED
      BY <3>1, <3>2, <3>3
  <2> HIDE DEF new
  <2>2. \/ copy' = new /\ UNCHANGED <<kubeVars, fresh>>
        \/ Write(new)
        \/ WriteFails(new) /\ KeepsValues(new)
    BY <1>10 DEF SetInstanceDelta, new
  <2>3. pc \notin {"idle", "status"} /\ pc' = "decide"
    BY <1>10 DEF SetInstanceDelta, Goto
  <2>4. CASE copy' = new /\ UNCHANGED <<kubeVars, fresh>>
    BY <2>1, <2>3, <2>4 DEF CopyInv, SameStatus, SameBody, kubeVars
  <2>5. CASE Write(new)
    <3>1. new.life # "gone"
      BY <2>1, <2>3 DEF CopyInv, SameBody
    <3> QED
      BY <2>5, <3>1, WrittenCopy DEF Write
  <2>6. CASE WriteFails(new) /\ KeepsValues(new)
    <3>1. /\ SameStatus(copy', obj') /\ (fresh' => SameBody(copy', obj'))
          /\ copy'.life # "gone" /\ (copy'.life = "deleting" => obj'.life # "live")
      BY <2>1, <2>3, <2>6, KeptCopy
    <3>2. copy' = new /\ obj' \in {obj, new}
      BY <2>6 DEF WriteFails, KeepsValues
    <3>3. copy'.strategy = obj'.strategy /\ copy'.defaults = obj'.defaults
      BY <2>1, <2>3, <3>2 DEF CopyInv
    <3> QED
      BY <3>1, <3>3 DEF CopyInv
  <2> QED
    BY <2>2, <2>4, <2>5, <2>6
<1>11. CASE RequireLock \/ RequireUnlock
  <2>1. pc \notin {"idle", "status"} /\ pc' = "status"
    BY <1>11 DEF RequireLock, RequireUnlock, SetStrategy, Wait, Leave
  <2>2. \/ SetStrategy("lock_required", Wait("lockedDisabled"))
        \/ SetStrategy("not_required", Leave("none") /\ UNCHANGED mon)
        \/ SetStrategy("unlock_required", Wait("unlockedEnabled"))
        \/ UNCHANGED <<kubeVars, copy, fresh>>
    BY <1>11 DEF RequireLock, RequireUnlock
  <2>3. CASE UNCHANGED <<kubeVars, copy, fresh>>
    BY <2>1, <2>3 DEF CopyInv, SameStatus, SameBody, kubeVars
  <2>4. {"lock_required", "not_required", "unlock_required"} \subseteq Strategies
    BY DEF Strategies
  <2>5. CASE SetStrategy("lock_required", Wait("lockedDisabled"))
    BY <2>1, <2>4, <2>5, SetStrategyCopy
  <2>6. CASE SetStrategy("not_required", Leave("none") /\ UNCHANGED mon)
    BY <2>1, <2>4, <2>6, SetStrategyCopy
  <2>7. CASE SetStrategy("unlock_required", Wait("unlockedEnabled"))
    BY <2>1, <2>4, <2>7, SetStrategyCopy
  <2> QED
    BY <2>2, <2>3, <2>5, <2>6, <2>7
<1>12. CASE Elsewhere
  BY <1>12, ElsewhereShape DEF CopyInv, SameStatus, SameBody, kubeVars, localVars
<1>13. CASE UpdateHosts \/ MonitorFires
  <2>1. fresh' \in {fresh, FALSE} /\ UNCHANGED <<obj, copy, pc>>
    BY <1>13 DEF UpdateHosts, MonitorFires
  <2>2. CASE fresh' = fresh
    BY <2>1, <2>2 DEF CopyInv, SameStatus, SameBody
  <2>3. CASE fresh' = FALSE
    BY <2>1, <2>3 DEF CopyInv, SameStatus, SameBody
  <2> QED
    BY <2>1, <2>2, <2>3
<1>14. CASE UserChanges \/ UserAnnotates \/ UserDeletes
  <2>1. PICK new :
          /\ UserWrites(new) /\ SameStatus(new, obj)
          /\ new.life \in {"live", "deleting", "gone"}
          /\ new.strategy = obj.strategy /\ new.defaults = obj.defaults
    <3>1. ASSUME NEW asked \in Scopes
          PROVE  LET new == [obj EXCEPT !.gen = @ + 1, !.asked = asked] IN
                 /\ SameStatus(new, obj) /\ new.life = obj.life
                 /\ new.strategy = obj.strategy /\ new.defaults = obj.defaults
      BY <1>0 DEF Objects, SameStatus
    <3>2. LET new == [obj EXCEPT !.gen = @ + 1,
                                 !.life = IF obj.finalizer THEN "deleting" ELSE "gone"] IN
          /\ SameStatus(new, obj) /\ new.life \in {"deleting", "gone"}
          /\ new.strategy = obj.strategy /\ new.defaults = obj.defaults
      BY <1>0 DEF Objects, SameStatus
    <3>3. ASSUME NEW annot
          PROVE  LET new == [obj EXCEPT !.annot = annot] IN
                 /\ SameStatus(new, obj) /\ new.life = obj.life
                 /\ new.strategy = obj.strategy /\ new.defaults = obj.defaults
      BY <1>0 DEF Objects, SameStatus
    <3>4. obj.life \in {"live", "deleting", "gone"}
      BY <1>0 DEF Objects
    <3> QED
      BY <1>14, <3>1, <3>2, <3>3, <3>4 DEF UserChanges, UserAnnotates, UserDeletes
  <2>2. obj.life = "live" /\ obj' = new /\ fresh' = FALSE /\ UNCHANGED <<pc, copy>>
    BY <2>1 DEF UserWrites
  <2> QED
    BY <2>1, <2>2 DEF CopyInv, SameStatus
<1>15. CASE Restart
  BY <1>i, <1>15 DEF Restart, Return
<1>16. CASE UNCHANGED vars
  BY <1>16 DEF vars, CopyInv, SameStatus, SameBody, kubeVars, localVars
<1> QED
  BY <1>1, <1>2, <1>3, <1>4, <1>5, <1>6, <1>7, <1>8, <1>9, <1>10, <1>11, <1>12, <1>13,
     <1>14, <1>15, <1>16, ReconcileCases DEF Next, Others, Elsewhere

-----------------------------------------------------------------------------
(* What was decided on, and the hosts.                                     *)

ByState == {"enabled", "strategy", "disabled", "final", "unlockRequired"}

\* ReconcileHostByState is entered by Decide only.
LEMMA ByStateEntered ==
  ASSUME Next
  PROVE  \/ pc' \notin ByState
         \/ UNCHANGED <<pc, copy, snap>>
         \/ Decide \/ ReconcileEnabledHost \/ ReconcileDisabledHost \/ ReconcileFinalState
<1>1. CASE Elsewhere
  BY <1>1, ElsewhereShape DEF localVars
<1>2. CASE UpdateHosts \/ MonitorFires \/ UserChanges \/ UserAnnotates \/ UserDeletes
  BY <1>2 DEF UpdateHosts, MonitorFires, UserChanges, UserAnnotates, UserDeletes, UserWrites
<1>3. CASE Restart
  BY <1>3 DEF Restart, Return, ByState
<1>4. CASE FetchInstance \/ UpdateDeploymentScope \/ UpdateStatusForFactoryInstall
           \/ SetFactoryReconciledUpdated \/ AddFinalizer
  BY <1>4 DEF FetchInstance, UpdateDeploymentScope, UpdateStatusForFactoryInstall,
              SetFactoryReconciledUpdated, AddFinalizer, Goto, Return, ByState
<1>5. CASE UpdateAnnotation \/ UpdateConfigStatus
  BY <1>5 DEF UpdateAnnotation, UpdateConfigStatus, ReadAndWrite, Goto, Return, ByState
<1>6. CASE GetHost \/ ReconcileNewHost
  BY <1>6 DEF GetHost, ReconcileNewHost, ProvisionHost, ReturnWaiting, Goto, Return, ByState
<1>7. CASE ReconcileDeletedHost \/ RemoveHostFinalizer
  BY <1>7 DEF ReconcileDeletedHost, RemoveHostFinalizer, ReturnWaiting, Goto, Return, ByState
<1>8. CASE PopulateHostInfo \/ FinalizeFactory \/ SetFactoryDefaultUpdated \/ SetInstanceDelta
  BY <1>8 DEF PopulateHostInfo, FinalizeFactory, SetFactoryDefaultUpdated, SetInstanceDelta,
              Wait, Leave, Goto, ByState
<1>9. CASE BuildHostDefaults
  BY <1>9 DEF BuildHostDefaults, Wait, Leave, Goto, ByState
<1>10. CASE RequireLock \/ RequireUnlock \/ StatusUpdate
  BY <1>10 DEF RequireLock, RequireUnlock, StatusUpdate, SetStrategy, Wait, Leave, Return, ByState
<1>11. CASE AssignAdminNetwork
  BY <1>11 DEF AssignAdminNetwork, Request, Leave, ByState
<1> QED
  BY <1>1, <1>2, <1>3, <1>4, <1>5, <1>6, <1>7, <1>8, <1>9, <1>10, <1>11
     DEF Next, Reconcile, Others, Elsewhere

LEMMA StepDecision == TypeInv /\ DecisionInv /\ [Next]_vars => DecisionInv'
<1> SUFFICES ASSUME TypeInv, DecisionInv, [Next]_vars PROVE DecisionInv'
  OBVIOUS
<1>1. CASE pc' \notin ByState
  BY <1>1 DEF DecisionInv, ByState
<1>2. CASE UNCHANGED <<pc, copy, snap>>
  BY <1>2 DEF DecisionInv, Allowed, UnlockedEnabled, LockedDisabled
<1>3. CASE Decide
  <2>1. UNCHANGED <<copy, snap>>
    BY <1>3 DEF Decide
  <2>2. \/ pc' = "status"
        \/ pc' \in {"strategy", "enabled"} /\ UnlockedEnabled(snap) /\ ~StopsHere
        \/ pc' \in {"unlockRequired", "disabled"} /\ LockedDisabled(snap) /\ ~StopsHere
    BY <1>3 DEF Decide, Wait, Leave, Goto
  <2>3. ~StopsHere => Allowed(copy)
    BY DEF StopsHere, Blocked, Allowed, TypeInv, PassTyped, Objects
  <2> QED
    BY <2>1, <2>2, <2>3 DEF DecisionInv, Allowed, UnlockedEnabled, LockedDisabled
<1>4. CASE ReconcileEnabledHost
  BY <1>4 DEF ReconcileEnabledHost, Request, Goto, Leave, DecisionInv, Allowed, UnlockedEnabled
<1>5. CASE ReconcileDisabledHost
  BY <1>5 DEF ReconcileDisabledHost, Request, Goto, Leave, DecisionInv, Allowed, LockedDisabled
<1>6. CASE ReconcileFinalState
  BY <1>6 DEF ReconcileFinalState, Request, Goto, Wait, Leave, DecisionInv, Allowed,
              LockedDisabled
<1>7. CASE UNCHANGED vars
  BY <1>2, <1>7 DEF vars, localVars
<1> QED
  BY <1>1, <1>2, <1>3, <1>4, <1>5, <1>6, <1>7, ByStateEntered

\* A host appears, goes or changes; only ReconcileEnabledHost, AssignAdminNetwork and
\* ReconcileDisabledHost change its configuration.
Same == UNCHANGED <<host, nextId>>
Gone == /\ host' = NoHost /\ UNCHANGED nextId
        /\ OperatorDeletesHost \/ ReconcileDeletedHost
Appears == host.id = 0 /\ host'.id = nextId /\ nextId' = nextId + 1
Changes ==
  /\ host.id # 0 /\ host'.id = host.id /\ UNCHANGED nextId
  /\ \/ Configuration(host') = Configuration(host)
     \/ ReconcileEnabledHost \/ AssignAdminNetwork \/ ReconcileDisabledHost
  /\ host'.oos = host.oos \/ ReconcileDisabledHost
  /\ host'.nets = host.nets \/ AssignAdminNetwork \/ ReconcileDisabledHost

LEMMA HostSteps ==
  ASSUME TypeInv, IdsInv, DecisionInv, Next
  PROVE  Same \/ Gone \/ Appears \/ Changes
<1>0. host \in Hosts /\ snap \in Hosts /\ nextId \in Nat
  BY DEF TypeInv, EnvTyped, PassTyped
<1>z. /\ host.id = 0 => host.state = "none"
      /\ snap.id = 0 => snap.state = "none"
  BY NoHostTyped DEF IdsInv, HostOK
<1>m. ASSUME NEW to, host' = [host EXCEPT !.state = to], host.state # "none", UNCHANGED nextId
      PROVE  Changes
  BY <1>0, <1>z, <1>m DEF Changes, Configuration, Hosts
<1>1. CASE FetchInstance \/ UpdateDeploymentScope \/ UpdateStatusForFactoryInstall
           \/ SetFactoryReconciledUpdated \/ AddFinalizer \/ UpdateAnnotation
           \/ UpdateConfigStatus \/ GetHost \/ RemoveHostFinalizer \/ PopulateHostInfo
           \/ FinalizeFactory \/ BuildHostDefaults \/ SetFactoryDefaultUpdated
           \/ SetInstanceDelta \/ Decide \/ RequireLock \/ RequireUnlock \/ StatusUpdate
  BY <1>1 DEF FetchInstance, UpdateDeploymentScope, UpdateStatusForFactoryInstall,
              SetFactoryReconciledUpdated, AddFinalizer, UpdateAnnotation, UpdateConfigStatus,
              GetHost, RemoveHostFinalizer, PopulateHostInfo, FinalizeFactory,
              BuildHostDefaults, SetFactoryDefaultUpdated, SetInstanceDelta, Decide,
              RequireLock, RequireUnlock, StatusUpdate, sysVars, Same
<1>2. CASE ReconcileNewHost
  <2> DEFINE created == [NoHost EXCEPT !.id = nextId, !.named = TRUE, !.state = "offline"]
             found == [host EXCEPT !.named = TRUE]
  <2>1. created.id = nextId
    BY NoHostTyped DEF Hosts
  <2>2. /\ found.id = host.id /\ Configuration(found) = Configuration(host)
        /\ found.oos = host.oos /\ found.nets = host.nets
    BY <1>0 DEF Hosts, Configuration
  <2> HIDE DEF created, found
  <2>3. \/ UNCHANGED <<host, nextId>>
        \/ host.id = 0 /\ host' = created /\ nextId' = nextId + 1
        \/ host.id # 0 /\ host' = found /\ UNCHANGED nextId
    BY <1>2 DEF ReconcileNewHost, ProvisionHost, Exists, created, found
  <2> QED
    BY <2>1, <2>2, <2>3 DEF Same, Appears, Changes
<1>3. CASE ReconcileDeletedHost
  <2>1. \/ UNCHANGED <<host, nextId>>
        \/ host' = NoHost /\ UNCHANGED nextId
        \/ host' = [host EXCEPT !.state = "locking"] /\ UnlockedEnabled(host) /\ UNCHANGED nextId
    BY <1>3 DEF ReconcileDeletedHost, Stable
  <2> QED
    BY <1>3, <1>m, <2>1 DEF Same, Gone, UnlockedEnabled
<1>4. CASE ReconcileEnabledHost
  <2>1. host' = host \/ host.id = snap.id
    BY <1>4 DEF ReconcileEnabledHost, Request
  <2>2. snap.id # 0
    BY <1>4, <1>z DEF ReconcileEnabledHost, DecisionInv, UnlockedEnabled
  <2>3. host'.id = host.id /\ host'.oos = host.oos /\ host'.nets = host.nets
    <3>1. \/ host' = host
          \/ host' = [host EXCEPT !.state = "locking"]
          \/ host' = [host EXCEPT !.fs = profile.fs, !.routes = profile.routes]
      BY <1>4 DEF ReconcileEnabledHost, Request
    <3> QED
      BY <1>0, <3>1 DEF Hosts
  <2> QED
    BY <1>4, <2>1, <2>2, <2>3 DEF ReconcileEnabledHost, Same, Changes
<1>5. CASE ReconcileDisabledHost
  <2>1. host' = host \/ host.id = snap.id
    BY <1>5 DEF ReconcileDisabledHost, Request
  <2>2. snap.id # 0
    BY <1>5, <1>z DEF ReconcileDisabledHost, DecisionInv, LockedDisabled
  <2>3. host'.id = host.id
    <3>1. \/ host' = host
          \/ host' = [host EXCEPT !.oos = Effective(copy), !.nets = profile.nets,
                                  !.routes = profile.routes]
      BY <1>5 DEF ReconcileDisabledHost, Request
    <3> QED
      BY <1>0, <3>1 DEF Hosts
  <2> QED
    BY <1>5, <2>1, <2>2, <2>3 DEF ReconcileDisabledHost, Same, Changes
<1>6. CASE ReconcileFinalState
  <2>1. UNCHANGED nextId
    BY <1>6 DEF ReconcileFinalState
  <2>2. \/ UNCHANGED host
        \/ host' = [host EXCEPT !.state = "unlocking"] /\ host.state = "online"
    BY <1>6 DEF ReconcileFinalState, Request
  <2> QED
    BY <1>m, <2>1, <2>2 DEF Same
<1>7. CASE UpdateHosts \/ MonitorFires \/ StateChangePoll \/ ControllersEnabled \/ UserChanges
           \/ UserAnnotates \/ UserDeletes \/ ProfileChanges \/ Restart
  BY <1>7 DEF UpdateHosts, MonitorFires, StateChangePoll, ControllersEnabled, UserChanges,
              UserAnnotates, UserDeletes, UserWrites, ProfileChanges, Restart, sysVars, Same
<1>8. CASE HostProgress \/ OperatorActs
  <2>1. UNCHANGED nextId
    BY <1>8 DEF HostProgress, OperatorActs
  <2>2. \E to \in States : host.state # "none" /\ host' = [host EXCEPT !.state = to]
    BY <1>8 DEF HostProgress, OperatorActs, HostMoves, States
  <2> QED
    BY <1>m, <2>1, <2>2
<1>9. CASE HostAppears
  BY <1>9, NoHostTyped DEF HostAppears, Appears, Exists, Hosts
<1>10. CASE OperatorDeletesHost
  BY <1>10 DEF OperatorDeletesHost, Gone
<1>11. CASE Vim
  <2>1. UNCHANGED nextId
    BY <1>11 DEF Vim
  <2>2. \/ UNCHANGED host
        \/ \E to : host.state # "none" /\ host' = [host EXCEPT !.state = to]
    BY <1>11 DEF Vim, VimStarts, VimLocks, VimUnlocks, VimEnds, HostMoves, Stable,
                 UnlockedEnabled, LockedDisabled
  <2> QED
    BY <1>m, <2>1, <2>2 DEF Same
<1>12. CASE AssignAdminNetwork
  <2>1. host' = host \/ (host.id = snap.id /\ host' = [host EXCEPT !.nets = profile.nets])
    BY <1>12 DEF AssignAdminNetwork, Request
  <2>2. snap.id # 0
    BY <1>12, <1>z DEF AssignAdminNetwork, DecisionInv, UnlockedEnabled
  <2>3. host'.id = host.id /\ host'.oos = host.oos
    BY <1>0, <2>1 DEF Hosts
  <2> QED
    BY <1>12, <2>1, <2>2, <2>3 DEF AssignAdminNetwork, Same, Changes
<1> QED
  BY <1>1, <1>2, <1>3, <1>4, <1>5, <1>6, <1>7, <1>8, <1>9, <1>10, <1>11, <1>12
     DEF Next, Reconcile, System, Others

\* The identifier an object records is the one of a host the controller has read.
LEMMA IdsRecorded ==
  ASSUME TypeInv, Next
  PROVE  /\ obj'.id \in {obj.id, copy.id, seen.id}
         /\ copy'.id \in {obj.id, copy.id, seen.id}
<1>0. obj \in Objects /\ copy \in Objects
  BY DEF TypeInv, PassTyped
<1>1. CASE Quiet
  BY <1>1, QuietShape DEF Quiet, GetHost, ReconcileNewHost, ProvisionHost, ReturnWaiting,
        ReconcileDeletedHost, SetFactoryReconciledUpdated, Return, PopulateHostInfo,
        FinalizeFactory, SetFactoryDefaultUpdated, Decide, ReconcileEnabledHost,
        AssignAdminNetwork, ReconcileDisabledHost, ReconcileFinalState, localVars
<1>2. CASE FetchInstance
  BY <1>2 DEF FetchInstance
<1>3. CASE UpdateDeploymentScope
  <2>1. [copy EXCEPT !.scope = copy.asked].id = copy.id
    BY <1>0 DEF Objects
  <2> QED
    BY <1>3, <2>1 DEF UpdateDeploymentScope, Write, WriteFails, Return, kubeVars, localVars
<1>4. CASE UpdateStatusForFactoryInstall
  <2>1. [copy EXCEPT !.reconciled = FALSE].id = copy.id
    BY <1>0 DEF Objects
  <2> QED
    BY <1>4, <2>1 DEF UpdateStatusForFactoryInstall, Write, WriteFails, Return, kubeVars, localVars
<1>5. CASE AddFinalizer
  <2>1. [copy EXCEPT !.finalizer = TRUE].id = copy.id
    BY <1>0 DEF Objects
  <2> QED
    BY <1>5, <2>1 DEF AddFinalizer, WriteFails, Return, kubeVars, localVars
<1>6. CASE UpdateAnnotation
  <2>1. [obj EXCEPT !.annot = AfterInSync(obj)].id = obj.id
    BY <1>0 DEF Objects
  <2> QED
    BY <1>6, <2>1 DEF UpdateAnnotation, ReadAndWrite, Return
<1>7. CASE UpdateConfigStatus
  BY <1>0, <1>7, ObservedFields DEF UpdateConfigStatus, ReadAndWrite, Return
<1>8. CASE RemoveHostFinalizer
  <2>1. [copy EXCEPT !.finalizer = FALSE, !.life = "gone"].id = copy.id
    BY <1>0 DEF Objects
  <2> QED
    BY <1>8, <2>1 DEF RemoveHostFinalizer, Return
<1>9. CASE BuildHostDefaults
  <2>1. [copy EXCEPT !.defaults = snap.oos].id = copy.id
    BY <1>0 DEF Objects
  <2> QED
    BY <1>9, <2>1 DEF BuildHostDefaults, Write, WriteFails, KeepsValues, kubeVars
<1>10. CASE SetInstanceDelta
  <2> DEFINE new == [copy EXCEPT !.inSync = CompareAttributes(copy, snap),
                                 !.delta = IF CompareAttributes(copy, snap) THEN {}
                                           ELSE Delta(copy, snap)]
  <2>1. new.id = copy.id
    BY <1>0 DEF Objects
  <2> HIDE DEF new
  <2>2. \/ copy' = new /\ UNCHANGED <<kubeVars, fresh>>
        \/ Write(new)
        \/ WriteFails(new) /\ KeepsValues(new)
    BY <1>10 DEF SetInstanceDelta, new
  <2> QED
    BY <2>1, <2>2 DEF Write, WriteFails, KeepsValues, kubeVars
<1>11. CASE RequireLock \/ RequireUnlock
  <2>1. ASSUME NEW value PROVE [copy EXCEPT !.strategy = value].id = copy.id
    BY <1>0 DEF Objects
  <2> QED
    BY <1>11, <2>1 DEF RequireLock, RequireUnlock, SetStrategy, Write, WriteFails, KeepsValues,
                       kubeVars
<1>12. CASE StatusUpdate
  <2> DEFINE new == Settled(copy, err = "none")
  <2>1. new.id = seen.id
    BY <1>0 DEF Settled, Recorded, Objects
  <2> HIDE DEF new
  <2>2. obj' \in {obj, new} /\ copy' = obj'
    BY <1>12 DEF StatusUpdate, WriteFails, Return, new
  <2> QED
    BY <2>1, <2>2
<1>13. CASE Elsewhere
  BY <1>13, ElsewhereShape DEF kubeVars, localVars
<1>14. CASE UpdateHosts \/ MonitorFires \/ Restart
  BY <1>14 DEF UpdateHosts, MonitorFires, Restart, Return
<1>15. CASE UserChanges
  <2>1. ASSUME NEW asked PROVE [obj EXCEPT !.gen = @ + 1, !.asked = asked].id = obj.id
    BY <1>0 DEF Objects
  <2> QED
    BY <1>15, <2>1 DEF UserChanges, UserWrites
<1>16. CASE UserDeletes
  <2>1. ASSUME NEW life PROVE [obj EXCEPT !.gen = @ + 1, !.life = life].id = obj.id
    BY <1>0 DEF Objects
  <2> QED
    BY <1>16, <2>1 DEF UserDeletes, UserWrites
<1>17. CASE UserAnnotates
  <2>1. ASSUME NEW annot PROVE [obj EXCEPT !.annot = annot].id = obj.id
    BY <1>0 DEF Objects
  <2> QED
    BY <1>17, <2>1 DEF UserAnnotates, UserWrites
<1> QED
  BY <1>1, <1>2, <1>3, <1>4, <1>5, <1>6, <1>7, <1>8, <1>9, <1>10, <1>11, <1>12, <1>13,
     <1>14, <1>15, <1>16, <1>17, ReconcileCases DEF Next, Others, Elsewhere

\* The controller has read the host as it is or was.
LEMMA HostsRead ==
  ASSUME Next
  PROVE  /\ seen' \in {seen, host', NoHost}
         /\ snap' \in {snap, host', NoHost}
<1>1. CASE FetchInstance \/ UpdateDeploymentScope \/ UpdateStatusForFactoryInstall
           \/ SetFactoryReconciledUpdated \/ AddFinalizer \/ RemoveHostFinalizer
  BY <1>1 DEF FetchInstance, UpdateDeploymentScope, UpdateStatusForFactoryInstall,
              SetFactoryReconciledUpdated, AddFinalizer, RemoveHostFinalizer, Return, localVars
<1>2. CASE UpdateAnnotation \/ UpdateConfigStatus
  BY <1>2 DEF UpdateAnnotation, UpdateConfigStatus, ReadAndWrite, Return
<1>3. CASE GetHost \/ ReconcileNewHost \/ ReconcileDeletedHost
  BY <1>3 DEF GetHost, ReconcileNewHost, ProvisionHost, ReconcileDeletedHost, ReturnWaiting,
              Return, localVars, sysVars
<1>4. CASE PopulateHostInfo \/ FinalizeFactory \/ BuildHostDefaults
           \/ SetFactoryDefaultUpdated \/ SetInstanceDelta \/ Decide
  BY <1>4 DEF PopulateHostInfo, FinalizeFactory, BuildHostDefaults, SetFactoryDefaultUpdated,
              SetInstanceDelta, Decide, sysVars
<1>5. CASE ReconcileEnabledHost \/ RequireLock \/ AssignAdminNetwork \/ ReconcileDisabledHost
           \/ ReconcileFinalState \/ RequireUnlock
  BY <1>5 DEF ReconcileEnabledHost, RequireLock, AssignAdminNetwork, ReconcileDisabledHost,
              ReconcileFinalState, RequireUnlock
<1>6. CASE StatusUpdate
  BY <1>6 DEF StatusUpdate, Return
<1>7. CASE Elsewhere
  BY <1>7, ElsewhereShape DEF localVars
<1>8. CASE UpdateHosts \/ MonitorFires \/ Restart \/ UserChanges \/ UserAnnotates \/ UserDeletes
  BY <1>8 DEF UpdateHosts, MonitorFires, Restart, Return, UserChanges, UserAnnotates,
              UserDeletes, UserWrites
<1> QED
  BY <1>1, <1>2, <1>3, <1>4, <1>5, <1>6, <1>7, <1>8 DEF Next, Reconcile, Others, Elsewhere

LEMMA StepIds == TypeInv /\ TypeInv' /\ DecisionInv /\ IdsInv /\ [Next]_vars => IdsInv'
<1> SUFFICES ASSUME TypeInv, TypeInv', DecisionInv, IdsInv, [Next]_vars PROVE IdsInv'
  OBVIOUS
<1>0. /\ nextId \in Nat /\ nextId' \in Nat /\ host.id \in Nat /\ seen.id \in Nat
      /\ obj.id \in Nat /\ copy.id \in Nat /\ snap.id \in Nat
  BY DEF TypeInv, EnvTyped, PassTyped, Hosts, Objects
<1>1. CASE Next
  <2>1. Same \/ Gone \/ Appears \/ Changes
    BY <1>1, HostSteps
  <2>2. nextId \leq nextId' /\ nextId # 0
    BY <1>0, <2>1 DEF Same, Gone, Appears, Changes, IdsInv, HostOK
  <2>3. HostOK(host)'
    BY <1>0, <2>1, <2>2, NoHostTyped DEF Same, Gone, Appears, Changes, IdsInv, HostOK
  <2>4. HostOK(seen)' /\ HostOK(snap)'
    BY <1>0, <1>1, <2>2, <2>3, HostsRead, NoHostTyped DEF IdsInv, HostOK
  <2>5. obj'.id < nextId' /\ copy'.id < nextId'
    BY <1>0, <1>1, <2>2, IdsRecorded DEF IdsInv, HostOK
  <2> QED
    BY <2>3, <2>4, <2>5 DEF IdsInv
<1>2. CASE UNCHANGED vars
  BY <1>2 DEF vars, kubeVars, sysVars, localVars, IdsInv, HostOK
<1> QED
  BY <1>1, <1>2

-----------------------------------------------------------------------------
(* The initial states, and changes that are refused.                       *)

PassInv == TypeInv /\ CopyInv /\ DecisionInv /\ IdsInv

LEMMA InitPass == Init => PassInv
<1> SUFFICES ASSUME Init PROVE PassInv
  OBVIOUS
<1>1. TypeInv
  BY InitTyped
<1>2. pc = "idle" /\ copy = obj /\ seen = NoHost /\ snap = NoHost /\ nextId = host.id + 1
  BY DEF Init
<1>3. CopyInv /\ DecisionInv
  BY <1>2 DEF CopyInv, DecisionInv
<1>4. obj.id \in {0, host.id} /\ (host = NoHost \/ host.id = 1)
  <2>1. ASSUME NEW n PROVE [NoHost EXCEPT !.id = 1, !.named = n, !.state = "online"].id = 1
    BY NoHostTyped DEF Hosts
  <2>2. obj.id \in {0, host.id}
    BY InitShape
  <2>3. \/ host = NoHost
        \/ \E n \in BOOLEAN : host = [NoHost EXCEPT !.id = 1, !.named = n, !.state = "online"]
        \/ \E old \in Wants :
             host = [id |-> 1, named |-> TRUE, state |-> "available",
                     oos |-> IF old.oos = 0 THEN 1 ELSE old.oos, nets |-> old.nets,
                     fs |-> old.fs, routes |-> old.routes]
    BY InitShape, Zenon
  <2>4. CASE \E old \in Wants :
               host = [id |-> 1, named |-> TRUE, state |-> "available",
                       oos |-> IF old.oos = 0 THEN 1 ELSE old.oos, nets |-> old.nets,
                       fs |-> old.fs, routes |-> old.routes]
    BY <2>2, <2>4
  <2>5. CASE \E n \in BOOLEAN : host = [NoHost EXCEPT !.id = 1, !.named = n, !.state = "online"]
    BY <2>1, <2>2, <2>5
  <2> QED
    BY <2>2, <2>3, <2>4, <2>5, Zenon
<1>5. IdsInv
  BY <1>2, <1>4, NoHostTyped DEF IdsInv, HostOK
<1> QED
  BY <1>1, <1>3, <1>5 DEF PassInv

LEMMA StepPass == PassInv /\ [Next]_vars => PassInv'
BY StepTyped, StepCopy, StepDecision, StepIds DEF PassInv

\* Between UpdateAnnotation and the end of a Reconcile only the user writes the annotation,
\* and only UpdateDeploymentScope, before it, writes the scope.
LEMMA StepAnnot == TypeInv /\ AnnotInv /\ [Next]_vars => AnnotInv'
<1> SUFFICES ASSUME TypeInv, AnnotInv, [Next]_vars, pc' \notin Unannotated
             PROVE  DayTwoOnly(obj') /\ DayTwoOnly(copy')
  BY DEF AnnotInv, DayTwoOnly
<1>0. obj \in Objects /\ copy \in Objects
  BY DEF TypeInv, PassTyped
<1>k. ASSUME pc \notin Unannotated,
             NEW new, DayTwoOnly(copy) => DayTwoOnly(new), obj' \in {obj, new}, copy' \in {copy, new}
      PROVE  DayTwoOnly(obj') /\ DayTwoOnly(copy')
  BY <1>k DEF AnnotInv
<1>1. CASE UNCHANGED <<pc, obj, copy>>
  BY <1>1 DEF AnnotInv
<1>2. CASE UpdateAnnotation
  <2>1. pc' # "idle"
    BY DEF Unannotated
  <2>2. obj' = [obj EXCEPT !.annot = AfterInSync(obj)] /\ copy' = obj'
    BY <1>2, <2>1 DEF UpdateAnnotation, ReadAndWrite, Return
  <2>3. obj'.annot = AfterInSync(obj) /\ obj'.scope = obj.scope
    BY <1>0, <2>2 DEF Objects
  <2> QED
    BY <2>2, <2>3 DEF DayTwoOnly, AfterInSync
<1>3. CASE UpdateConfigStatus
  <2>1. pc' # "idle" /\ pc \notin Unannotated
    BY <1>3 DEF Unannotated, UpdateConfigStatus
  <2>2. obj' = Observe(obj) /\ copy' = obj'
    BY <1>3, <2>1 DEF UpdateConfigStatus, ReadAndWrite, Return
  <2> QED
    BY <1>0, <2>1, <2>2, ObservedFields DEF AnnotInv, DayTwoOnly
<1>4. CASE FetchInstance \/ UpdateDeploymentScope \/ UpdateStatusForFactoryInstall
           \/ SetFactoryReconciledUpdated \/ AddFinalizer \/ RemoveHostFinalizer \/ StatusUpdate
  BY <1>4 DEF FetchInstance, UpdateDeploymentScope, UpdateStatusForFactoryInstall,
              SetFactoryReconciledUpdated, AddFinalizer, RemoveHostFinalizer, StatusUpdate,
              Goto, Return, Unannotated
<1>5. CASE Quiet /\ ~SetFactoryReconciledUpdated
  <2>1. UNCHANGED <<obj, copy>>
    BY <1>5, QuietShape DEF Unannotated
  <2>2. pc \notin Unannotated
    BY <1>5 DEF Quiet, GetHost, ReconcileNewHost, ReconcileDeletedHost, PopulateHostInfo,
                FinalizeFactory, SetFactoryDefaultUpdated, Decide, ReconcileEnabledHost,
                AssignAdminNetwork, ReconcileDisabledHost, ReconcileFinalState, Unannotated
  <2> QED
    BY <2>1, <2>2 DEF AnnotInv
<1>6. CASE BuildHostDefaults
  <2> DEFINE new == [copy EXCEPT !.defaults = snap.oos]
  <2>1. DayTwoOnly(copy) => DayTwoOnly(new)
    BY <1>0 DEF Objects, DayTwoOnly
  <2>2. pc \notin Unannotated /\ obj' \in {obj, new} /\ copy' \in {copy, new}
    BY <1>6 DEF BuildHostDefaults, Write, WriteFails, KeepsValues, kubeVars, Unannotated
  <2> QED
    BY <1>k, <2>1, <2>2
<1>7. CASE SetInstanceDelta
  <2> DEFINE new == [copy EXCEPT !.inSync = CompareAttributes(copy, snap),
                                 !.delta = IF CompareAttributes(copy, snap) THEN {}
                                           ELSE Delta(copy, snap)]
  <2>1. DayTwoOnly(copy) => DayTwoOnly(new)
    BY <1>0 DEF Objects, DayTwoOnly
  <2>2. pc \notin Unannotated /\ obj' \in {obj, new} /\ copy' \in {copy, new}
    BY <1>7 DEF SetInstanceDelta, Write, WriteFails, KeepsValues, kubeVars, Unannotated
  <2> QED
    BY <1>k, <2>1, <2>2
<1>8. CASE RequireLock \/ RequireUnlock
  <2>1. ASSUME NEW value
        PROVE  DayTwoOnly(copy) => DayTwoOnly([copy EXCEPT !.strategy = value])
    BY <1>0 DEF Objects, DayTwoOnly
  <2>2. /\ pc \notin Unannotated
        /\ \E value : /\ obj' \in {obj, [copy EXCEPT !.strategy = value]}
                      /\ copy' \in {copy, [copy EXCEPT !.strategy = value]}
    BY <1>8 DEF RequireLock, RequireUnlock, SetStrategy, Write, WriteFails, KeepsValues, kubeVars,
                Unannotated
  <2> QED
    BY <1>k, <2>1, <2>2
<1>9. CASE Elsewhere \/ UpdateHosts \/ MonitorFires
  BY <1>1, <1>9, ElsewhereShape DEF kubeVars, localVars, UpdateHosts, MonitorFires
<1>10. CASE UserChanges \/ UserDeletes
  <2>1. UNCHANGED <<pc, copy>>
    BY <1>10 DEF UserChanges, UserDeletes, UserWrites
  <2>2. obj'.annot = obj.annot /\ obj'.scope = obj.scope
    <3>1. ASSUME NEW asked \in Scopes
          PROVE  LET new == [obj EXCEPT !.gen = @ + 1, !.asked = asked] IN
                 new.annot = obj.annot /\ new.scope = obj.scope
      BY <1>0 DEF Objects
    <3>2. LET new == [obj EXCEPT !.gen = @ + 1,
                                 !.life = IF obj.finalizer THEN "deleting" ELSE "gone"] IN
          new.annot = obj.annot /\ new.scope = obj.scope
      BY <1>0 DEF Objects
    <3> QED
      BY <1>10, <3>1, <3>2 DEF UserChanges, UserDeletes, UserWrites
  <2> QED
    BY <2>1, <2>2 DEF AnnotInv, DayTwoOnly
<1>11. CASE UserAnnotates
  <2>1. UNCHANGED <<pc, copy>>
    BY <1>11 DEF UserAnnotates, UserWrites
  <2>2. obj'.annot # "day2"
    BY <1>0, <1>11 DEF UserAnnotates, UserWrites, Objects
  <2> QED
    BY <2>1, <2>2 DEF AnnotInv, DayTwoOnly
<1>12. CASE Restart
  BY <1>12 DEF Restart, Return, Unannotated
<1>13. CASE UNCHANGED vars
  BY <1>1, <1>13 DEF vars, kubeVars, localVars
<1> QED
  BY <1>2, <1>3, <1>4, <1>5, <1>6, <1>7, <1>8, <1>9, <1>10, <1>11, <1>12, <1>13,
     ReconcileCases DEF Next, Others, Elsewhere

\* Whatever Reconcile read and decided on before, and whoever acts on the host and the
\* object meanwhile, a request that changes the configuration of a host is sent only
\* while the object in Kubernetes is not reconciled, is in Day-2 operation or asks for
\* the host to be locked, or after Reconcile has read an annotation of the user's: the
\* copy it decides on agrees with the object in these fields, and the annotation that it
\* puts on the object itself in Day-2 operation is taken back before anything is decided.
THEOREM ChangesRefused == Spec => RefusesChanges
<1> DEFINE Step == /\ host'.id = host.id
                   /\ Configuration(host') # Configuration(host)
                   => \/ ~obj.reconciled \/ obj.scope = "principal"
                      \/ obj.strategy = "lock_required" \/ copy.annot \in {"true", "other"}
           Inv == PassInv /\ AnnotInv
<1>1. Inv /\ [Next]_vars => [Step]_vars
  <2> SUFFICES ASSUME PassInv, AnnotInv, Next, host'.id = host.id,
                      Configuration(host') # Configuration(host)
               PROVE  \/ ~obj.reconciled \/ obj.scope = "principal"
                      \/ obj.strategy = "lock_required" \/ copy.annot \in {"true", "other"}
    OBVIOUS
  <2>1. TypeInv /\ IdsInv /\ DecisionInv /\ CopyInv
    BY DEF PassInv
  <2>2. Same \/ Gone \/ Appears \/ Changes
    BY <2>1, HostSteps
  <2>3. ~Same /\ ~Gone /\ ~Appears
    <3>1. ~Same
      BY DEF Same, Configuration
    <3>2. ~Gone
      BY <2>1, NoHostTyped DEF Gone, Configuration, IdsInv, HostOK
    <3>3. ~Appears
      BY <2>1 DEF Appears, IdsInv, HostOK, TypeInv, EnvTyped
    <3> QED
      BY <3>1, <3>2, <3>3
  <2>4. pc \in {"enabled", "strategy", "disabled"}
    BY <2>2, <2>3 DEF Changes, ReconcileEnabledHost, AssignAdminNetwork, ReconcileDisabledHost
  <2>5. Allowed(copy) /\ SameStatus(copy, obj) /\ copy.strategy = obj.strategy
    BY <2>1, <2>4 DEF CopyInv, DecisionInv
  <2>6. copy.annot = "day2" => obj.scope = "principal"
    BY <2>4, <2>5 DEF AnnotInv, Unannotated, DayTwoOnly, SameStatus
  <2>7. copy.annot \in {"none", "day2", "true", "other"}
    BY <2>1 DEF TypeInv, PassTyped, Objects
  <2> QED
    BY <2>5, <2>6, <2>7 DEF Allowed, SameStatus
<1>2. Init => Inv
  BY InitPass DEF Init, AnnotInv, Unannotated
<1>3. Inv /\ [Next]_vars => Inv'
  BY StepPass, StepAnnot DEF PassInv
<1> QED
  BY <1>1, <1>2, <1>3, PTL DEF Spec, RefusesChanges

-----------------------------------------------------------------------------
(* The course of a Reconcile.                                              *)

LEMMA Flow ==
  /\ FetchInstance => pc = "idle" /\ pc' \in {"idle", "scope"}
  /\ UpdateDeploymentScope => pc = "scope" /\ pc' \in {"factory", "idle"}
  /\ UpdateStatusForFactoryInstall => pc = "factory" /\ pc' \in {"gate", "factoryFlag", "idle"}
  /\ SetFactoryReconciledUpdated => pc = "factoryFlag" /\ pc' \in {"gate", "idle"}
  /\ AddFinalizer => pc = "gate" /\ pc' \in {"annotate", "idle"}
  /\ UpdateAnnotation => pc = "annotate" /\ pc' \in {"observe", "idle"}
  /\ UpdateConfigStatus => pc = "observe" /\ pc' \in {"get", "idle"}
  /\ GetHost => pc = "get" /\ pc' \in {"delete", "unfinalize", "populate", "new", "idle"}
  /\ ReconcileNewHost => pc = "new" /\ pc' \in {"populate", "idle"}
  /\ ReconcileDeletedHost => pc = "delete" /\ pc' \in {"unfinalize", "idle"}
  /\ RemoveHostFinalizer => pc = "unfinalize" /\ pc' = "idle"
  /\ PopulateHostInfo => pc = "populate" /\ pc' \in {"finalize", "status"}
  /\ FinalizeFactory => pc = "finalize" /\ pc' \in {"defaults", "status"}
  /\ BuildHostDefaults => pc = "defaults" /\ pc' \in {"compare", "defaultFlag", "status"}
  /\ SetFactoryDefaultUpdated => pc = "defaultFlag" /\ pc' \in {"compare", "status"}
  /\ SetInstanceDelta => pc = "compare" /\ pc' = "decide"
  /\ Decide => pc = "decide" /\ pc' \in {"strategy", "enabled", "unlockRequired", "disabled", "status"}
  /\ ReconcileEnabledHost => pc = "enabled" /\ pc' \in {"strategy", "status"}
  /\ RequireLock => pc = "strategy" /\ pc' = "status"
  /\ AssignAdminNetwork => pc = "strategy" /\ pc' = "status"
  /\ ReconcileDisabledHost => pc = "disabled" /\ pc' \in {"final", "status"}
  /\ ReconcileFinalState => pc = "final" /\ pc' \in {"unlockRequired", "status"}
  /\ RequireUnlock => pc = "unlockRequired" /\ pc' = "status"
  /\ StatusUpdate => pc = "status" /\ pc' = "idle"
<1>1. FetchInstance => pc = "idle" /\ pc' \in {"idle", "scope"}
  BY DEF FetchInstance, Goto
<1>2. UpdateDeploymentScope => pc = "scope" /\ pc' \in {"factory", "idle"}
  BY DEF UpdateDeploymentScope, Goto, Return
<1>3. UpdateStatusForFactoryInstall => pc = "factory" /\ pc' \in {"gate", "factoryFlag", "idle"}
  BY DEF UpdateStatusForFactoryInstall, Goto, Return
<1>4. SetFactoryReconciledUpdated => pc = "factoryFlag" /\ pc' \in {"gate", "idle"}
  BY DEF SetFactoryReconciledUpdated, Goto, Return
<1>5. AddFinalizer => pc = "gate" /\ pc' \in {"annotate", "idle"}
  BY DEF AddFinalizer, Goto, Return
<1>6. UpdateAnnotation => pc = "annotate" /\ pc' \in {"observe", "idle"}
  BY DEF UpdateAnnotation, ReadAndWrite, Goto, Return
<1>7. UpdateConfigStatus => pc = "observe" /\ pc' \in {"get", "idle"}
  BY DEF UpdateConfigStatus, ReadAndWrite, Goto, Return
<1>8. GetHost => pc = "get" /\ pc' \in {"delete", "unfinalize", "populate", "new", "idle"}
  BY DEF GetHost, Goto, Return
<1>9. ReconcileNewHost => pc = "new" /\ pc' \in {"populate", "idle"}
  BY DEF ReconcileNewHost, ProvisionHost, ReturnWaiting, Goto, Return
<1>10. ReconcileDeletedHost => pc = "delete" /\ pc' \in {"unfinalize", "idle"}
  BY DEF ReconcileDeletedHost, ReturnWaiting, Goto, Return
<1>11. RemoveHostFinalizer => pc = "unfinalize" /\ pc' = "idle"
  BY DEF RemoveHostFinalizer, Return
<1>12. PopulateHostInfo => pc = "populate" /\ pc' \in {"finalize", "status"}
  BY DEF PopulateHostInfo, Goto, Wait, Leave
<1>13. FinalizeFactory => pc = "finalize" /\ pc' \in {"defaults", "status"}
  BY DEF FinalizeFactory, Goto, Leave
<1>14. BuildHostDefaults => pc = "defaults" /\ pc' \in {"compare", "defaultFlag", "status"}
  BY DEF BuildHostDefaults, Goto, Wait, Leave
<1>15. SetFactoryDefaultUpdated => pc = "defaultFlag" /\ pc' \in {"compare", "status"}
  BY DEF SetFactoryDefaultUpdated, Goto, Leave
<1>16. SetInstanceDelta => pc = "compare" /\ pc' = "decide"
  BY DEF SetInstanceDelta, Goto
<1>17. Decide => pc = "decide" /\ pc' \in {"strategy", "enabled", "unlockRequired", "disabled",
                                           "status"}
  BY DEF Decide, Goto, Wait, Leave
<1>18. ReconcileEnabledHost => pc = "enabled" /\ pc' \in {"strategy", "status"}
  BY DEF ReconcileEnabledHost, Request, Goto, Leave
<1>19. RequireLock => pc = "strategy" /\ pc' = "status"
  BY DEF RequireLock, SetStrategy, Wait, Leave
<1>20. ReconcileDisabledHost => pc = "disabled" /\ pc' \in {"final", "status"}
  BY DEF ReconcileDisabledHost, Request, Goto, Leave
<1>21. ReconcileFinalState => pc = "final" /\ pc' \in {"unlockRequired", "status"}
  BY DEF ReconcileFinalState, Request, Goto, Wait, Leave
<1>22. RequireUnlock => pc = "unlockRequired" /\ pc' = "status"
  BY DEF RequireUnlock, SetStrategy, Wait, Leave
<1>23. StatusUpdate => pc = "status" /\ pc' = "idle"
  BY DEF StatusUpdate, Return
<1>24. AssignAdminNetwork => pc = "strategy" /\ pc' = "status"
  BY DEF AssignAdminNetwork, Request, Leave
<1> QED
  BY <1>1, <1>2, <1>3, <1>4, <1>5, <1>6, <1>7, <1>8, <1>9, <1>10, <1>11, <1>12, <1>13,
     <1>14, <1>15, <1>16, <1>17, <1>18, <1>19, <1>20, <1>21, <1>22, <1>23, <1>24

\* The others leave the pass alone.
Outside == Elsewhere \/ UpdateHosts \/ MonitorFires \/ UserChanges \/ UserAnnotates
           \/ UserDeletes

LEMMA OutsideShape ==
  ASSUME Outside
  PROVE  UNCHANGED <<pc, copy, profile, scoped, seen, snap, err>>
<1>1. CASE Elsewhere
  BY <1>1, ElsewhereShape DEF localVars
<1>2. CASE ~Elsewhere
  BY <1>2 DEF Outside, UpdateHosts, MonitorFires, UserChanges, UserAnnotates, UserDeletes,
              UserWrites
<1> QED
  BY <1>1, <1>2

LEMMA NextCases == Next => Reconcile \/ Outside \/ Restart
BY DEF Next, Others, Outside, Elsewhere

LEMMA ActiveKept == Next => UNCHANGED active
<1>1. CASE FetchInstance \/ UpdateDeploymentScope \/ UpdateStatusForFactoryInstall
           \/ SetFactoryReconciledUpdated \/ AddFinalizer \/ UpdateAnnotation
           \/ UpdateConfigStatus \/ GetHost \/ RemoveHostFinalizer \/ PopulateHostInfo
           \/ FinalizeFactory \/ BuildHostDefaults \/ SetFactoryDefaultUpdated
           \/ SetInstanceDelta \/ Decide \/ RequireLock \/ RequireUnlock \/ StatusUpdate
  BY <1>1 DEF FetchInstance, UpdateDeploymentScope, UpdateStatusForFactoryInstall,
              SetFactoryReconciledUpdated, AddFinalizer, UpdateAnnotation, UpdateConfigStatus,
              GetHost, RemoveHostFinalizer, PopulateHostInfo, FinalizeFactory,
              BuildHostDefaults, SetFactoryDefaultUpdated, SetInstanceDelta, Decide,
              RequireLock, RequireUnlock, StatusUpdate, sysVars
<1>2. CASE ReconcileNewHost \/ ReconcileDeletedHost \/ ReconcileEnabledHost
           \/ AssignAdminNetwork \/ ReconcileDisabledHost \/ ReconcileFinalState
  BY <1>2 DEF ReconcileNewHost, ReconcileDeletedHost, ReconcileEnabledHost,
              AssignAdminNetwork, ReconcileDisabledHost, ReconcileFinalState
<1>3. CASE ~Reconcile
  BY <1>3 DEF Next, UpdateHosts, MonitorFires, StateChangePoll, System, HostProgress, HostAppears,
              ControllersEnabled, Vim, Others, OperatorActs, OperatorDeletesHost, UserChanges,
              UserAnnotates, UserDeletes, UserWrites, ProfileChanges, Restart, sysVars
<1> QED
  BY <1>1, <1>2, <1>3 DEF Reconcile

-----------------------------------------------------------------------------
(* Deletion.                                                               *)

\* What Reconcile saves, if it saves: the copy with some fields assigned.
Saves(new) == obj' \in {obj, new} /\ (obj' # obj => fresh)

LEMMA SavesLife ==
  ASSUME CopyInv, pc # "idle", NEW new, Saves(new), new.life = copy.life
  PROVE  obj'.life = obj.life
BY DEF CopyInv, SameBody, Saves

\* Only the user's request and the removal of the finalizer end an object's life.
LEMMA LifeKept ==
  ASSUME TypeInv, CopyInv, Next
  PROVE  \/ obj'.life = obj.life
         \/ UserDeletes /\ obj.life = "live"
         \/ RemoveHostFinalizer /\ obj'.life = "gone"
<1>0. obj \in Objects /\ copy \in Objects
  BY DEF TypeInv, PassTyped
<1>1. CASE Quiet
  BY <1>1, QuietShape
<1>2. CASE FetchInstance
  BY <1>2 DEF FetchInstance
<1>3. CASE UpdateDeploymentScope
  <2> DEFINE new == [copy EXCEPT !.scope = copy.asked]
  <2>1. new.life = copy.life
    BY <1>0 DEF Objects
  <2> HIDE DEF new
  <2>2. Saves(new)
    BY <1>3 DEF UpdateDeploymentScope, Write, WriteFails, kubeVars, Saves, new
  <2> QED
    BY <1>3, <2>1, <2>2, Flow, SavesLife
<1>4. CASE UpdateStatusForFactoryInstall
  <2> DEFINE new == [copy EXCEPT !.reconciled = FALSE]
  <2>1. new.life = copy.life
    BY <1>0 DEF Objects
  <2> HIDE DEF new
  <2>2. Saves(new)
    BY <1>4 DEF UpdateStatusForFactoryInstall, Write, WriteFails, kubeVars, Saves, new
  <2> QED
    BY <1>4, <2>1, <2>2, Flow, SavesLife
<1>5. CASE AddFinalizer
  <2> DEFINE new == [copy EXCEPT !.finalizer = TRUE]
  <2>1. new.life = copy.life
    BY <1>0 DEF Objects
  <2> HIDE DEF new
  <2>2. Saves(new)
    BY <1>5 DEF AddFinalizer, WriteFails, kubeVars, Saves, new
  <2> QED
    BY <1>5, <2>1, <2>2, Flow, SavesLife
<1>6. CASE UpdateAnnotation
  <2>1. [obj EXCEPT !.annot = AfterInSync(obj)].life = obj.life
    BY <1>0 DEF Objects
  <2> QED
    BY <1>6, <2>1 DEF UpdateAnnotation, ReadAndWrite
<1>7. CASE UpdateConfigStatus
  BY <1>0, <1>7, ObservedFields DEF UpdateConfigStatus, ReadAndWrite
<1>8. CASE RemoveHostFinalizer
  <2>1. [copy EXCEPT !.finalizer = FALSE, !.life = "gone"].life = "gone"
    BY <1>0 DEF Objects
  <2> QED
    BY <1>8, <2>1 DEF RemoveHostFinalizer
<1>9. CASE BuildHostDefaults
  <2> DEFINE new == [copy EXCEPT !.defaults = snap.oos]
  <2>1. new.life = copy.life
    BY <1>0 DEF Objects
  <2> HIDE DEF new
  <2>2. Saves(new)
    BY <1>9 DEF BuildHostDefaults, Write, WriteFails, kubeVars, Saves, new
  <2> QED
    BY <1>9, <2>1, <2>2, Flow, SavesLife
<1>10. CASE SetInstanceDelta
  <2> DEFINE new == [copy EXCEPT !.inSync = CompareAttributes(copy, snap),
                                 !.delta = IF CompareAttributes(copy, snap) THEN {}
                                           ELSE Delta(copy, snap)]
  <2>1. new.life = copy.life
    BY <1>0 DEF Objects
  <2> HIDE DEF new
  <2>2. Saves(new)
    BY <1>10 DEF SetInstanceDelta, Write, WriteFails, kubeVars, Saves, new
  <2> QED
    BY <1>10, <2>1, <2>2, Flow, SavesLife
<1>11. CASE RequireLock \/ RequireUnlock
  <2>1. ASSUME NEW value PROVE [copy EXCEPT !.strategy = value].life = copy.life
    BY <1>0 DEF Objects
  <2>2. \E value : Saves([copy EXCEPT !.strategy = value])
    BY <1>11 DEF RequireLock, RequireUnlock, SetStrategy, Write, WriteFails, kubeVars, Saves
  <2> QED
    BY <1>11, <2>1, <2>2, Flow, SavesLife
<1>12. CASE StatusUpdate
  <2> DEFINE new == Settled(copy, err = "none")
  <2>1. new.life = copy.life
    BY <1>0 DEF Settled, Recorded, Objects
  <2> HIDE DEF new
  <2>2. Saves(new)
    BY <1>12 DEF StatusUpdate, WriteFails, Saves, new
  <2> QED
    BY <1>12, <2>1, <2>2, Flow, SavesLife
<1>13. CASE Elsewhere
  BY <1>13, ElsewhereShape DEF kubeVars
<1>14. CASE UpdateHosts \/ MonitorFires \/ Restart
  BY <1>14 DEF UpdateHosts, MonitorFires, Restart
<1>15. CASE UserChanges
  <2>1. ASSUME NEW asked PROVE [obj EXCEPT !.gen = @ + 1, !.asked = asked].life = obj.life
    BY <1>0 DEF Objects
  <2> QED
    BY <1>15, <2>1 DEF UserChanges, UserWrites
<1>16. CASE UserDeletes
  BY <1>16 DEF UserDeletes, UserWrites
<1>17. CASE UserAnnotates
  <2>1. ASSUME NEW annot PROVE [obj EXCEPT !.annot = annot].life = obj.life
    BY <1>0 DEF Objects
  <2> QED
    BY <1>17, <2>1 DEF UserAnnotates, UserWrites
<1> QED
  BY <1>1, <1>2, <1>3, <1>4, <1>5, <1>6, <1>7, <1>8, <1>9, <1>10, <1>11, <1>12, <1>13,
     <1>14, <1>15, <1>16, <1>17, ReconcileCases DEF Next, Others, Elsewhere

LEMMA StepDelete == PassInv /\ DeleteInv /\ [Next]_vars => DeleteInv'
<1> SUFFICES ASSUME PassInv, DeleteInv, [Next]_vars PROVE DeleteInv'
  OBVIOUS
<1>0. TypeInv /\ CopyInv /\ DecisionInv /\ IdsInv
  BY DEF PassInv
<1>1. CASE Outside
  <2>1. UNCHANGED <<pc, copy, profile, scoped, seen, snap, err>>
    BY <1>1, OutsideShape
  <2>2. Next
    BY <1>1 DEF Outside, Elsewhere, Next, Others
  <2>3. UNCHANGED active
    BY <2>2, ActiveKept
  <2>4. copy.id # 0 /\ host.id # copy.id => host'.id # copy.id
    <3>1. copy.id < nextId /\ copy.id \in Nat /\ nextId \in Nat
      BY <1>0 DEF IdsInv, TypeInv, EnvTyped, PassTyped, Objects
    <3> QED
      BY <1>0, <2>2, <3>1, HostSteps, NoHostTyped DEF Same, Gone, Appears, Changes
  <2> QED
    BY <2>1, <2>3, <2>4 DEF DeleteInv
<1>2. CASE GetHost
  <2>1. pc' = "delete" => copy.life = "deleting" /\ copy.id # 0 /\ host.id = copy.id
                          /\ seen' = host /\ UNCHANGED copy
    BY <1>2 DEF GetHost, Goto, Return
  <2>2. pc' = "unfinalize" => copy.life = "deleting" /\ err' = "retry" /\ UNCHANGED copy
    BY <1>2 DEF GetHost, Goto, Return
  <2> QED
    BY <2>1, <2>2 DEF DeleteInv
<1>3. CASE ReconcileDeletedHost
  <2>1. \/ pc' = "idle"
        \/ pc' = "unfinalize" /\ active /\ UNCHANGED <<active, copy>>
        \/ pc' = "unfinalize" /\ host' = NoHost /\ UNCHANGED copy
    BY <1>3 DEF ReconcileDeletedHost, ReturnWaiting, Return, Goto, localVars
  <2>2. copy.life = "deleting" /\ copy.id # 0
    BY <1>3, Flow DEF DeleteInv
  <2> QED
    BY <2>1, <2>2, NoHostTyped DEF DeleteInv
<1>4. CASE Restart
  BY <1>4 DEF Restart, Return, DeleteInv
<1>5. CASE UNCHANGED vars
  BY <1>5 DEF vars, localVars, sysVars, DeleteInv
<1>6. CASE Reconcile /\ ~GetHost /\ ~ReconcileDeletedHost
  <2>1. pc' \notin {"delete", "unfinalize"}
    BY <1>6, Flow DEF Reconcile
  <2> QED
    BY <2>1 DEF DeleteInv
<1> QED
  BY <1>1, <1>2, <1>3, <1>4, <1>5, <1>6, NextCases

\* An object that is to be deleted goes only after the host that it has recorded has
\* gone, unless that is the active controller or hosts.Get has failed; and not even a
\* host that appears meanwhile has the identifier of the one that was deleted.
THEOREM FinalizerKept == Spec => FinalizerHolds
<1> DEFINE Inv == PassInv /\ DeleteInv
           Step == obj.life = "deleting" /\ obj'.life = "gone"
                   => active \/ host.id # obj.id \/ err = "retry"
<1>1. Init => Inv
  <2>1. Init => pc = "idle"
    BY DEF Init
  <2> QED
    BY <2>1, InitPass DEF DeleteInv
<1>2. Inv /\ [Next]_vars => Inv'
  BY StepPass, StepDelete
<1>3. Inv /\ [Next]_vars => [Step]_vars
  <2> SUFFICES ASSUME Inv, Next, obj.life = "deleting", obj'.life = "gone"
               PROVE  active \/ host.id # obj.id \/ err = "retry"
    OBVIOUS
  <2>1. TypeInv /\ CopyInv
    BY DEF PassInv
  <2>2. RemoveHostFinalizer
    BY <2>1, LifeKept
  <2>3. pc = "unfinalize"
    BY <2>2, Flow
  <2> QED
    BY <2>1, <2>3 DEF DeleteInv, CopyInv, SameStatus
<1> QED
  BY <1>1, <1>2, <1>3, PTL DEF Spec, FinalizerHolds

-----------------------------------------------------------------------------
(* Who wakes the object.                                                   *)

\* A change of the object queues it, and it stays queued until it is fetched.
LEMMA QueueKept ==
  ASSUME TypeInv, Next, ~FetchInstance
  PROVE  /\ queued => queued' \/ obj'.life = "gone"
         /\ obj' # obj => queued'
<1>0. queued \in BOOLEAN
  BY DEF TypeInv, PassTyped
<1>r. ASSUME NEW again, Return(again)
      PROVE  (queued => queued') /\ (obj' # obj => queued')
  BY <1>r DEF Return
<1>w. ASSUME NEW new, Write(new) \/ WriteFails(new)
      PROVE  (queued => queued') /\ (obj' # obj => queued')
  <2>1. CASE Write(new)
    BY <2>1 DEF Write
  <2>2. CASE WriteFails(new)
    BY <2>2 DEF WriteFails
  <2> QED
    BY <1>w, <2>1, <2>2
<1>k. ASSUME UNCHANGED kubeVars
      PROVE  (queued => queued') /\ (obj' # obj => queued')
  BY <1>k DEF kubeVars
<1>1. CASE Quiet
  <2>1. UNCHANGED obj /\ (pc' = "idle" \/ UNCHANGED <<copy, fresh, queued>>)
    BY <1>1, QuietShape
  <2>2. UNCHANGED queued \/ \E again : Return(again)
    <3>1. CASE GetHost \/ ReconcileNewHost
      BY <3>1 DEF GetHost, ReconcileNewHost, ProvisionHost, ReturnWaiting, kubeVars
    <3>2. CASE ReconcileDeletedHost \/ SetFactoryReconciledUpdated
      BY <3>2 DEF ReconcileDeletedHost, SetFactoryReconciledUpdated, ReturnWaiting, kubeVars
    <3>3. CASE ~(GetHost \/ ReconcileNewHost \/ ReconcileDeletedHost
                 \/ SetFactoryReconciledUpdated)
      BY <1>1, <2>1, <3>3, Flow DEF Quiet
    <3> QED
      BY <3>1, <3>2, <3>3
  <2> QED
    BY <1>r, <2>1, <2>2
<1>2. CASE UpdateDeploymentScope \/ UpdateStatusForFactoryInstall
  BY <1>k, <1>r, <1>w, <1>2 DEF UpdateDeploymentScope, UpdateStatusForFactoryInstall
<1>3. CASE AddFinalizer
  BY <1>k, <1>r, <1>3 DEF AddFinalizer
<1>4. CASE UpdateAnnotation
  BY <1>r, <1>4 DEF UpdateAnnotation, ReadAndWrite
<1>5. CASE UpdateConfigStatus
  <2>1. PICK new : ReadAndWrite(new, "get")
    BY <1>5 DEF UpdateConfigStatus
  <2> QED
    BY <1>r, <2>1 DEF ReadAndWrite
<1>6. CASE RemoveHostFinalizer \/ StatusUpdate
  BY <1>r, <1>6 DEF RemoveHostFinalizer, StatusUpdate
<1>7. CASE BuildHostDefaults
  BY <1>k, <1>w, <1>7 DEF BuildHostDefaults
<1>8. CASE SetInstanceDelta
  <2>1. UNCHANGED kubeVars \/ \E new : Write(new) \/ WriteFails(new)
    BY <1>8 DEF SetInstanceDelta
  <2> QED
    BY <1>k, <1>w, <2>1
<1>9. CASE RequireLock \/ RequireUnlock
  <2>1. UNCHANGED kubeVars \/ \E new : Write(new) \/ WriteFails(new)
    BY <1>9 DEF RequireLock, RequireUnlock, SetStrategy
  <2> QED
    BY <1>k, <1>w, <2>1
<1>10. CASE Elsewhere
  BY <1>10, ElsewhereShape DEF kubeVars
<1>11. CASE UpdateHosts \/ MonitorFires \/ UserChanges \/ UserAnnotates \/ UserDeletes
  BY <1>11 DEF UpdateHosts, MonitorFires, UserChanges, UserAnnotates, UserDeletes, UserWrites
<1>12. CASE Restart
  BY <1>12, <1>r DEF Restart
<1> QED
  BY <1>1, <1>2, <1>3, <1>4, <1>5, <1>6, <1>7, <1>8, <1>9, <1>10, <1>11, <1>12,
     ReconcileCases DEF Next, Others, Elsewhere

LEMMA WokenKept ==
  ASSUME TypeInv, CopyInv, Next, ~FetchInstance, Woken
  PROVE  Woken'
BY LifeKept, QueueKept DEF Woken

\* A copy goes stale only with a change of the object that queues it.
LEMMA FreshKept ==
  ASSUME Reconcile, pc' # "idle"
  PROVE  fresh => fresh' \/ obj' # obj
<1>1. CASE Quiet
  BY <1>1, QuietShape
<1>2. CASE FetchInstance
  BY <1>2 DEF FetchInstance
<1>3. CASE UpdateDeploymentScope \/ UpdateStatusForFactoryInstall
  BY <1>3 DEF UpdateDeploymentScope, UpdateStatusForFactoryInstall, Write, Return, localVars
<1>4. CASE AddFinalizer
  BY <1>4 DEF AddFinalizer, Return, localVars
<1>5. CASE UpdateAnnotation \/ UpdateConfigStatus
  <2>1. \E new, next : ReadAndWrite(new, next)
    BY <1>5 DEF UpdateAnnotation, UpdateConfigStatus
  <2> QED
    BY <2>1 DEF ReadAndWrite, Return
<1>6. CASE RemoveHostFinalizer \/ StatusUpdate
  BY <1>6, Flow
<1>7. CASE BuildHostDefaults
  BY <1>7 DEF BuildHostDefaults, Write, KeepsValues
<1>8. CASE SetInstanceDelta
  <2>1. UNCHANGED fresh \/ \E new : Write(new) \/ KeepsValues(new)
    BY <1>8 DEF SetInstanceDelta
  <2> QED
    BY <2>1 DEF Write, KeepsValues
<1>9. CASE RequireLock \/ RequireUnlock
  <2>1. UNCHANGED fresh \/ \E new : Write(new) \/ KeepsValues(new)
    BY <1>9 DEF RequireLock, RequireUnlock, SetStrategy
  <2> QED
    BY <2>1 DEF Write, KeepsValues
<1> QED
  BY <1>1, <1>2, <1>3, <1>4, <1>5, <1>6, <1>7, <1>8, <1>9, ReconcileCases

\* What ReconcileExistingHost returns to ReconcileResource.
LEMMA Returned ==
  ASSUME Reconcile, pc' = "status"
  PROVE  /\ err' = "wait" => mon'.kind # "none"
         /\ err' = "ignored" => copy'.reconciled /\ copy'.annot = "none"
<1>w. ASSUME NEW kind, Wait(kind), kind # "none"
      PROVE  mon'.kind # "none" /\ err' = "wait"
  BY <1>w DEF Wait, StartMonitor, Leave
<1>1. CASE PopulateHostInfo
  BY <1>w, <1>1 DEF PopulateHostInfo, Goto, Leave
<1>2. CASE FinalizeFactory \/ SetFactoryDefaultUpdated
  BY <1>2 DEF FinalizeFactory, SetFactoryDefaultUpdated, Goto, Leave
<1>3. CASE BuildHostDefaults
  BY <1>w, <1>3 DEF BuildHostDefaults, Goto, Leave
<1>4. CASE Decide
  <2>1. \/ Leave("none")
        \/ \E kind \in {"unlockedAvailable", "stable"} : Wait(kind)
        \/ Blocked /\ Leave("ignored") /\ UNCHANGED copy
    BY <1>4 DEF Decide, Goto, StopsHere
  <2> QED
    BY <1>w, <2>1 DEF Leave, Blocked
<1>5. CASE ReconcileEnabledHost \/ AssignAdminNetwork \/ ReconcileDisabledHost
  BY <1>5 DEF ReconcileEnabledHost, AssignAdminNetwork, ReconcileDisabledHost, Request, Goto,
              Leave
<1>6. CASE ReconcileFinalState
  BY <1>w, <1>6 DEF ReconcileFinalState, Request, Goto, Leave
<1>7. CASE RequireLock \/ RequireUnlock
  <2>1. \/ Leave("none") \/ Leave("retry")
        \/ \E kind \in {"lockedDisabled", "unlockedEnabled"} : Wait(kind)
    BY <1>7 DEF RequireLock, RequireUnlock, SetStrategy
  <2> QED
    BY <1>w, <2>1 DEF Leave
<1> QED
  BY <1>1, <1>2, <1>3, <1>4, <1>5, <1>6, <1>7, Flow DEF Reconcile

\* What the others do to the object, the copy and the monitor queues the object.
LEMMA OutsideWakes ==
  ASSUME TypeInv, Outside
  PROVE  /\ fresh' => fresh /\ UNCHANGED obj
         /\ fresh => fresh' \/ queued' \/ obj'.life = "gone"
         /\ UNCHANGED mon.kind \/ queued' \/ obj'.life = "gone"
         /\ notify => notify' \/ queued' \/ obj'.life = "gone"
<1>1. CASE StateChangePoll
  <2>1. UNCHANGED mon.kind
    BY <1>1 DEF StateChangePoll, TypeInv, EnvTyped
  <2> QED
    BY <1>1, <2>1 DEF StateChangePoll, profileVars, kubeVars, localVars
<1>2. CASE System \/ Vim \/ OperatorActs \/ OperatorDeletesHost
  BY <1>2 DEF System, HostProgress, HostAppears, ControllersEnabled, Vim, OperatorActs,
              OperatorDeletesHost, profileVars, kubeVars, localVars
<1>3. CASE ProfileChanges
  BY <1>3 DEF ProfileChanges, kubeVars, localVars
<1>4. CASE UpdateHosts
  BY <1>4 DEF UpdateHosts
<1>5. CASE MonitorFires
  BY <1>5 DEF MonitorFires
<1>6. CASE UserChanges \/ UserAnnotates \/ UserDeletes
  BY <1>6 DEF UserChanges, UserAnnotates, UserDeletes, UserWrites
<1> QED
  BY <1>1, <1>2, <1>3, <1>4, <1>5, <1>6 DEF Outside, Elsewhere

WakesInv == PassInv /\ DeleteInv /\ WakeInv /\ NeverStranded

LEMMA OutsideWake ==
  ASSUME WakesInv, Outside
  PROVE  WakeInv' /\ NeverStranded'
<1>0. TypeInv /\ CopyInv /\ WakeInv /\ NeverStranded
  BY DEF WakesInv, PassInv
<1>1. UNCHANGED <<pc, copy, err>>
  BY OutsideShape
<1>2. /\ fresh' => fresh /\ UNCHANGED obj
      /\ fresh => fresh' \/ queued' \/ obj'.life = "gone"
      /\ UNCHANGED mon.kind \/ queued' \/ obj'.life = "gone"
      /\ notify => notify' \/ queued' \/ obj'.life = "gone"
  BY <1>0, OutsideWakes
<1>3. Next
  BY DEF Outside, Elsewhere, Next, Others
<1>4. CASE pc # "idle"
  <2>1. ~FetchInstance
    BY <1>4, Flow
  <2>2. Woken => Woken'
    BY <1>0, <1>3, <2>1, WokenKept
  <2>3. NeverStranded'
    BY <1>1, <1>4 DEF NeverStranded, AtRest
  <2>4. pc' \in {"scope", "factory", "factoryFlag", "gate"} /\ fresh' => copy' = obj'
    BY <1>0, <1>1, <1>2 DEF WakeInv
  <2>5. fresh' \/ Woken'
    BY <1>0, <1>2, <1>4, <2>2 DEF WakeInv, Woken
  <2>6. pc' = "status" /\ err' = "wait" => mon'.kind # "none" \/ Woken'
    BY <1>0, <1>1, <1>2, <2>2 DEF WakeInv, Woken
  <2>7. pc' = "status" /\ err' = "ignored" => copy'.reconciled /\ copy'.annot = "none"
    BY <1>0, <1>1 DEF WakeInv
  <2> QED
    BY <2>3, <2>4, <2>5, <2>6, <2>7 DEF WakeInv
<1>5. CASE pc = "idle"
  <2>1. WakeInv'
    BY <1>1, <1>5 DEF WakeInv
  <2>2. ASSUME AtRest'
        PROVE  mon'.kind # "none" \/ Finished(obj') \/ (obj'.reconciled /\ obj'.annot = "none")
    <3>1. ~queued' /\ ~notify' /\ obj'.life = "live" /\ pc' = "idle"
      BY <2>2 DEF AtRest
    <3>2. ~FetchInstance
      <4>1. FetchInstance => obj.life = "gone" /\ UNCHANGED obj
        BY <3>1 DEF FetchInstance, Goto
      <4> QED
        BY <3>1, <4>1
    <3>3. ~queued /\ obj' = obj
      BY <1>0, <1>3, <3>1, <3>2, QueueKept
    <3>4. AtRest /\ mon'.kind = mon.kind
      BY <1>2, <1>5, <3>1, <3>3 DEF AtRest
    <3> QED
      BY <1>0, <3>3, <3>4 DEF NeverStranded
  <2> QED
    BY <2>1, <2>2 DEF NeverStranded
<1> QED
  BY <1>4, <1>5

\* Reconcile goes on.
LEMMA GoesOnWake ==
  ASSUME WakesInv, Reconcile, ~FetchInstance, pc' # "idle"
  PROVE  WakeInv'
<1>0. TypeInv /\ CopyInv /\ WakeInv /\ Next
  BY DEF WakesInv, PassInv, Next
<1>1. pc # "idle"
  BY Flow DEF Reconcile
<1>2. fresh' \/ Woken'
  <2>1. CASE Woken
    BY <1>0, <2>1, WokenKept
  <2>2. CASE fresh
    BY <1>0, <2>2, FreshKept, QueueKept DEF Woken
  <2> QED
    BY <1>0, <1>1, <2>1, <2>2 DEF WakeInv
<1>3. ASSUME pc' \in {"scope", "factory", "factoryFlag", "gate"}, fresh'
      PROVE  copy' = obj'
  <2>1. UpdateDeploymentScope \/ UpdateStatusForFactoryInstall \/ SetFactoryReconciledUpdated
    BY <1>3, Flow DEF Reconcile
  <2>2. \/ UNCHANGED <<kubeVars, localVars>>
        \/ \E new : Write(new)
    BY <1>3, <2>1 DEF UpdateDeploymentScope, UpdateStatusForFactoryInstall,
                      SetFactoryReconciledUpdated, Return
  <2>3. pc \in {"scope", "factory", "factoryFlag", "gate"}
    BY <2>1, Flow
  <2>4. CASE UNCHANGED <<kubeVars, localVars>>
    <3>1. UNCHANGED <<obj, copy, fresh>>
      BY <2>4 DEF kubeVars, localVars
    <3>2. fresh
      BY <1>3, <3>1
    <3> QED
      BY <1>0, <2>3, <3>1, <3>2 DEF WakeInv
  <2>5. CASE \E new : Write(new)
    BY <2>5 DEF Write
  <2> QED
    BY <2>2, <2>4, <2>5
<1> QED
  BY <1>2, <1>3, Returned DEF WakeInv

\* Reconcile returns.
LEMMA ReturnWake ==
  ASSUME WakesInv, Reconcile, ~FetchInstance, pc' = "idle"
  PROVE  NeverStranded'
<1> SUFFICES ASSUME ~queued', obj'.life = "live"
             PROVE  mon'.kind # "none" \/ Finished(obj') \/ (obj'.reconciled /\ obj'.annot = "none")
  BY DEF NeverStranded, AtRest
<1>0. /\ TypeInv /\ CopyInv /\ WakeInv /\ DeleteInv /\ Next
      /\ obj \in Objects /\ copy \in Objects
  BY DEF WakesInv, PassInv, Next, TypeInv, PassTyped
<1>1. obj' = obj /\ ~queued
  BY <1>0, QueueKept
<1>2. pc # "idle"
  BY Flow DEF Reconcile
<1>3. SameStatus(copy, obj) /\ fresh /\ SameBody(copy, obj) /\ copy.life = "live" /\ ~Woken
  <2>1. fresh /\ ~Woken
    BY <1>0, <1>1, <1>2 DEF WakeInv, Woken
  <2> QED
    BY <1>0, <1>1, <1>2, <2>1 DEF CopyInv, SameBody
<1>4. ~Return(TRUE)
  BY DEF Return
<1>5. ASSUME NEW kind, ReturnWaiting(kind), kind # "none"
      PROVE  mon'.kind # "none"
  BY <1>5 DEF ReturnWaiting, StartMonitor
<1>6. CASE UpdateDeploymentScope \/ UpdateStatusForFactoryInstall \/ SetFactoryReconciledUpdated
  BY <1>4, <1>6 DEF UpdateDeploymentScope, UpdateStatusForFactoryInstall,
                    SetFactoryReconciledUpdated, Goto
<1>7. CASE AddFinalizer
  <2> DEFINE new == [copy EXCEPT !.finalizer = TRUE]
  <2>1. new.finalizer
    BY <1>0 DEF Objects
  <2> HIDE DEF new
  <2>2. Finished(copy) \/ (obj' = new /\ ~copy.finalizer)
    BY <1>4, <1>7 DEF AddFinalizer, Goto, new
  <2>3. copy = obj
    BY <1>0, <1>3, <1>7, Flow DEF WakeInv
  <2> QED
    BY <1>1, <2>1, <2>2, <2>3
<1>8. CASE UpdateAnnotation \/ UpdateConfigStatus
  BY <1>4, <1>8 DEF UpdateAnnotation, UpdateConfigStatus, ReadAndWrite, Goto
<1>9. CASE GetHost
  BY <1>3, <1>4, <1>9 DEF GetHost, Goto
<1>10. CASE ReconcileNewHost
  <2>1. ReturnWaiting("dynamic") \/ ReturnWaiting("provisioning") \/ Blocked
    BY <1>4, <1>10 DEF ReconcileNewHost, ProvisionHost, Goto
  <2> QED
    BY <1>1, <1>3, <1>5, <2>1 DEF Blocked, SameStatus, SameBody
<1>11. CASE ReconcileDeletedHost \/ RemoveHostFinalizer
  BY <1>0, <1>3, <1>11, Flow DEF DeleteInv
<1>12. CASE StatusUpdate
  <2> DEFINE new == Settled(copy, err = "none")
  <2>1. ~Return(TRUE) => Return(err = "retry") /\ (IF err = "none" THEN StartMonitor("stateChange") ELSE UNCHANGED mon)
    BY <1>12 DEF StatusUpdate
  <2>2. err # "retry"
    BY <1>4, <2>1
  <2>3. CASE err = "none"
    BY <1>4, <2>1, <2>3 DEF StartMonitor
  <2>4. CASE err = "wait"
    BY <1>0, <1>3, <1>4, <1>12, <2>1, <2>4, Flow DEF WakeInv
  <2>5. CASE err = "ignored"
    BY <1>0, <1>1, <1>3, <1>12, <2>5, Flow DEF WakeInv, SameStatus, SameBody
  <2> QED
    BY <1>0, <2>2, <2>3, <2>4, <2>5 DEF TypeInv, PassTyped
<1> QED
  BY <1>6, <1>7, <1>8, <1>9, <1>10, <1>11, <1>12, Flow DEF Reconcile

LEMMA StepWake == WakesInv /\ [Next]_vars => WakeInv' /\ NeverStranded'
<1> SUFFICES ASSUME WakesInv, [Next]_vars PROVE WakeInv' /\ NeverStranded'
  OBVIOUS
<1>1. CASE Outside
  BY <1>1, OutsideWake
<1>2. CASE FetchInstance
  <2>1. CASE obj.life = "gone"
    BY <1>2, <2>1 DEF FetchInstance, WakeInv, NeverStranded, AtRest
  <2>2. CASE obj.life # "gone"
    BY <1>2, <2>2 DEF FetchInstance, Goto, WakeInv, NeverStranded, AtRest
  <2> QED
    BY <2>1, <2>2
<1>3. CASE Reconcile /\ ~FetchInstance /\ pc' # "idle"
  BY <1>3, GoesOnWake DEF NeverStranded, AtRest
<1>4. CASE Reconcile /\ ~FetchInstance /\ pc' = "idle"
  BY <1>4, ReturnWake DEF WakeInv
<1>5. CASE Restart
  BY <1>5 DEF Restart, Return, WakeInv, NeverStranded, AtRest
<1>6. CASE UNCHANGED vars
  BY <1>6 DEF WakesInv, WakeInv, NeverStranded, AtRest, Woken, Finished, vars, kubeVars,
              profileVars, localVars
<1> QED
  BY <1>1, <1>2, <1>3, <1>4, <1>5, <1>6, NextCases

\* No interleaving leaves a live object that is not done at rest with nobody to wake
\* it: a Reconcile that returns without an error has started a monitor, or has written
\* the object and so queued it, or found it finished or its changes refused; and a
\* write of another that makes the copy stale, or a monitor that ends, queues it.
THEOREM Awake == Spec => []NeverStranded
<1>1. Init => WakesInv
  <2>1. Init => pc = "idle" /\ queued = TRUE
    BY DEF Init
  <2> QED
    BY <2>1, InitPass DEF WakesInv, DeleteInv, WakeInv, NeverStranded, AtRest
<1>2. WakesInv /\ [Next]_vars => WakesInv'
  BY StepPass, StepDelete, StepWake DEF WakesInv
<1>3. WakesInv => NeverStranded
  BY DEF WakesInv
<1> QED
  BY <1>1, <1>2, <1>3, PTL DEF Spec

-----------------------------------------------------------------------------
(* What a step does to the object.                                         *)

SameAge(o, p) ==
  /\ o.gen = p.gen /\ o.asked = p.asked
  /\ o.observed = p.observed /\ o.observedProfile = p.observedProfile

SameConfig(o, p) == o.strategy = p.strategy /\ o.defaults = p.defaults

UserSteps ==
  /\ UserChanges \/ UserDeletes
  /\ SameStatus(obj', obj) /\ SameConfig(obj', obj)
  /\ obj'.gen = obj.gen + 1 /\ ~fresh' /\ queued'

Annotated ==
  /\ UserAnnotates
  /\ SameStatus(obj', obj) /\ SameConfig(obj', obj) /\ SameAge(obj', obj)
  /\ ~fresh' /\ queued'

ScopeStep ==
  /\ UpdateDeploymentScope /\ obj'.scope = obj.asked /\ SameAge(obj', obj)
  /\ obj'.reconciled = obj.reconciled /\ SameConfig(obj', obj)

Saved ==
  /\ Reconcile /\ pc # "idle" /\ SameAge(obj', obj) /\ obj'.scope = obj.scope
  /\ StatusUpdate \/ (obj'.reconciled => obj.reconciled)
  /\ \/ SameConfig(obj', obj)
     \/ BuildHostDefaults /\ obj'.strategy = obj.strategy /\ obj'.defaults = snap.oos
     \/ /\ RequireLock /\ obj'.strategy \in {"lock_required", "not_required"}
        /\ obj'.strategy # "not_required" => Principal \/ StrategyRequired
        /\ obj'.defaults = obj.defaults
     \/ /\ RequireUnlock /\ obj'.strategy = "unlock_required" /\ StrategyRequired
        /\ obj'.defaults = obj.defaults
     \/ StatusUpdate /\ fresh /\ obj' = Settled(copy, err = "none")

LEMMA UserStep ==
  ASSUME TypeInv, UserChanges \/ UserDeletes
  PROVE  UserSteps
<1>0. obj \in Objects
  BY DEF TypeInv, PassTyped
<1>1. PICK new : /\ UserWrites(new)
                 /\ SameStatus(new, obj) /\ SameConfig(new, obj) /\ new.gen = obj.gen + 1
  <2>1. ASSUME NEW asked \in Scopes
        PROVE  LET new == [obj EXCEPT !.gen = @ + 1, !.asked = asked] IN
               SameStatus(new, obj) /\ SameConfig(new, obj) /\ new.gen = obj.gen + 1
    BY <1>0 DEF Objects, SameStatus, SameConfig
  <2>2. LET new == [obj EXCEPT !.gen = @ + 1,
                               !.life = IF obj.finalizer THEN "deleting" ELSE "gone"] IN
        SameStatus(new, obj) /\ SameConfig(new, obj) /\ new.gen = obj.gen + 1
    BY <1>0 DEF Objects, SameStatus, SameConfig
  <2> QED
    BY <2>1, <2>2 DEF UserChanges, UserDeletes
<1> QED
  BY <1>1 DEF UserWrites, UserSteps

LEMMA AnnotatedStep ==
  ASSUME TypeInv, UserAnnotates
  PROVE  Annotated
<1>0. obj \in Objects
  BY DEF TypeInv, PassTyped
<1>1. ASSUME NEW annot
      PROVE  LET new == [obj EXCEPT !.annot = annot] IN
             SameStatus(new, obj) /\ SameConfig(new, obj) /\ SameAge(new, obj)
  BY <1>0 DEF Objects, SameStatus, SameConfig, SameAge
<1> QED
  BY <1>1 DEF UserAnnotates, UserWrites, Annotated

LEMMA SavedFields ==
  ASSUME TypeInv, CopyInv, pc # "idle", NEW new, Saves(new),
         SameAge(new, copy), new.scope = copy.scope, new.reconciled => copy.reconciled
  PROVE  /\ SameAge(obj', obj) /\ obj'.scope = obj.scope
         /\ obj'.reconciled => obj.reconciled
         /\ pc # "status" /\ new.strategy = copy.strategy => obj'.strategy = obj.strategy
         /\ pc # "status" /\ new.defaults = copy.defaults => obj'.defaults = obj.defaults
BY DEF CopyInv, SameStatus, SameBody, SameAge, Saves

LEMMA ObjectSteps ==
  ASSUME TypeInv, CopyInv, Next
  PROVE  \/ UNCHANGED obj
         \/ UserSteps \/ Annotated \/ ScopeStep \/ Saved
         \/ UpdateConfigStatus /\ obj' = Observe(obj)
<1>0. obj \in Objects /\ copy \in Objects
  BY DEF TypeInv, PassTyped
<1>1. CASE Quiet \/ FetchInstance \/ Elsewhere \/ UpdateHosts \/ MonitorFires \/ Restart
  BY <1>1, QuietShape, ElsewhereShape DEF FetchInstance, UpdateHosts, MonitorFires, Restart,
                                          kubeVars
<1>2. CASE UpdateDeploymentScope
  <2> DEFINE new == [copy EXCEPT !.scope = copy.asked]
  <2>1. /\ SameAge(new, copy) /\ new.scope = copy.asked /\ new.reconciled = copy.reconciled
        /\ SameConfig(new, copy)
    BY <1>0 DEF Objects, SameAge, SameConfig
  <2> HIDE DEF new
  <2>2. Saves(new) /\ pc = "scope"
    BY <1>2, Flow DEF UpdateDeploymentScope, Write, WriteFails, kubeVars, Saves, new
  <2> QED
    BY <1>2, <2>1, <2>2
       DEF Saves, CopyInv, SameStatus, SameBody, SameAge, SameConfig, ScopeStep
<1>3. CASE UpdateStatusForFactoryInstall
  <2> DEFINE new == [copy EXCEPT !.reconciled = FALSE]
  <2>1. /\ SameAge(new, copy) /\ new.scope = copy.scope /\ ~new.reconciled
        /\ SameConfig(new, copy)
    BY <1>0 DEF Objects, SameAge, SameConfig
  <2> HIDE DEF new
  <2>2. Saves(new) /\ pc = "factory"
    BY <1>3, Flow DEF UpdateStatusForFactoryInstall, Write, WriteFails, kubeVars, Saves, new
  <2> QED
    BY <1>3, <2>1, <2>2, SavedFields DEF SameConfig, Saved, Reconcile
<1>4. CASE AddFinalizer
  <2> DEFINE new == [copy EXCEPT !.finalizer = TRUE]
  <2>1. /\ SameAge(new, copy) /\ new.scope = copy.scope /\ new.reconciled = copy.reconciled
        /\ SameConfig(new, copy)
    BY <1>0 DEF Objects, SameAge, SameConfig
  <2> HIDE DEF new
  <2>2. Saves(new) /\ pc = "gate"
    BY <1>4, Flow DEF AddFinalizer, WriteFails, kubeVars, Saves, new
  <2> QED
    BY <1>4, <2>1, <2>2, SavedFields DEF SameConfig, Saved, Reconcile
<1>5. CASE UpdateAnnotation
  <2> DEFINE new == [obj EXCEPT !.annot = AfterInSync(obj)]
  <2>1. /\ SameAge(new, obj) /\ new.scope = obj.scope /\ new.reconciled = obj.reconciled
        /\ SameConfig(new, obj)
    BY <1>0 DEF Objects, SameAge, SameConfig
  <2> HIDE DEF new
  <2>2. obj' \in {obj, new} /\ pc = "annotate"
    BY <1>5, Flow DEF UpdateAnnotation, ReadAndWrite, new
  <2> QED
    BY <1>5, <2>1, <2>2 DEF SameAge, SameConfig, Saved, Reconcile
<1>6. CASE UpdateConfigStatus
  BY <1>6 DEF UpdateConfigStatus, ReadAndWrite
<1>7. CASE RemoveHostFinalizer
  <2> DEFINE new == [copy EXCEPT !.finalizer = FALSE, !.life = "gone"]
  <2>1. /\ SameAge(new, copy) /\ new.scope = copy.scope /\ new.reconciled = copy.reconciled
        /\ SameConfig(new, copy)
    BY <1>0 DEF Objects, SameAge, SameConfig
  <2> HIDE DEF new
  <2>2. Saves(new) /\ pc = "unfinalize"
    BY <1>7, Flow DEF RemoveHostFinalizer, Saves, new
  <2> QED
    BY <1>7, <2>1, <2>2, SavedFields DEF SameConfig, Saved, Reconcile
<1>8. CASE BuildHostDefaults
  <2> DEFINE new == [copy EXCEPT !.defaults = snap.oos]
  <2>1. /\ SameAge(new, copy) /\ new.scope = copy.scope /\ new.reconciled = copy.reconciled
        /\ new.strategy = copy.strategy /\ new.defaults = snap.oos
    BY <1>0 DEF Objects, SameAge
  <2> HIDE DEF new
  <2>2. Saves(new) /\ pc = "defaults"
    BY <1>8, Flow DEF BuildHostDefaults, Write, WriteFails, kubeVars, Saves, new
  <2>3. /\ SameAge(obj', obj) /\ obj'.scope = obj.scope /\ (obj'.reconciled => obj.reconciled)
        /\ obj'.strategy = obj.strategy
    BY <2>1, <2>2, SavedFields
  <2> QED
    BY <1>8, <2>1, <2>2, <2>3 DEF Saves, Saved, Reconcile
<1>9. CASE SetInstanceDelta
  <2> DEFINE new == [copy EXCEPT !.inSync = CompareAttributes(copy, snap),
                                 !.delta = IF CompareAttributes(copy, snap) THEN {}
                                           ELSE Delta(copy, snap)]
  <2>1. /\ SameAge(new, copy) /\ new.scope = copy.scope /\ new.reconciled = copy.reconciled
        /\ SameConfig(new, copy)
    BY <1>0 DEF Objects, SameAge, SameConfig
  <2> HIDE DEF new
  <2>2. Saves(new) /\ pc = "compare"
    BY <1>9, Flow DEF SetInstanceDelta, Write, WriteFails, kubeVars, Saves, new
  <2> QED
    BY <1>9, <2>1, <2>2, SavedFields DEF SameConfig, Saved, Reconcile
<1>10. ASSUME NEW value, NEW ACTION next, SetStrategy(value, next), pc \notin {"idle", "status"}
       PROVE  /\ SameAge(obj', obj) /\ obj'.scope = obj.scope
              /\ obj'.reconciled => obj.reconciled
              /\ obj'.defaults = obj.defaults /\ obj'.strategy \in {obj.strategy, value}
  <2> DEFINE new == [copy EXCEPT !.strategy = value]
  <2>1. /\ SameAge(new, copy) /\ new.scope = copy.scope /\ new.reconciled = copy.reconciled
        /\ new.strategy = value /\ new.defaults = copy.defaults
    BY <1>0 DEF Objects, SameAge
  <2> HIDE DEF new
  <2>2. Saves(new)
    BY <1>10 DEF SetStrategy, Write, WriteFails, Saves, new
  <2>3. /\ SameAge(obj', obj) /\ obj'.scope = obj.scope /\ (obj'.reconciled => obj.reconciled)
        /\ obj'.defaults = obj.defaults
    BY <1>10, <2>1, <2>2, SavedFields
  <2> QED
    BY <2>1, <2>2, <2>3 DEF Saves
<1>11. CASE RequireLock
  <2>1. pc = "strategy"
    BY <1>11, Flow
  <2>2. CASE SetStrategy("lock_required", Wait("lockedDisabled")) /\ (Principal \/ StrategyRequired)
    BY <1>10, <1>11, <2>1, <2>2 DEF SameConfig, Saved, Reconcile
  <2>3. CASE SetStrategy("not_required", Leave("none") /\ UNCHANGED mon)
    BY <1>10, <1>11, <2>1, <2>3 DEF SameConfig, Saved, Reconcile
  <2>4. CASE UNCHANGED kubeVars
    BY <2>4 DEF kubeVars
  <2> QED
    BY <1>11, <2>2, <2>3, <2>4 DEF RequireLock
<1>12. CASE RequireUnlock
  <2>1. pc = "unlockRequired"
    BY <1>12, Flow
  <2>2. CASE SetStrategy("unlock_required", Wait("unlockedEnabled")) /\ StrategyRequired
    BY <1>10, <1>12, <2>1, <2>2 DEF SameConfig, Saved, Reconcile
  <2>3. CASE UNCHANGED kubeVars
    BY <2>3 DEF kubeVars
  <2> QED
    BY <1>12, <2>2, <2>3 DEF RequireUnlock
<1>13. CASE StatusUpdate
  <2> DEFINE new == Settled(copy, err = "none")
  <2>1. SameAge(new, copy) /\ new.scope = copy.scope
    BY <1>0 DEF Settled, Recorded, Objects, SameAge
  <2> HIDE DEF new
  <2>2. Saves(new) /\ pc = "status"
    BY <1>13, Flow DEF StatusUpdate, WriteFails, Saves, new
  <2>3. CASE obj' # obj
    <3>1. fresh /\ obj' = new
      BY <2>2, <2>3 DEF Saves
    <3>2. SameAge(obj', obj) /\ obj'.scope = obj.scope
      BY <2>1, <2>2, <3>1 DEF CopyInv, SameStatus, SameBody, SameAge
    <3> QED
      BY <1>13, <2>2, <3>1, <3>2 DEF Saved, Reconcile, new
  <2> QED
    BY <2>3
<1>14. CASE UserChanges \/ UserAnnotates \/ UserDeletes
  BY <1>14, UserStep, AnnotatedStep
<1> QED
  BY <1>1, <1>2, <1>3, <1>4, <1>5, <1>6, <1>7, <1>8, <1>9, <1>11, <1>12, <1>13, <1>14,
     ReconcileCases DEF Next, Others, Elsewhere

-----------------------------------------------------------------------------
(* Generations.                                                            *)

LEMMA ObservedEffect ==
  ASSUME TypeInv, GenInv
  PROVE  /\ Observe(obj).reconciled => obj.reconciled
         /\ Current(obj) => Observe(obj) = obj
         /\ Observe(obj).strategy \in {obj.strategy, "not_required"}
         /\ ~Current(obj) /\ ~chain.base /\ obj.scope = "principal"
            => Observe(obj).strategy = "not_required"
         /\ obj.observed # obj.gen => Observe(obj).strategy = "not_required"
<1>0. obj \in Objects
  BY DEF TypeInv, PassTyped
<1> DEFINE before == ObserveProfile(obj)
<1>1. /\ before.gen = obj.gen /\ before.observed = obj.observed /\ before.scope = obj.scope
      /\ before.reconciled => obj.reconciled
      /\ obj.observedProfile = chain.gen => before = obj
      /\ before.strategy \in {obj.strategy, "not_required"}
      /\ obj.observedProfile # chain.gen /\ obj.scope = "principal"
         => before.strategy = "not_required"
  BY <1>0 DEF ObserveProfile, Objects, GenInv
<1>3. before \in Objects
  BY <1>0, ObservedTyped DEF TypeInv, EnvTyped, Chains
<1> HIDE DEF before
<1>4. /\ ObserveGeneration(before).reconciled => before.reconciled
      /\ before.observed = before.gen => ObserveGeneration(before) = before
      /\ ObserveGeneration(before).strategy \in {before.strategy, "not_required"}
      /\ before.observed # before.gen => ObserveGeneration(before).strategy = "not_required"
  BY <1>1, <1>3 DEF ObserveGeneration, Objects, GenInv
<1>5. Observe(obj) = ObserveGeneration(before)
  BY DEF Observe, before
<1> QED
  BY <1>1, <1>4, <1>5 DEF Current

\* The profiles change only by the user's hand.
LEMMA ChainKept ==
  ASSUME TypeInv, Next
  PROVE  /\ Reconcile \/ Restart => UNCHANGED <<chain, notify>>
         /\ \/ UNCHANGED chain
            \/ UserChanges /\ chain'.gen = chain.gen
            \/ /\ ProfileChanges /\ notify' /\ UNCHANGED obj
               /\ chain'.gen = chain.gen + 1 \/ (chain'.gen = chain.gen /\ chain'.base)
<1>1. Reconcile \/ Restart => UNCHANGED <<chain, notify>>
  <2>1. CASE FetchInstance \/ UpdateDeploymentScope \/ UpdateStatusForFactoryInstall
             \/ SetFactoryReconciledUpdated \/ AddFinalizer \/ UpdateAnnotation
             \/ UpdateConfigStatus \/ GetHost \/ RemoveHostFinalizer \/ PopulateHostInfo
             \/ FinalizeFactory \/ BuildHostDefaults
    BY <2>1 DEF FetchInstance, UpdateDeploymentScope, UpdateStatusForFactoryInstall,
                SetFactoryReconciledUpdated, AddFinalizer, UpdateAnnotation, UpdateConfigStatus,
                GetHost, RemoveHostFinalizer, PopulateHostInfo, FinalizeFactory,
                BuildHostDefaults, profileVars
  <2>2. CASE SetFactoryDefaultUpdated \/ SetInstanceDelta \/ Decide \/ RequireLock
             \/ RequireUnlock \/ StatusUpdate \/ ReconcileNewHost \/ ReconcileDeletedHost
             \/ ReconcileEnabledHost \/ AssignAdminNetwork \/ ReconcileDisabledHost
             \/ ReconcileFinalState
    BY <2>2 DEF SetFactoryDefaultUpdated, SetInstanceDelta, Decide, RequireLock, RequireUnlock,
                StatusUpdate, ReconcileNewHost, ReconcileDeletedHost, ReconcileEnabledHost,
                AssignAdminNetwork, ReconcileDisabledHost, ReconcileFinalState, profileVars
  <2>3. CASE Restart
    BY <2>3 DEF Restart, profileVars
  <2> QED
    BY <2>1, <2>2, <2>3 DEF Reconcile
<1>2. CASE StateChangePoll \/ System \/ Vim \/ OperatorActs \/ OperatorDeletesHost
           \/ UpdateHosts \/ MonitorFires \/ UserAnnotates \/ UserDeletes
  BY <1>1, <1>2 DEF StateChangePoll, System, HostProgress, HostAppears, ControllersEnabled, Vim,
              OperatorActs, OperatorDeletesHost, UpdateHosts, MonitorFires, UserAnnotates,
              UserDeletes, profileVars
<1>3. CASE UserChanges
  BY <1>1, <1>3 DEF UserChanges, TypeInv, EnvTyped, Chains
<1>4. CASE ProfileChanges
  <2>1. PICK want \in Wants, base \in BOOLEAN :
           chain' = [gen |-> IF base THEN chain.gen ELSE chain.gen + 1, base |-> base,
                     want |-> want]
    BY <1>4 DEF ProfileChanges
  <2>2. chain'.gen = chain.gen + 1 \/ (chain'.gen = chain.gen /\ chain'.base)
    BY <2>1
  <2>3. notify' = TRUE /\ UNCHANGED obj
    BY <1>4 DEF ProfileChanges, kubeVars
  <2> QED
    BY <1>1, <1>4, <2>2, <2>3
<1> QED
  BY <1>1, <1>2, <1>3, <1>4 DEF Next, Others

LEMMA ObservedEntered ==
  ASSUME Next, pc' \in Observed
  PROVE  pc \in Observed \/ (UpdateConfigStatus /\ pc' = "get" /\ obj' = Observe(obj))
<1>1. CASE Outside
  BY <1>1, OutsideShape
<1>2. CASE Restart
  BY <1>2 DEF Restart, Return, Observed, Existing
<1>3. CASE UpdateConfigStatus
  BY <1>3 DEF UpdateConfigStatus, ReadAndWrite, Goto, Return, Observed, Existing
<1>4. CASE Reconcile /\ ~UpdateConfigStatus
  BY <1>4, Flow DEF Reconcile, Observed, Existing
<1> QED
  BY <1>1, <1>2, <1>3, <1>4, NextCases

LEMMA StepGen == TypeInv /\ CopyInv /\ GenInv /\ [Next]_vars => GenInv'
<1> SUFFICES ASSUME TypeInv, CopyInv, GenInv, [Next]_vars PROVE GenInv'
  OBVIOUS
<1>0. /\ obj.gen \in Nat /\ obj.observed \in Nat /\ obj.observedProfile \in Nat
      /\ chain.gen \in Nat /\ obj \in Objects
  BY DEF TypeInv, EnvTyped, PassTyped, Objects, Chains
<1>1. CASE UNCHANGED vars
  BY <1>1 DEF GenInv, vars, kubeVars, profileVars
<1>2. CASE Next
  <2>1. chain'.gen \in {chain.gen, chain.gen + 1}
    BY <1>2, ChainKept
  <2>2. CASE UpdateConfigStatus /\ obj' = Observe(obj)
    <3>1. UNCHANGED chain
      BY <1>2, <2>2, ChainKept DEF Reconcile
    <3>2. /\ obj'.gen = obj.gen /\ obj'.observed = obj.gen /\ obj'.observedProfile = chain.gen
      BY <1>0, <2>2, ObservedFields
    <3> QED
      BY <1>0, <3>1, <3>2 DEF GenInv
  <2>3. CASE ~(UpdateConfigStatus /\ obj' = Observe(obj))
    <3>1. pc' \in Observed => pc \in Observed
      BY <1>2, <2>3, ObservedEntered
    <3>2. /\ obj'.gen \in {obj.gen, obj.gen + 1}
          /\ obj'.observed = obj.observed /\ obj'.observedProfile = obj.observedProfile
          /\ StatusUpdate \/ (obj'.reconciled => obj.reconciled)
      BY <1>2, <2>3, ObjectSteps
         DEF UserSteps, Annotated, ScopeStep, Saved, SameAge, SameStatus
    <3>3. StatusUpdate => pc \in Observed
      BY Flow DEF Observed, Existing
    <3>4. obj'.gen # 0 /\ chain'.gen # 0
      BY <1>0, <2>1, <3>2 DEF GenInv
    <3>5. obj'.observed \leq obj'.gen /\ obj'.observedProfile \leq chain'.gen
      BY <1>0, <2>1, <3>2 DEF GenInv
    <3> QED
      BY <3>1, <3>2, <3>3, <3>4, <3>5 DEF GenInv
  <2> QED
    BY <2>2, <2>3
<1> QED
  BY <1>1, <1>2

\* What the controller knows is current, or it is told that it is not.
LEMMA StepCurrent ==
  TypeInv /\ CopyInv /\ WakeInv /\ CurrentInv /\ [Next]_vars => CurrentInv'
<1> SUFFICES ASSUME TypeInv, CopyInv, WakeInv, CurrentInv, [Next]_vars,
                    pc' \in Observed \/ (pc' = "idle" /\ obj'.scope = "principal")
             PROVE  Current(obj)' \/ Woken' \/ notify' \/ chain'.base
  BY DEF CurrentInv
<1>0. obj \in Objects /\ copy \in Objects
  BY DEF TypeInv, PassTyped
<1>1. CASE UNCHANGED vars
  BY <1>1 DEF CurrentInv, Current, Woken, vars, kubeVars, profileVars
<1>2. CASE FetchInstance
  <2>1. pc' = "idle" /\ obj'.life = "gone"
    BY <1>2 DEF FetchInstance, Goto, Observed, Existing
  <2> QED
    BY <2>1 DEF Woken
<1>3. CASE Restart
  BY <1>3 DEF Restart, Return, Woken
<1>4. CASE Next /\ ~FetchInstance /\ ~Restart
  <2>1. Woken \/ notify => Woken' \/ notify'
    <3>1. Woken => Woken'
      BY <1>4, WokenKept
    <3>2. CASE Outside
      BY <3>1, <3>2, OutsideWakes DEF Woken
    <3>3. CASE Reconcile
      BY <1>4, <3>1, <3>3, ChainKept
    <3> QED
      BY <1>4, <3>2, <3>3, NextCases
  <2>2. CASE UpdateConfigStatus
    <3>1. UNCHANGED chain
      BY <1>4, <2>2, ChainKept DEF Reconcile
    <3>2. CASE pc' = "idle"
      <4>1. Return(TRUE)
        BY <2>2, <3>2 DEF UpdateConfigStatus, ReadAndWrite, Goto
      <4> QED
        BY <4>1 DEF Return, Woken
    <3>3. CASE obj' = Observe(obj)
      <4>1. /\ Observe(obj).gen = obj.gen /\ Observe(obj).observed = obj.gen
            /\ Observe(obj).observedProfile = chain.gen
        BY <1>0, ObservedFields
      <4> QED
        BY <3>1, <3>3, <4>1 DEF Current
    <3>4. pc' = "idle" \/ obj' = Observe(obj)
      BY <2>2 DEF UpdateConfigStatus, ReadAndWrite, Return
    <3> QED
      BY <3>2, <3>3, <3>4
  <2>3. CASE ~UpdateConfigStatus
    <3>1. \/ /\ UNCHANGED chain /\ obj'.gen = obj.gen /\ obj'.observed = obj.observed
             /\ obj'.observedProfile = obj.observedProfile
          \/ queued' \/ notify'
      <4>1. UNCHANGED obj \/ UserSteps \/ Annotated \/ ScopeStep \/ Saved
        BY <1>4, <2>3, ObjectSteps
      <4>2. UNCHANGED chain \/ UserSteps \/ notify'
        BY <1>4, UserStep, ChainKept
      <4> QED
        BY <4>1, <4>2 DEF UserSteps, Annotated, ScopeStep, Saved, SameAge
    <3>2. CASE pc \in Observed
      BY <2>1, <3>1, <3>2 DEF CurrentInv, Current, Woken
    <3>3. CASE pc = "idle"
      <4>1. Outside
        BY <1>4, <3>3, NextCases, Flow DEF Reconcile
      <4>2. pc' = "idle" /\ obj'.scope = "principal"
        BY <3>3, <4>1, OutsideShape DEF Observed, Existing
      <4>3. UNCHANGED obj \/ UserSteps \/ Annotated
        BY <1>4, <2>3, <3>3, ObjectSteps, Flow DEF ScopeStep, Saved
      <4>4. obj.scope = "principal"
        BY <4>2, <4>3 DEF UserSteps, Annotated, SameStatus
      <4> QED
        BY <2>1, <3>1, <3>3, <4>4 DEF CurrentInv, Current, Woken
    <3>4. CASE pc \notin Observed /\ pc # "idle"
      <4>1. pc' = "idle" /\ Reconcile
        <5>1. pc' \notin Observed
          BY <1>4, <2>3, <3>4, ObservedEntered
        <5> QED
          BY <1>4, <3>4, <5>1, NextCases, OutsideShape
      <4>2. \/ UpdateDeploymentScope \/ UpdateStatusForFactoryInstall
            \/ SetFactoryReconciledUpdated \/ AddFinalizer \/ UpdateAnnotation
        BY <1>4, <2>3, <3>4, <4>1, Flow DEF Reconcile, Observed, Existing
      <4>3. \/ Return(TRUE)
            \/ AddFinalizer /\ Finished(copy) /\ UNCHANGED obj
            \/ AddFinalizer /\ copy.life = "live" /\ ~copy.finalizer /\ fresh
               /\ obj' = [copy EXCEPT !.finalizer = TRUE]
        BY <4>1, <4>2 DEF UpdateDeploymentScope, UpdateStatusForFactoryInstall,
              SetFactoryReconciledUpdated, AddFinalizer, UpdateAnnotation, ReadAndWrite, Goto
      <4>4. CASE Return(TRUE)
        BY <4>4 DEF Return, Woken
      <4>5. CASE AddFinalizer /\ Finished(copy) /\ UNCHANGED obj
        <5>1. obj'.scope = "bootstrap"
          BY <3>4, <4>5 DEF Finished, CopyInv, SameStatus
        <5> QED
          BY <4>1, <5>1 DEF Observed, Existing
      <4>6. CASE /\ AddFinalizer /\ copy.life = "live" /\ ~copy.finalizer /\ fresh
                 /\ obj' = [copy EXCEPT !.finalizer = TRUE]
        <5>1. obj'.finalizer /\ ~obj.finalizer
          BY <1>0, <3>4, <4>6 DEF CopyInv, SameBody, Objects
        <5>2. queued'
          BY <1>4, <5>1, QueueKept
        <5> QED
          BY <5>2 DEF Woken
      <4> QED
        BY <4>3, <4>4, <4>5, <4>6
    <3> QED
      BY <3>2, <3>3, <3>4
  <2> QED
    BY <2>2, <2>3
<1> QED
  BY <1>1, <1>2, <1>3, <1>4

-----------------------------------------------------------------------------
(* The profile and the host that a pass works on.                          *)

EarlySteps == {"scope", "factory", "factoryFlag", "gate", "annotate", "observe"}

LEMMA CurrentKept ==
  ASSUME TypeInv, CopyInv, GenInv, Next, Current(obj)',
         ~(UpdateConfigStatus /\ obj' = Observe(obj))
  PROVE  Current(obj) /\ UNCHANGED chain /\ ~UserSteps
<1>0. /\ obj.gen \in Nat /\ obj.observed \in Nat /\ obj.observedProfile \in Nat
      /\ chain.gen \in Nat /\ obj.observed \leq obj.gen /\ obj.observedProfile \leq chain.gen
  BY DEF TypeInv, EnvTyped, PassTyped, Objects, GenInv, Chains
<1>1. obj'.observed = obj'.gen /\ obj'.observedProfile = chain'.gen /\ ~chain'.base
  BY DEF Current
<1>2. ~UserSteps
  BY <1>0, <1>1 DEF UserSteps, SameStatus
<1>3. SameAge(obj', obj)
  BY <1>2, ObjectSteps DEF Annotated, ScopeStep, Saved, SameAge
<1>4. UNCHANGED chain
  <2>1. ~UserChanges
    BY <1>2, UserStep
  <2>2. ~(chain'.gen = chain.gen + 1)
    BY <1>0, <1>1, <1>3 DEF SameAge
  <2> QED
    BY <1>1, <2>1, <2>2, ChainKept
<1> QED
  BY <1>1, <1>2, <1>3, <1>4 DEF SameAge, Current

LEMMA ProfileKept ==
  ASSUME Reconcile
  PROVE  \/ UNCHANGED profile \/ pc' = "idle"
         \/ FetchInstance /\ pc' = "scope" /\ profile' = chain.want
<1>1. CASE FetchInstance
  BY <1>1 DEF FetchInstance, Goto
<1>2. CASE UpdateDeploymentScope \/ UpdateStatusForFactoryInstall
           \/ SetFactoryReconciledUpdated \/ AddFinalizer
  BY <1>2 DEF UpdateDeploymentScope, UpdateStatusForFactoryInstall,
              SetFactoryReconciledUpdated, AddFinalizer, Return, localVars
<1>3. CASE UpdateAnnotation \/ UpdateConfigStatus
  <2>1. \E new, next : ReadAndWrite(new, next)
    BY <1>3 DEF UpdateAnnotation, UpdateConfigStatus
  <2> QED
    BY <2>1 DEF ReadAndWrite, Return
<1>4. CASE GetHost \/ ReconcileNewHost
  BY <1>4 DEF GetHost, ReconcileNewHost, ProvisionHost, ReturnWaiting, Return
<1>5. CASE ReconcileDeletedHost
  BY <1>5 DEF ReconcileDeletedHost, ReturnWaiting, Return, localVars
<1>6. CASE RemoveHostFinalizer \/ StatusUpdate
  BY <1>6, Flow
<1>7. CASE PopulateHostInfo \/ FinalizeFactory \/ BuildHostDefaults
           \/ SetFactoryDefaultUpdated \/ SetInstanceDelta \/ Decide
  BY <1>7 DEF PopulateHostInfo, FinalizeFactory, BuildHostDefaults, SetFactoryDefaultUpdated,
              SetInstanceDelta, Decide
<1>8. CASE ReconcileEnabledHost \/ RequireLock \/ AssignAdminNetwork
           \/ ReconcileDisabledHost \/ ReconcileFinalState \/ RequireUnlock
  BY <1>8 DEF ReconcileEnabledHost, RequireLock, AssignAdminNetwork, ReconcileDisabledHost,
              ReconcileFinalState, RequireUnlock
<1> QED
  BY <1>1, <1>2, <1>3, <1>4, <1>5, <1>6, <1>7, <1>8 DEF Reconcile

Working == (Existing \cup {"get", "new"}) \ {"status"}

LEMMA StepProfile == TypeInv /\ CopyInv /\ GenInv /\ ProfileInv /\ [Next]_vars => ProfileInv'
<1> SUFFICES ASSUME TypeInv, CopyInv, GenInv, ProfileInv, [Next]_vars, Current(obj)'
             PROVE  /\ pc' \in EarlySteps => profile' = chain'.want
                    /\ pc' \in Working /\ obj'.scope = "principal"
                       => profile' = chain'.want \/ obj'.strategy = "not_required"
  BY DEF ProfileInv, EarlySteps, Working
<1>1. CASE UNCHANGED vars
  BY <1>1 DEF ProfileInv, EarlySteps, Working, Current, vars, kubeVars, profileVars, localVars
<1>2. CASE Next /\ UpdateConfigStatus /\ obj' = Observe(obj)
  <2>1. pc = "observe" /\ pc' \in {"get", "idle"} /\ UNCHANGED chain
    BY <1>2, Flow, ChainKept DEF Reconcile
  <2>2. pc' = "get" => UNCHANGED profile
    BY <1>2, Flow, ProfileKept DEF Reconcile
  <2>3. CASE Current(obj)
    BY <2>1, <2>2, <2>3 DEF ProfileInv, EarlySteps, Working, Existing
  <2>4. CASE ~Current(obj)
    <3>1. obj'.scope = obj.scope
      BY <1>2, ObservedFields DEF TypeInv, PassTyped
    <3>2. obj'.scope = "principal" => obj'.strategy = "not_required"
      BY <1>2, <2>1, <2>4, <3>1, ObservedEffect DEF Current
    <3> QED
      BY <2>1, <3>2 DEF EarlySteps
  <2> QED
    BY <2>3, <2>4
<1>3. CASE Next /\ ~(UpdateConfigStatus /\ obj' = Observe(obj))
  <2>1. Current(obj) /\ UNCHANGED chain /\ ~UserSteps
    BY <1>3, CurrentKept
  <2>2. CASE Restart
    BY <2>2 DEF Restart, Return, EarlySteps, Working, Existing
  <2>3. CASE Outside
    <3>1. UNCHANGED <<pc, profile>>
      BY <2>3, OutsideShape
    <3>2. obj'.scope = obj.scope /\ obj'.strategy = obj.strategy
      <4>1. ~UserChanges /\ ~UserDeletes
        BY <2>1, UserStep
      <4>2. UserAnnotates => Annotated
        BY AnnotatedStep
      <4> QED
        BY <2>3, <4>1, <4>2, ElsewhereShape
           DEF Outside, UpdateHosts, MonitorFires, kubeVars, Annotated, SameStatus, SameConfig
    <3> QED
      BY <2>1, <3>1, <3>2 DEF ProfileInv, EarlySteps, Working
  <2>4. CASE FetchInstance
    <3>1. pc' = "idle" \/ (pc' = "scope" /\ profile' = chain.want)
      BY <2>4 DEF FetchInstance, Goto
    <3> QED
      BY <2>1, <3>1 DEF EarlySteps, Working, Existing
  <2>5. CASE Reconcile /\ ~FetchInstance
    <3>1. pc' \in EarlySteps => pc \in EarlySteps /\ UNCHANGED profile
      BY <2>5, Flow, ProfileKept DEF Reconcile, EarlySteps
    <3>2. ASSUME pc' \in Working, obj'.scope = "principal"
          PROVE  profile' = chain'.want \/ obj'.strategy = "not_required"
      <4>1. UNCHANGED profile
        BY <2>5, <3>2, Flow, ProfileKept DEF Working, Existing
      <4>2. pc \in Working /\ ~StatusUpdate /\ ~RequireLock /\ ~RequireUnlock
            /\ ~UpdateDeploymentScope
        <5>1. pc \in Observed
          BY <1>3, <3>2, ObservedEntered DEF Working, Observed
        <5> QED
          BY <2>5, <3>2, <5>1, Flow DEF Reconcile, Working, Observed, Existing
      <4>3. obj'.strategy = obj.strategy /\ obj'.scope = obj.scope
        BY <1>3, <2>1, <4>2, ObjectSteps
           DEF Annotated, ScopeStep, Saved, SameConfig, SameStatus
      <4> QED
        BY <2>1, <3>2, <4>1, <4>2, <4>3 DEF ProfileInv, Working
    <3> QED
      BY <2>1, <3>1, <3>2 DEF ProfileInv, EarlySteps
  <2> QED
    BY <1>3, <2>2, <2>3, <2>4, <2>5, NextCases
<1> QED
  BY <1>1, <1>2, <1>3

\* As long as the host is the first, it stays.
LEMMA HostStays ==
  ASSUME PassInv, Next, NotLost'
  PROVE  /\ NotLost
         /\ host.id # 0 => /\ host'.id = host.id
                           /\ host'.oos = host.oos \/ ReconcileDisabledHost
                           /\ host'.nets = host.nets \/ AssignAdminNetwork
                                                     \/ ReconcileDisabledHost
<1>0. /\ TypeInv /\ DecisionInv /\ IdsInv
      /\ host.id \in Nat /\ nextId \in Nat /\ host.id < nextId
  BY DEF PassInv, TypeInv, EnvTyped, Hosts, IdsInv, HostOK
<1>1. Same \/ Gone \/ Appears \/ Changes
  BY <1>0, HostSteps
<1>2. CASE Gone
  <2>1. host'.id = 0 /\ UNCHANGED nextId
    BY <1>2, NoHostTyped DEF Gone
  <2> QED
    BY <1>0, <2>1 DEF NotLost
<1> QED
  BY <1>0, <1>1, <1>2 DEF NotLost, Same, Appears, Changes

\* In the course of a pass no host becomes enabled.
LEMMA NotEnabledMeanwhile ==
  ASSUME PassInv, Next, pc # "idle", UnlockedEnabled(host')
  PROVE  UnlockedEnabled(host)
<1>0. host \in Hosts
  BY DEF PassInv, TypeInv, EnvTyped
<1>m. ASSUME NEW to, host' = [host EXCEPT !.state = to]
      PROVE  host'.state = to
  BY <1>0, <1>m DEF Hosts
<1>n. NoHost \in Hosts /\ ~UnlockedEnabled(NoHost)
  BY NoHostTyped DEF UnlockedEnabled
<1>1. CASE UNCHANGED host
  BY <1>1
<1>2. CASE FetchInstance \/ UpdateDeploymentScope \/ UpdateStatusForFactoryInstall
           \/ SetFactoryReconciledUpdated \/ AddFinalizer \/ UpdateAnnotation
           \/ UpdateConfigStatus \/ GetHost \/ RemoveHostFinalizer \/ PopulateHostInfo
           \/ FinalizeFactory \/ BuildHostDefaults \/ SetFactoryDefaultUpdated
           \/ SetInstanceDelta \/ Decide \/ RequireLock \/ RequireUnlock \/ StatusUpdate
  BY <1>1, <1>2 DEF FetchInstance, UpdateDeploymentScope, UpdateStatusForFactoryInstall,
              SetFactoryReconciledUpdated, AddFinalizer, UpdateAnnotation, UpdateConfigStatus,
              GetHost, RemoveHostFinalizer, PopulateHostInfo, FinalizeFactory,
              BuildHostDefaults, SetFactoryDefaultUpdated, SetInstanceDelta, Decide,
              RequireLock, RequireUnlock, StatusUpdate, sysVars
<1>3. CASE ReconcileNewHost
  <2>1. \/ UNCHANGED host
        \/ host' = [NoHost EXCEPT !.id = nextId, !.named = TRUE, !.state = "offline"]
        \/ host' = [host EXCEPT !.named = TRUE]
    BY <1>3 DEF ReconcileNewHost, ProvisionHost
  <2>2. [NoHost EXCEPT !.id = nextId, !.named = TRUE, !.state = "offline"].state = "offline"
    BY <1>n DEF Hosts
  <2>3. [host EXCEPT !.named = TRUE].state = host.state
    BY <1>0 DEF Hosts
  <2> QED
    BY <2>1, <2>2, <2>3 DEF UnlockedEnabled
<1>4. CASE ReconcileDeletedHost
  <2>1. UNCHANGED host \/ host' = NoHost \/ host' = [host EXCEPT !.state = "locking"]
    BY <1>4 DEF ReconcileDeletedHost
  <2> QED
    BY <1>m, <1>n, <2>1 DEF UnlockedEnabled
<1>5. CASE ReconcileEnabledHost \/ AssignAdminNetwork
  <2>1. \/ UNCHANGED host
        \/ host' = [host EXCEPT !.state = "locking"]
        \/ host' = [host EXCEPT !.fs = profile.fs, !.routes = profile.routes]
        \/ host' = [host EXCEPT !.nets = profile.nets]
    BY <1>5 DEF ReconcileEnabledHost, AssignAdminNetwork, Request
  <2>2. /\ [host EXCEPT !.fs = profile.fs, !.routes = profile.routes].state = host.state
        /\ [host EXCEPT !.nets = profile.nets].state = host.state
    BY <1>0 DEF Hosts
  <2> QED
    BY <1>m, <2>1, <2>2 DEF UnlockedEnabled
<1>6. CASE ReconcileDisabledHost
  <2> DEFINE new == [host EXCEPT !.oos = Effective(copy), !.nets = profile.nets,
                                 !.routes = profile.routes]
  <2>1. new.state = host.state
    BY <1>0 DEF Hosts
  <2> HIDE DEF new
  <2>2. UNCHANGED host \/ host' = new
    BY <1>6 DEF ReconcileDisabledHost, Request, new
  <2> QED
    BY <2>1, <2>2 DEF UnlockedEnabled
<1>7. CASE ReconcileFinalState
  <2>1. UNCHANGED host \/ host' = [host EXCEPT !.state = "unlocking"]
    BY <1>7 DEF ReconcileFinalState, Request
  <2> QED
    BY <1>m, <2>1 DEF UnlockedEnabled
<1>8. CASE UpdateHosts \/ MonitorFires \/ StateChangePoll \/ ControllersEnabled \/ UserChanges
           \/ UserAnnotates \/ UserDeletes \/ ProfileChanges \/ Restart
  BY <1>1, <1>8 DEF UpdateHosts, MonitorFires, StateChangePoll, ControllersEnabled, UserChanges,
              UserAnnotates, UserDeletes, UserWrites, ProfileChanges, Restart, sysVars
<1>9. CASE HostProgress \/ OperatorActs
  <2>1. \/ \E to \in {"online", "locking", "unlocking"} : host' = [host EXCEPT !.state = to]
        \/ host.state = "degraded"
    BY <1>9 DEF HostProgress, OperatorActs, HostMoves
  <2> QED
    BY <1>m, <2>1 DEF UnlockedEnabled
<1>10. CASE HostAppears
  <2>1. [NoHost EXCEPT !.id = nextId, !.state = "online"].state = "online"
    BY <1>n DEF Hosts
  <2> QED
    BY <1>10, <2>1 DEF HostAppears, UnlockedEnabled
<1>11. CASE OperatorDeletesHost
  BY <1>n, <1>11 DEF OperatorDeletesHost
<1>12. CASE Vim
  <2>1. \/ UNCHANGED host
        \/ \E to \in {"locking", "unlocking"} : host' = [host EXCEPT !.state = to]
        \/ ~UnlockedEnabled(host) /\ host' = [host EXCEPT !.state = host.state]
    BY <1>12 DEF Vim, VimStarts, VimLocks, VimUnlocks, VimEnds, HostMoves
  <2> QED
    BY <1>m, <2>1 DEF UnlockedEnabled
<1> QED
  BY <1>2, <1>3, <1>4, <1>5, <1>6, <1>7, <1>8, <1>9, <1>10, <1>11, <1>12
     DEF Next, Reconcile, System, Others

\* The host is read by GetHost or ReconcileNewHost, and again by PopulateHostInfo.
LEMMA HostKnown ==
  ASSUME TypeInv, Next, pc' \in Existing
  PROVE  /\ \/ pc \in Existing /\ UNCHANGED seen
            \/ GetHost /\ seen' = host /\ host' = host /\ host.id # 0
            \/ ReconcileNewHost /\ seen' = host' /\ (host.id # 0 => host'.id = host.id)
         /\ pc' \in Compared => \/ pc \in Compared /\ UNCHANGED snap
                                \/ PopulateHostInfo /\ snap' = host /\ host' = host
<1>1. CASE Outside
  BY <1>1, OutsideShape
<1>2. CASE Restart
  BY <1>2 DEF Restart, Return, Existing
<1>3. CASE GetHost
  <2>1. pc' = "populate" /\ pc' \notin Compared
    BY <1>3, Flow DEF Existing, Compared
  <2> QED
    BY <1>3, <2>1 DEF GetHost, Goto, Return, Exists, sysVars
<1>4. CASE ReconcileNewHost
  <2>1. pc' = "populate" /\ pc' \notin Compared
    BY <1>4, Flow DEF Existing, Compared
  <2>2. [host EXCEPT !.named = TRUE].id = host.id
    BY DEF TypeInv, EnvTyped, Hosts
  <2>3. ProvisionHost
    BY <1>4, <2>1 DEF ReconcileNewHost, ReturnWaiting, Return
  <2>4. seen' = host' /\ (host.id = 0 \/ host' = [host EXCEPT !.named = TRUE])
    BY <2>1, <2>3 DEF ProvisionHost, Return, Exists
  <2> QED
    BY <1>4, <2>1, <2>2, <2>4
<1>5. CASE PopulateHostInfo
  BY <1>5, Flow DEF PopulateHostInfo, Goto, Wait, Leave, Existing, Compared, sysVars
<1>6. CASE FinalizeFactory \/ BuildHostDefaults \/ SetFactoryDefaultUpdated
           \/ SetInstanceDelta \/ Decide
  <2>1. UNCHANGED <<seen, snap>>
    BY <1>6 DEF FinalizeFactory, BuildHostDefaults, SetFactoryDefaultUpdated,
                SetInstanceDelta, Decide
  <2> QED
    BY <1>6, <2>1, Flow DEF Existing, Compared
<1>7. CASE ReconcileEnabledHost \/ RequireLock \/ AssignAdminNetwork
           \/ ReconcileDisabledHost \/ ReconcileFinalState \/ RequireUnlock
  <2>1. UNCHANGED <<seen, snap>>
    BY <1>7 DEF ReconcileEnabledHost, RequireLock, AssignAdminNetwork, ReconcileDisabledHost,
                ReconcileFinalState, RequireUnlock
  <2> QED
    BY <1>7, <2>1, Flow DEF Existing, Compared
<1>8. CASE /\ Reconcile /\ ~GetHost /\ ~ReconcileNewHost /\ ~PopulateHostInfo
           /\ ~FinalizeFactory /\ ~BuildHostDefaults /\ ~SetFactoryDefaultUpdated
           /\ ~SetInstanceDelta /\ ~Decide /\ ~ReconcileEnabledHost /\ ~RequireLock
           /\ ~AssignAdminNetwork /\ ~ReconcileDisabledHost /\ ~ReconcileFinalState /\ ~RequireUnlock
  BY <1>8, Flow DEF Reconcile, Existing
<1> QED
  BY <1>1, <1>2, <1>3, <1>4, <1>5, <1>6, <1>7, <1>8, NextCases

LEMMA StepKnown == PassInv /\ GenInv /\ KnownInv /\ [Next]_vars => KnownInv'
<1> SUFFICES ASSUME PassInv, GenInv, KnownInv, [Next]_vars, obj'.life = "live", NotLost'
             PROVE  /\ pc' \in Existing => seen'.id # 0 /\ host'.id = seen'.id
                    /\ pc' \in Compared => /\ host'.id = snap'.id
                                           /\ host'.oos = snap'.oos /\ host'.nets = snap'.nets
                    /\ pc' \in {"final", "unlockRequired"}
                       => host'.oos = Effective(copy)' /\ host'.nets = profile'.nets
                    /\ host'.id = 0 => obj'.strategy = "not_required"
  BY DEF KnownInv
<1>0. /\ TypeInv /\ CopyInv /\ DecisionInv /\ IdsInv
      /\ host \in Hosts /\ nextId \in Nat /\ host.id \in Nat
  BY DEF PassInv, TypeInv, EnvTyped, Hosts
<1>1. CASE UNCHANGED vars
  BY <1>1 DEF KnownInv, NotLost, Effective, vars, kubeVars, sysVars, localVars
<1>2. CASE Next
  <2>1. /\ obj.life = "live" /\ NotLost
        /\ host.id # 0 => /\ host'.id = host.id
                          /\ host'.oos = host.oos \/ ReconcileDisabledHost
                          /\ host'.nets = host.nets \/ AssignAdminNetwork
                                                    \/ ReconcileDisabledHost
    BY <1>0, <1>2, HostStays, LifeKept
  <2>2. /\ pc \in Existing => seen.id # 0 /\ host.id = seen.id
        /\ pc \in Compared => /\ host.id = snap.id
                              /\ host.oos = snap.oos /\ host.nets = snap.nets
        /\ pc \in {"final", "unlockRequired"}
           => host.oos = Effective(copy) /\ host.nets = profile.nets
        /\ host.id = 0 => obj.strategy = "not_required"
    BY <2>1 DEF KnownInv
  <2>3. pc' \in Existing => seen'.id # 0 /\ host'.id = seen'.id
    <3> SUFFICES ASSUME pc' \in Existing PROVE seen'.id # 0 /\ host'.id = seen'.id
      OBVIOUS
    <3>1. CASE pc \in Existing /\ UNCHANGED seen
      BY <2>1, <2>2, <3>1
    <3>2. CASE GetHost /\ seen' = host /\ host' = host /\ host.id # 0
      BY <3>2
    <3>3. CASE ReconcileNewHost /\ seen' = host' /\ (host.id # 0 => host'.id = host.id)
      <4>1. host'.id # 0
        <5>1. ~OperatorDeletesHost /\ ~ReconcileDeletedHost
          BY <3>3, Flow DEF OperatorDeletesHost, Event, ReconcileNewHost, ReconcileDeletedHost
        <5>2. nextId # 0
          BY <1>0 DEF IdsInv, HostOK
        <5>3. Same \/ Appears \/ Changes
          BY <1>0, <1>2, <5>1, HostSteps DEF Gone
        <5>4. CASE Same /\ host.id = 0
          <6>1. pc' = "populate" /\ ProvisionHost
            BY <3>3, Flow DEF Existing, ReconcileNewHost, ReturnWaiting, Return
          <6>2. nextId' # nextId \/ host.id # 0
            BY <1>0, <6>1 DEF ProvisionHost, Return, Exists
          <6> QED
            BY <5>4, <6>2 DEF Same
        <5> QED
          BY <3>3, <5>2, <5>3, <5>4 DEF Same, Appears, Changes
      <4> QED
        BY <3>3, <4>1
    <3> QED
      BY <1>0, <1>2, <3>1, <3>2, <3>3, HostKnown
  <2>4. pc' \in Compared => /\ host'.id = snap'.id
                            /\ host'.oos = snap'.oos /\ host'.nets = snap'.nets
    <3> SUFFICES ASSUME pc' \in Compared
                 PROVE  /\ host'.id = snap'.id
                        /\ host'.oos = snap'.oos /\ host'.nets = snap'.nets
      OBVIOUS
    <3>1. pc' \in Existing
      BY DEF Existing, Compared
    <3>2. CASE pc \in Compared /\ UNCHANGED snap
      <4>1. host.id # 0
        BY <2>2, <3>2 DEF Existing, Compared
      <4>2. ~ReconcileDisabledHost /\ ~AssignAdminNetwork
        BY Flow DEF Compared
      <4> QED
        BY <2>1, <2>2, <3>2, <4>1, <4>2
    <3>3. CASE PopulateHostInfo /\ snap' = host /\ host' = host
      BY <3>3
    <3> QED
      BY <1>0, <1>2, <3>1, <3>2, <3>3, HostKnown
  <2>5. pc' \in {"final", "unlockRequired"}
        => host'.oos = Effective(copy)' /\ host'.nets = profile'.nets
    <3> SUFFICES ASSUME pc' \in {"final", "unlockRequired"}
                 PROVE  host'.oos = Effective(copy)' /\ host'.nets = profile'.nets
      OBVIOUS
    <3>1. CASE Outside
      <4>1. UNCHANGED <<pc, copy, profile>>
        BY <3>1, OutsideShape
      <4>2. host.id # 0 /\ ~ReconcileDisabledHost /\ ~AssignAdminNetwork
        BY <2>2, <4>1, Flow DEF Existing
      <4> QED
        BY <2>1, <2>2, <4>1, <4>2 DEF Effective
    <3>2. CASE Decide
      <4>1. pc' = "unlockRequired" /\ CompareDisabledAttributes(copy, snap, Principal)
        BY <3>2 DEF Decide, Goto, Wait, Leave
      <4>2. /\ Effective(copy) = snap.oos /\ snap.oos = host.oos
            /\ profile.nets = snap.nets /\ snap.nets = host.nets
        BY <2>2, <3>2, <4>1, Flow DEF CompareDisabledAttributes, Compared
      <4>3. UNCHANGED <<host, copy, profile>>
        BY <3>2 DEF Decide, sysVars
      <4> QED
        BY <4>2, <4>3 DEF Effective
    <3>3. CASE ReconcileDisabledHost
      <4>1. host' = [host EXCEPT !.oos = Effective(copy), !.nets = profile.nets,
                                 !.routes = profile.routes]
        BY <3>3 DEF ReconcileDisabledHost, Request, Leave
      <4>2. host'.oos = Effective(copy) /\ host'.nets = profile.nets
        BY <1>0, <4>1 DEF Hosts
      <4>3. UNCHANGED <<copy, profile>>
        BY <3>3 DEF ReconcileDisabledHost
      <4> QED
        BY <4>2, <4>3 DEF Effective
    <3>4. CASE ReconcileFinalState
      <4>1. UNCHANGED <<host, copy, profile>>
        BY <3>4 DEF ReconcileFinalState, Request, Wait, Leave
      <4>2. host.oos = Effective(copy) /\ host.nets = profile.nets
        BY <2>2, <3>4, Flow
      <4> QED
        BY <4>1, <4>2 DEF Effective
    <3> QED
      BY <1>2, <3>1, <3>2, <3>3, <3>4, NextCases, Flow DEF Reconcile, Restart, Return
  <2>6. host'.id = 0 => obj'.strategy = "not_required"
    <3> SUFFICES ASSUME host'.id = 0 PROVE obj'.strategy = "not_required"
      OBVIOUS
    <3>1. host.id = 0 /\ obj.strategy = "not_required" /\ pc \notin Existing
      BY <2>1, <2>2
    <3>2. CASE UpdateConfigStatus /\ obj' = Observe(obj)
      BY <1>0, <3>1, <3>2, ObservedEffect
    <3>3. ~BuildHostDefaults /\ ~RequireLock /\ ~RequireUnlock /\ ~StatusUpdate
      BY <3>1, Flow DEF Existing
    <3> QED
      BY <1>0, <1>2, <3>1, <3>2, <3>3, ObjectSteps
         DEF UserSteps, Annotated, ScopeStep, Saved, SameConfig
  <2> QED
    BY <2>3, <2>4, <2>5, <2>6
<1> QED
  BY <1>1, <1>2

-----------------------------------------------------------------------------
(* A required unlock.                                                      *)

LEMMA SettledFields ==
  ASSUME NEW o \in Objects, NEW b \in BOOLEAN
  PROVE  LET new == Settled(o, b) IN
         /\ SameAge(new, o) /\ new.scope = o.scope /\ new.life = o.life
         /\ new.defaults \in {0, o.defaults}
         /\ new.strategy = "unlock_required"
            => \/ o.strategy = "unlock_required"
               \/ b /\ o.strategy = "lock_required" /\ LockedDisabled(seen)
         /\ o.strategy = "not_required" => new.strategy = "not_required"
<1> DEFINE r == Recorded(o, b)
           new == Settled(o, b)
<1>1. /\ SameAge(r, o) /\ r.scope = o.scope /\ r.life = o.life /\ r.inSync = b
      /\ r.defaults \in {0, o.defaults} /\ r.strategy = o.strategy
  BY DEF Recorded, Objects, SameAge
<1>2. /\ SameAge(new, r) /\ new.scope = r.scope /\ new.life = r.life
      /\ new.defaults = r.defaults /\ new.strategy = SettledStrategy(r)
  BY DEF Settled, Recorded, Objects, SameAge
<1> HIDE DEF r, new
<1>3. /\ SettledStrategy(r) = "unlock_required"
         => \/ o.strategy = "unlock_required"
            \/ b /\ o.strategy = "lock_required" /\ LockedDisabled(seen)
      /\ o.strategy = "not_required" => SettledStrategy(r) = "not_required"
  BY <1>1 DEF SettledStrategy
<1>4. SameAge(new, o) /\ new.scope = o.scope /\ new.life = o.life
  BY <1>1, <1>2 DEF SameAge
<1> QED
  BY <1>1, <1>2, <1>3, <1>4 DEF new

\* How ReconcileExistingHost returns with a copy that is still fresh.
LEMMA StatusEntered ==
  ASSUME TypeInv, CopyInv, Reconcile, pc' = "status", fresh'
  PROVE  /\ fresh /\ pc \notin {"idle", "status"}
         /\ \/ copy' = obj' /\ (err' = "none" => copy'.strategy = "not_required")
            \/ /\ UNCHANGED <<copy, obj>>
               /\ err' = "none" => ~StrategyRequired \/ pc = "strategy"
            \/ /\ BuildHostDefaults /\ UNCHANGED obj /\ err' = "retry"
               /\ copy' = [copy EXCEPT !.defaults = snap.oos]
            \/ /\ RequireLock /\ UNCHANGED obj /\ err' = "retry"
               /\ \/ copy' = [copy EXCEPT !.strategy = "not_required"]
                  \/ /\ copy' = [copy EXCEPT !.strategy = "lock_required"]
                     /\ Principal \/ StrategyRequired
            \/ /\ RequireUnlock /\ StrategyRequired /\ UNCHANGED obj
               /\ copy' = [copy EXCEPT !.strategy = "unlock_required"]
<1>0. copy \in Objects /\ fresh \in BOOLEAN
  BY DEF TypeInv, PassTyped
<1>k. ASSUME NEW new, KeepsValues(new) PROVE fresh /\ UNCHANGED obj /\ copy' = new
  BY <1>0, <1>k DEF KeepsValues
<1>w. ASSUME NEW new, Write(new) PROVE fresh /\ copy' = obj' /\ copy' = new
  BY <1>0, <1>w DEF Write
<1>1. CASE PopulateHostInfo \/ FinalizeFactory \/ SetFactoryDefaultUpdated
           \/ ReconcileEnabledHost \/ ReconcileDisabledHost \/ ReconcileFinalState
  <2>1. UNCHANGED <<copy, obj, fresh>>
    BY <1>1 DEF PopulateHostInfo, FinalizeFactory, SetFactoryDefaultUpdated,
                ReconcileEnabledHost, ReconcileDisabledHost, ReconcileFinalState, kubeVars
  <2>2. err' # "none"
    BY <1>1 DEF PopulateHostInfo, FinalizeFactory, SetFactoryDefaultUpdated,
                ReconcileEnabledHost, ReconcileDisabledHost, ReconcileFinalState, Request,
                Goto, Wait, Leave
  <2> QED
    BY <1>1, <2>1, <2>2, Flow
<1>2. CASE BuildHostDefaults
  <2> DEFINE new == [copy EXCEPT !.defaults = snap.oos]
  <2>1. \/ UNCHANGED <<kubeVars, copy, fresh>> /\ err' = "wait"
        \/ KeepsValues(new) /\ err' = "retry"
    BY <1>2 DEF BuildHostDefaults, Goto, Wait, Leave
  <2>2. CASE UNCHANGED <<kubeVars, copy, fresh>> /\ err' = "wait"
    BY <1>2, <2>2, Flow DEF kubeVars
  <2>3. CASE KeepsValues(new) /\ err' = "retry"
    <3>1. fresh /\ UNCHANGED obj /\ copy' = new
      BY <1>k, <2>3
    <3> QED
      BY <1>2, <2>3, <3>1, Flow
  <2> QED
    BY <2>1, <2>2, <2>3
<1>3. CASE Decide
  <2>1. UNCHANGED <<copy, obj, fresh>>
    BY <1>3 DEF Decide, kubeVars
  <2>2. err' = "none" => ~StrategyRequired
    BY <1>3 DEF Decide, Goto, Wait, Leave
  <2> QED
    BY <1>3, <2>1, <2>2, Flow
<1>6. CASE AssignAdminNetwork
  <2>1. UNCHANGED <<copy, obj, fresh>>
    BY <1>6 DEF AssignAdminNetwork, kubeVars
  <2> QED
    BY <1>6, <2>1, Flow
<1>4. CASE RequireLock
  <2> DEFINE lock == [copy EXCEPT !.strategy = "lock_required"]
             none == [copy EXCEPT !.strategy = "not_required"]
  <2>1. \/ /\ Principal \/ StrategyRequired
           /\ Write(lock) /\ err' = "wait"
        \/ /\ Principal \/ StrategyRequired
           /\ KeepsValues(lock) /\ err' = "retry"
        \/ Write(none) /\ err' = "none"
        \/ KeepsValues(none) /\ err' = "retry"
        \/ UNCHANGED <<kubeVars, copy, fresh>>
    BY <1>4 DEF RequireLock, SetStrategy, Wait, Leave
  <2>2. none.strategy = "not_required"
    BY <1>0 DEF Objects
  <2> HIDE DEF lock, none
  <2>3. pc = "strategy"
    BY <1>4, Flow
  <2>4. CASE Write(lock) /\ err' = "wait"
    BY <1>w, <2>3, <2>4
  <2>5. CASE KeepsValues(lock) /\ err' = "retry" /\ (Principal \/ StrategyRequired)
    <3>1. fresh /\ UNCHANGED obj /\ copy' = lock
      BY <1>k, <2>5
    <3> QED
      BY <1>4, <2>3, <2>5, <3>1 DEF lock
  <2>6. CASE Write(none)
    BY <1>w, <2>2, <2>3, <2>6
  <2>7. CASE KeepsValues(none) /\ err' = "retry"
    <3>1. fresh /\ UNCHANGED obj /\ copy' = none
      BY <1>k, <2>7
    <3> QED
      BY <1>4, <2>3, <2>7, <3>1 DEF none
  <2>8. CASE UNCHANGED <<kubeVars, copy, fresh>>
    BY <1>4, <2>3, <2>8 DEF kubeVars
  <2> QED
    BY <2>1, <2>4, <2>5, <2>6, <2>7, <2>8
<1>5. CASE RequireUnlock
  <2> DEFINE new == [copy EXCEPT !.strategy = "unlock_required"]
  <2>1. \/ StrategyRequired /\ Write(new) /\ err' = "wait"
        \/ StrategyRequired /\ KeepsValues(new)
        \/ UNCHANGED <<kubeVars, copy, fresh>> /\ err' = "wait"
    BY <1>5 DEF RequireUnlock, SetStrategy, Wait, Leave
  <2> HIDE DEF new
  <2>2. pc = "unlockRequired"
    BY <1>5, Flow
  <2>3. CASE Write(new) /\ err' = "wait"
    BY <1>w, <2>2, <2>3
  <2>4. CASE StrategyRequired /\ KeepsValues(new)
    <3>1. fresh /\ UNCHANGED obj /\ copy' = new
      BY <1>k, <2>4
    <3> QED
      BY <1>5, <2>2, <2>4, <3>1 DEF new
  <2>5. CASE UNCHANGED <<kubeVars, copy, fresh>> /\ err' = "wait"
    BY <2>2, <2>5 DEF kubeVars
  <2> QED
    BY <2>1, <2>3, <2>4, <2>5
<1> QED
  BY <1>1, <1>2, <1>3, <1>4, <1>5, <1>6, Flow DEF Reconcile

LEMMA StepSeen == PassInv /\ SeenInv /\ [Next]_vars => SeenInv'
<1> SUFFICES ASSUME PassInv, SeenInv, [Next]_vars PROVE SeenInv'
  OBVIOUS
<1>0. TypeInv /\ CopyInv /\ DecisionInv
  BY DEF PassInv
<1>1. CASE UNCHANGED vars
  BY <1>1 DEF SeenInv, LockedDisabled, UnlockedEnabled, vars, kubeVars, sysVars, localVars
<1>2. CASE Next
  <2>1. pc' \in Existing /\ LockedDisabled(seen') => ~UnlockedEnabled(host')
    <3> SUFFICES ASSUME pc' \in Existing, LockedDisabled(seen'), UnlockedEnabled(host')
                 PROVE  FALSE
      OBVIOUS
    <3>1. seen' # host'
      BY DEF LockedDisabled, UnlockedEnabled
    <3>2. pc \in Existing /\ UNCHANGED seen
      BY <1>0, <1>2, <3>1, HostKnown
    <3>3. UnlockedEnabled(host)
      BY <1>2, <3>2, NotEnabledMeanwhile DEF Existing
    <3> QED
      BY <3>2, <3>3 DEF SeenInv, LockedDisabled
  <2>2. pc' \in Compared /\ LockedDisabled(seen') => ~UnlockedEnabled(snap')
    <3> SUFFICES ASSUME pc' \in Compared, LockedDisabled(seen'), UnlockedEnabled(snap')
                 PROVE  FALSE
      OBVIOUS
    <3>1. pc' \in Existing
      BY DEF Existing, Compared
    <3>2. CASE PopulateHostInfo /\ snap' = host /\ host' = host
      BY <2>1, <3>1, <3>2
    <3>3. CASE pc \in Compared /\ UNCHANGED snap
      <4>1. pc \in Existing /\ ~GetHost /\ ~ReconcileNewHost
        BY <3>3, Flow DEF Existing, Compared
      <4>2. UNCHANGED seen
        BY <1>0, <1>2, <3>1, <4>1, HostKnown
      <4> QED
        BY <3>3, <4>2 DEF SeenInv, LockedDisabled, UnlockedEnabled
    <3> QED
      BY <1>0, <1>2, <3>1, <3>2, <3>3, HostKnown
  <2>3. pc' = "status" /\ fresh' /\ err' = "none" /\ copy'.strategy = "lock_required"
        => ~LockedDisabled(seen')
    <3> SUFFICES ASSUME pc' = "status", fresh', err' = "none",
                        copy'.strategy = "lock_required"
                 PROVE  ~LockedDisabled(seen')
      OBVIOUS
    <3>1. CASE Outside
      <4>1. UNCHANGED <<pc, copy, seen, err>> /\ fresh
        BY <1>0, <3>1, OutsideShape, OutsideWakes
      <4> QED
        BY <4>1 DEF SeenInv, LockedDisabled
    <3>2. CASE Restart
      BY <3>2 DEF Restart, Return
    <3>3. CASE Reconcile
      <4>1. [copy EXCEPT !.strategy = "unlock_required"].strategy # "lock_required"
        BY <1>0 DEF TypeInv, PassTyped, Objects
      <4>3. pc = "strategy"
        BY <1>0, <3>3, <4>1, StatusEntered DEF StrategyRequired
      <4>4. UnlockedEnabled(snap) /\ pc \in Compared /\ pc \in Existing /\ ~GetHost
            /\ ~ReconcileNewHost
        BY <1>0, <4>3, Flow DEF DecisionInv, Compared, Existing
      <4>5. UNCHANGED seen
        BY <1>0, <1>2, <4>4, HostKnown DEF Existing
      <4> QED
        BY <4>4, <4>5 DEF SeenInv, LockedDisabled
    <3> QED
      BY <1>2, <3>1, <3>2, <3>3, NextCases
  <2> QED
    BY <2>1, <2>2, <2>3 DEF SeenInv, LockedDisabled, UnlockedEnabled
<1> QED
  BY <1>1, <1>2

LEMMA StepScope ==
  ASSUME TypeInv, CopyInv, GenInv, UnlockInv, Next
  PROVE  ScopeOK(obj)' /\ (pc' = "status" /\ fresh' => ScopeOK(copy)')
<1>0. /\ obj \in Objects /\ copy \in Objects
      /\ obj.gen \in Nat /\ obj.observed \in Nat /\ obj.observed \leq obj.gen
      /\ ScopeOK(obj) /\ (pc = "status" /\ fresh => ScopeOK(copy))
  BY DEF TypeInv, PassTyped, Objects, GenInv, UnlockInv
<1>c. pc \notin {"idle", "status"} =>
        /\ copy.scope = obj.scope /\ copy.observed = obj.observed
        /\ fresh => copy.gen = obj.gen /\ copy.asked = obj.asked
        /\ copy.strategy = obj.strategy
  BY DEF CopyInv, SameStatus, SameBody
<1>1. ScopeOK(obj)'
  <2>1. CASE UNCHANGED obj
    BY <1>0, <2>1 DEF ScopeOK
  <2>2. CASE UserSteps \/ Annotated
    BY <1>0, <2>2 DEF UserSteps, Annotated, SameStatus, SameConfig, SameAge, ScopeOK
  <2>3. CASE ScopeStep
    BY <2>3 DEF ScopeStep, SameAge, ScopeOK
  <2>4. CASE UpdateConfigStatus /\ obj' = Observe(obj)
    <3>1. /\ obj'.scope = obj.scope /\ obj'.asked = obj.asked /\ obj'.gen = obj.gen
      BY <1>0, <2>4, ObservedFields
    <3>2. /\ obj'.strategy \in {obj.strategy, "not_required"}
          /\ obj.observed # obj.gen => obj'.strategy = "not_required"
      BY <2>4, ObservedEffect
    <3> QED
      BY <1>0, <3>1, <3>2 DEF ScopeOK
  <2>5. CASE Saved
    <3>1. SameAge(obj', obj) /\ obj'.scope = obj.scope
      BY <2>5 DEF Saved
    <3>2. CASE obj'.strategy = obj.strategy
      BY <1>0, <3>1, <3>2 DEF ScopeOK, SameAge
    <3>3. CASE RequireLock \/ RequireUnlock
      <4>1. obj'.strategy \in {obj.strategy, "not_required"} \/ Principal \/ StrategyRequired
        BY <2>5, <3>3, Flow DEF Saved, SameConfig
      <4>2. CASE Principal
        BY <1>c, <3>1, <3>3, <4>2, Flow DEF Principal, ScopeOK
      <4>3. CASE StrategyRequired
        BY <1>0, <1>c, <3>1, <3>3, <4>3, Flow DEF StrategyRequired, ScopeOK, SameAge
      <4>4. CASE obj'.strategy \in {obj.strategy, "not_required"}
        BY <1>0, <3>1, <4>4 DEF ScopeOK, SameAge
      <4> QED
        BY <4>1, <4>2, <4>3, <4>4
    <3>4. CASE StatusUpdate /\ fresh /\ obj' = Settled(copy, err = "none")
      <4>1. pc = "status" /\ ScopeOK(copy)
        BY <1>0, <3>4, Flow
      <4>2. /\ SameAge(obj', copy) /\ obj'.scope = copy.scope
            /\ copy.strategy = "not_required" => obj'.strategy = "not_required"
        BY <1>0, <3>4, SettledFields
      <4> QED
        BY <4>1, <4>2 DEF ScopeOK, SameAge
    <3> QED
      BY <2>5, <3>2, <3>3, <3>4 DEF Saved, SameConfig
  <2> QED
    BY <2>1, <2>2, <2>3, <2>4, <2>5, ObjectSteps
<1>2. ASSUME pc' = "status", fresh' PROVE ScopeOK(copy)'
  <2>1. CASE Outside
    BY <1>0, <1>2, <2>1, OutsideShape, OutsideWakes DEF ScopeOK
  <2>2. CASE Restart
    BY <1>2, <2>2 DEF Restart, Return
  <2>3. CASE Reconcile
    <3>0. fresh /\ pc \notin {"idle", "status"}
      BY <1>2, <2>3, StatusEntered
    <3>1. /\ copy.scope = obj.scope /\ copy.observed = obj.observed
          /\ copy.gen = obj.gen /\ copy.asked = obj.asked /\ copy.strategy = obj.strategy
          /\ ScopeOK(copy)
      BY <1>0, <1>c, <3>0 DEF ScopeOK
    <3>2. CASE copy' = obj'
      BY <1>1, <3>2 DEF ScopeOK
    <3>3. CASE UNCHANGED copy
      BY <3>1, <3>3 DEF ScopeOK
    <3>4. CASE copy' = [copy EXCEPT !.defaults = snap.oos]
      <4>1. /\ copy'.scope = copy.scope /\ copy'.observed = copy.observed
            /\ copy'.gen = copy.gen /\ copy'.asked = copy.asked /\ copy'.strategy = copy.strategy
        BY <1>0, <3>4 DEF Objects
      <4> QED
        BY <3>1, <4>1 DEF ScopeOK
    <3>5. ASSUME NEW value, copy' = [copy EXCEPT !.strategy = value],
                 value = "not_required" \/ Principal \/ StrategyRequired
          PROVE  ScopeOK(copy)'
      <4>1. /\ copy'.scope = copy.scope /\ copy'.observed = copy.observed
            /\ copy'.gen = copy.gen /\ copy'.asked = copy.asked /\ copy'.strategy = value
        BY <1>0, <3>5 DEF Objects
      <4> QED
        BY <3>1, <3>5, <4>1 DEF ScopeOK, Principal, StrategyRequired
    <3> QED
      BY <1>2, <2>3, <3>2, <3>3, <3>4, <3>5, StatusEntered
  <2> QED
    BY <2>1, <2>2, <2>3, NextCases
<1> QED
  BY <1>1, <1>2

RequestInv == PassInv /\ GenInv /\ ProfileInv /\ KnownInv /\ SeenInv /\ UnlockInv

\* A pass that has something to do about a required strategy works on what is asked for.
LEMMA AsksForWanted ==
  ASSUME RequestInv, Current(obj), obj.scope = "principal", pc \in Working, StrategyRequired
  PROVE  profile = chain.want
BY DEF RequestInv, PassInv, ProfileInv, Working, StrategyRequired, CopyInv, Existing

\* The object: what it says of an unlock is true.
LEMMA StepUnlockable ==
  ASSUME RequestInv, Next, Unlockable(obj)'
  PROVE  Fits(obj)'
<1>0. /\ TypeInv /\ CopyInv /\ DecisionInv /\ IdsInv /\ GenInv /\ PassInv
      /\ obj \in Objects /\ copy \in Objects /\ host \in Hosts
      /\ Unlockable(obj) => Fits(obj)
  BY DEF RequestInv, PassInv, TypeInv, EnvTyped, PassTyped, UnlockInv
<1>1. /\ obj'.strategy = "unlock_required" /\ obj'.scope = "principal" /\ Current(obj)'
      /\ obj'.life = "live" /\ NotLost'
  BY DEF Unlockable
<1>2. /\ obj.life = "live" /\ NotLost
      /\ host.id # 0 => /\ host'.oos = host.oos \/ ReconcileDisabledHost
                        /\ host'.nets = host.nets \/ AssignAdminNetwork
                                                  \/ ReconcileDisabledHost
  BY <1>0, <1>1, HostStays, LifeKept
<1>k. /\ pc \in Compared => host.oos = snap.oos
      /\ pc \in {"final", "unlockRequired"}
         => host.oos = Effective(copy) /\ host.nets = profile.nets
      /\ host.id = 0 => obj.strategy = "not_required"
  BY <1>2 DEF RequestInv, KnownInv
<1>3. CASE UpdateConfigStatus /\ obj' = Observe(obj)
  <2>1. obj.scope = "principal"
    BY <1>0, <1>1, <1>3, ObservedFields
  <2>3. UNCHANGED chain /\ UNCHANGED host
    BY <1>0, <1>3, ChainKept DEF Reconcile, UpdateConfigStatus, sysVars
  <2>2. Current(obj) /\ obj' = obj
    BY <1>0, <1>1, <1>3, <2>1, <2>3, ObservedEffect DEF Current
  <2> QED
    BY <1>0, <1>1, <1>2, <2>1, <2>2, <2>3 DEF Unlockable, Fits
<1>4. CASE ~(UpdateConfigStatus /\ obj' = Observe(obj))
  <2>1. Current(obj) /\ UNCHANGED chain /\ ~UserSteps
    BY <1>0, <1>1, <1>4, CurrentKept
  <2>2. CASE ScopeStep
    <3>1. UNCHANGED host /\ SameConfig(obj', obj)
      BY <2>2 DEF ScopeStep, UpdateDeploymentScope, sysVars
    <3>2. obj.scope = "principal"
      <4>1. obj.scope \in {"bootstrap", "principal"} /\ obj.asked = "principal"
        BY <1>0, <1>1, <2>2 DEF Objects, ScopeStep
      <4>2. ScopeOK(obj)
        BY DEF RequestInv, UnlockInv
      <4> QED
        BY <1>1, <2>1, <3>1, <4>1, <4>2 DEF ScopeOK, Current, SameConfig
    <3> QED
      BY <1>0, <1>1, <1>2, <2>1, <3>1, <3>2 DEF Unlockable, Fits, SameConfig
  <2>3. CASE SameConfig(obj', obj) /\ obj'.scope = obj.scope
    <3>1. Unlockable(obj) /\ Fits(obj) /\ obj'.defaults = obj.defaults
      BY <1>0, <1>1, <1>2, <2>1, <2>3 DEF Unlockable, SameConfig
    <3>2. CASE host'.oos = host.oos /\ host'.nets = host.nets
      BY <2>1, <3>1, <3>2 DEF Fits
    <3>3. CASE ReconcileDisabledHost /\ host' # host
      <4>1. host' = [host EXCEPT !.oos = Effective(copy), !.nets = profile.nets,
                                 !.routes = profile.routes]
        BY <3>3 DEF ReconcileDisabledHost, Request
      <4>2. host'.oos = Effective(copy) /\ host'.nets = profile.nets
        BY <1>0, <4>1 DEF Hosts
      <4>3. pc = "disabled" /\ copy.strategy = obj.strategy /\ copy.defaults = obj.defaults
        BY <1>0, <3>3, Flow DEF CopyInv
      <4>4. profile = chain.want
        BY <1>1, <2>1, <2>3, <3>1, <4>3, AsksForWanted
           DEF Working, Existing, StrategyRequired, Unlockable
      <4> QED
        BY <2>1, <3>1, <4>2, <4>3, <4>4 DEF Fits, Effective
    <3>4. CASE AssignAdminNetwork /\ host' # host
      <4>1. host' = [host EXCEPT !.nets = profile.nets]
        BY <3>4 DEF AssignAdminNetwork, Request
      <4>2. host'.oos = host.oos /\ host'.nets = profile.nets
        BY <1>0, <4>1 DEF Hosts
      <4>3. pc = "strategy" /\ copy.strategy = obj.strategy
        BY <1>0, <3>4, Flow DEF CopyInv
      <4>4. profile = chain.want
        BY <1>1, <2>1, <2>3, <3>1, <4>3, AsksForWanted
           DEF Working, Existing, StrategyRequired, Unlockable
      <4> QED
        BY <2>1, <3>1, <4>2, <4>4 DEF Fits
    <3> QED
      BY <1>2, <1>k, <3>1, <3>2, <3>3, <3>4 DEF Unlockable
  <2>4. CASE Saved /\ BuildHostDefaults /\ obj'.strategy = obj.strategy /\ obj'.defaults = snap.oos
    <3>1. obj.scope = "principal" /\ Fits(obj)
      BY <1>0, <1>1, <1>2, <2>1, <2>4 DEF Saved, Unlockable
    <3>2. UNCHANGED host /\ snap.oos = host.oos
      BY <1>k, <2>4, Flow DEF BuildHostDefaults, sysVars, Compared
    <3> QED
      BY <2>1, <2>4, <3>1, <3>2 DEF Fits
  <2>5. CASE /\ Saved /\ RequireUnlock /\ StrategyRequired /\ obj'.defaults = obj.defaults
    <3>1. pc = "unlockRequired" /\ obj.scope = "principal" /\ UNCHANGED host
      BY <1>1, <2>5, Flow DEF Saved, RequireUnlock, sysVars
    <3>2. profile = chain.want /\ copy.defaults = obj.defaults
      BY <1>0, <2>1, <2>5, <3>1, AsksForWanted DEF Working, Existing, CopyInv
    <3> QED
      BY <1>k, <2>1, <2>5, <3>1, <3>2 DEF Fits, Effective
  <2>6. CASE Saved /\ StatusUpdate /\ fresh /\ obj' = Settled(copy, err = "none")
    <3>1. pc = "status" /\ UNCHANGED host
      BY <2>6, Flow DEF StatusUpdate, sysVars
    <3>2. /\ copy.strategy = "unlock_required"
          /\ obj'.defaults \in {0, copy.defaults}
      <4>1. /\ \/ copy.strategy = "unlock_required"
               \/ /\ err = "none" /\ copy.strategy = "lock_required"
                  /\ LockedDisabled(seen)
            /\ obj'.defaults \in {0, copy.defaults}
        BY <1>0, <1>1, <2>6, SettledFields
      <4> QED
        BY <2>6, <3>1, <4>1 DEF RequestInv, SeenInv
    <3>3. copy.scope = "principal" /\ Current(copy) /\ copy.life = "live"
      BY <1>0, <1>1, <1>2, <2>1, <2>6, <3>1
         DEF CopyInv, SameStatus, SameBody, Current, Saved
    <3>4. Fits(copy)
      BY <1>2, <2>6, <3>1, <3>2, <3>3 DEF RequestInv, UnlockInv, Unlockable
    <3> QED
      BY <2>1, <3>1, <3>2, <3>4 DEF Fits
  <2>7. CASE Saved /\ RequireLock /\ obj'.strategy \in {"lock_required", "not_required"}
    BY <1>1, <2>7
  <2>8. CASE UNCHANGED obj \/ Annotated
    BY <2>3, <2>8 DEF SameConfig, Annotated, SameStatus
  <2> QED
    BY <1>0, <1>4, <2>1, <2>2, <2>3, <2>4, <2>5, <2>6, <2>7, <2>8, ObjectSteps DEF Saved
<1> QED
  BY <1>3, <1>4

\* The copy with which ReconcileExistingHost returns.
LEMMA StepFitting ==
  ASSUME RequestInv, Next, pc' = "status", fresh', Unlockable(copy)'
  PROVE  Fits(copy)'
<1>0. /\ TypeInv /\ CopyInv /\ DecisionInv /\ IdsInv /\ GenInv /\ PassInv
      /\ obj \in Objects /\ copy \in Objects /\ host \in Hosts
      /\ Unlockable(obj) => Fits(obj)
      /\ copy'.strategy = "unlock_required" /\ Current(copy)' /\ NotLost'
  BY DEF RequestInv, PassInv, TypeInv, EnvTyped, PassTyped, UnlockInv, Unlockable
<1>1. /\ Current(obj)' /\ obj'.scope = "principal" /\ obj'.life = "live"
  <2>1. CopyInv'
    BY <1>0, StepCopy
  <2> QED
    BY <2>1 DEF CopyInv, SameStatus, SameBody, Current, Unlockable
<1>2. /\ obj.life = "live" /\ NotLost
      /\ host.id # 0 => /\ host'.oos = host.oos \/ ReconcileDisabledHost
                        /\ host'.nets = host.nets \/ AssignAdminNetwork
                                                  \/ ReconcileDisabledHost
  BY <1>0, <1>1, HostStays, LifeKept
<1>k. /\ pc \in Existing => host.id # 0
      /\ pc \in Compared => host.oos = snap.oos
      /\ pc \in {"final", "unlockRequired"}
         => host.oos = Effective(copy) /\ host.nets = profile.nets
  BY <1>2 DEF RequestInv, KnownInv
<1>3. ~UpdateConfigStatus
  BY Flow
<1>4. Current(obj) /\ UNCHANGED chain /\ ~UserSteps
  BY <1>0, <1>1, <1>3, CurrentKept
<1>5. CASE Outside
  <2>1. UNCHANGED <<pc, copy, err>> /\ fresh
    BY <1>0, <1>5, OutsideShape, OutsideWakes
  <2>2. host'.oos = host.oos /\ host'.nets = host.nets
    BY <1>2, <1>k, <2>1, Flow DEF Existing
  <2>3. Unlockable(copy)
    BY <1>2, <1>4, <2>1 DEF Current, Unlockable
  <2>4. Fits(copy)
    BY <2>1, <2>3 DEF RequestInv, UnlockInv
  <2> QED
    BY <1>4, <2>1, <2>2, <2>4 DEF Fits
<1>6. CASE Reconcile
  <2>1. fresh /\ pc \notin {"idle", "status"}
    BY <1>0, <1>6, StatusEntered
  <2>2. copy.strategy = obj.strategy /\ copy.defaults = obj.defaults /\ obj.scope = copy.scope
    BY <1>0, <2>1 DEF CopyInv, SameStatus
  <2>3. CASE copy' = obj'
    <3>1. Unlockable(obj)'
      BY <1>0, <1>1, <2>3 DEF Unlockable
    <3> QED
      BY <2>3, <3>1, StepUnlockable DEF Fits
  <2>4. CASE UNCHANGED <<copy, obj>>
    <3>1. Unlockable(obj)'
      BY <1>0, <1>1, <2>2, <2>4 DEF Unlockable
    <3> QED
      BY <2>2, <2>4, <3>1, StepUnlockable DEF Fits
  <2>5. CASE /\ BuildHostDefaults /\ UNCHANGED obj /\ err' = "retry"
             /\ copy' = [copy EXCEPT !.defaults = snap.oos]
    <3>1. copy'.strategy = copy.strategy /\ copy'.defaults = snap.oos
      BY <1>0, <2>5 DEF Objects
    <3>2. UNCHANGED host /\ host.oos = snap.oos
      BY <1>k, <2>5, Flow DEF BuildHostDefaults, sysVars, Compared
    <3>3. Fits(obj)
      BY <1>0, <1>1, <1>2, <1>4, <2>2, <2>5, <3>1 DEF Unlockable
    <3> QED
      BY <1>4, <3>1, <3>2, <3>3 DEF Fits
  <2>6. CASE /\ RequireLock /\ UNCHANGED obj /\ err' = "retry"
             /\ \/ copy' = [copy EXCEPT !.strategy = "not_required"]
                \/ copy' = [copy EXCEPT !.strategy = "lock_required"]
    <3>1. copy'.strategy \in {"not_required", "lock_required"}
      BY <1>0, <2>6 DEF Objects
    <3> QED
      BY <1>0, <3>1
  <2>7. CASE /\ RequireUnlock /\ StrategyRequired /\ UNCHANGED obj
             /\ copy' = [copy EXCEPT !.strategy = "unlock_required"]
    <3>1. copy'.defaults = copy.defaults
      BY <1>0, <2>7 DEF Objects
    <3>2. pc = "unlockRequired" /\ UNCHANGED host
      BY <2>7, Flow DEF RequireUnlock, sysVars
    <3>3. profile = chain.want
      BY <1>1, <1>4, <2>7, <3>2, AsksForWanted DEF Working, Existing
    <3> QED
      BY <1>4, <1>k, <3>1, <3>2, <3>3 DEF Fits, Effective
  <2> QED
    BY <1>0, <1>6, <2>3, <2>4, <2>5, <2>6, <2>7, StatusEntered
<1>7. CASE Restart
  BY <1>7 DEF Restart, Return
<1> QED
  BY <1>5, <1>6, <1>7, NextCases

LEMMA StepUnlock == RequestInv /\ [Next]_vars => UnlockInv'
<1> SUFFICES ASSUME RequestInv, [Next]_vars PROVE UnlockInv'
  OBVIOUS
<1>1. CASE Next
  <2>1. ScopeOK(obj)' /\ (pc' = "status" /\ fresh' => ScopeOK(copy)')
    BY <1>1, StepScope DEF RequestInv, PassInv
  <2>2. Unlockable(obj)' => Fits(obj)'
    BY <1>1, StepUnlockable
  <2>3. pc' = "status" /\ fresh' /\ Unlockable(copy)' => Fits(copy)'
    BY <1>1, StepFitting
  <2> QED
    BY <2>1, <2>2, <2>3 DEF UnlockInv
<1>2. CASE UNCHANGED vars
  BY <1>2 DEF RequestInv, UnlockInv, ScopeOK, Unlockable, Fits, Current, NotLost, vars,
              kubeVars, profileVars, sysVars, localVars
<1> QED
  BY <1>1, <1>2

\* A host that the VIM unlocks in Day-2 operation has the out-of-service configuration
\* that was asked for, whatever the user changes in the object and in the profile it names,
\* the controller loses by a crash or a failed write, and the operator locks or unlocks
\* meanwhile: a new generation of the object or of this profile withdraws the request, and
\* what is saved was compared with what is asked for.  A change of a profile that this one
\* is based on, which has no generation that is compared, is excepted until the next change
\* of the object or of the profile, and so is a host that was added in place of a lost one.
THEOREM UnlockConfigured == Spec => []UnlockIsConfigured
<1> DEFINE Inv == WakesInv /\ CurrentInv /\ RequestInv
<1>1. Init => Inv
  <2> SUFFICES ASSUME Init PROVE Inv
    OBVIOUS
  <2>1. pc = "idle" /\ queued = TRUE /\ copy = obj
    BY DEF Init
  <2>2. PassInv /\ DeleteInv /\ WakeInv /\ NeverStranded
    BY <2>1, InitPass DEF DeleteInv, WakeInv, NeverStranded, AtRest
  <2>3. /\ obj.strategy = "not_required"
        /\ obj.observed \in {0, 1} /\ obj.observedProfile \in {0, 1} /\ obj.gen \in {1, 2}
        /\ obj.observed = 0 \/ obj.observedProfile = 0 => ~obj.reconciled
        /\ chain.gen = 1
    BY InitShape
  <2>4. GenInv
    BY <2>1, <2>3 DEF GenInv, Observed, Existing
  <2>5. CurrentInv /\ ProfileInv /\ KnownInv /\ SeenInv /\ UnlockInv
    BY <2>1, <2>3 DEF CurrentInv, Woken, ProfileInv, KnownInv, SeenInv, UnlockInv, ScopeOK,
                      Unlockable, Existing, Compared
  <2> QED
    BY <2>2, <2>4, <2>5 DEF WakesInv, RequestInv
<1>2. Inv /\ [Next]_vars => Inv'
  <2>1. WakesInv /\ [Next]_vars => WakesInv'
    BY StepPass, StepDelete, StepWake DEF WakesInv
  <2>2. WakesInv /\ CurrentInv /\ [Next]_vars => CurrentInv'
    BY StepCurrent DEF WakesInv, PassInv
  <2>3. RequestInv /\ [Next]_vars => RequestInv'
    BY StepPass, StepGen, StepProfile, StepKnown, StepSeen, StepUnlock
       DEF RequestInv, PassInv
  <2> QED
    BY <2>1, <2>2, <2>3
<1>3. Inv => UnlockIsConfigured
  BY DEF CurrentInv, Woken, RequestInv, UnlockInv, Unlockable, NotLost, Fits,
         UnlockIsConfigured
<1> QED
  BY <1>1, <1>2, <1>3, PTL DEF Spec
===============================================================================
