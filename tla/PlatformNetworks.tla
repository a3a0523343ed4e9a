--------------------------- MODULE PlatformNetworks ---------------------------
(***************************************************************************)
(* Platform networks and address pools (internal/controller/               *)
(* platformnetwork_controller.go, addresspool_controller.go and            *)
(* host/platformnetworks.go).                                              *)
(*                                                                         *)
(* The controllers of the two kinds of objects only notify the host of the *)
(* active controller that something changed; the Reconcile of that host    *)
(* brings all networks and pools to the system in one pass, and writes     *)
(* their status with copies it has read on the way.  A flag that is        *)
(* checked and set in two calls keeps notifications from that pass.        *)
(*                                                                         *)
(* Simplifications.  A pool's specification, and its value in the system,  *)
(* is one number; NoAddresses stands for one that lacks mandatory          *)
(* addresses, and NoGateway for one like WithGateway but for an optional   *)
(* one.  Names, identifiers and types do not change.  The type "cluster"   *)
(* is cluster-host, and "pods" stands for cluster-pod and cluster-service. *)
(* The pass is one Reconcile of the active host; the other steps of that   *)
(* Reconcile are in HostReconciler.  The delta in the status, a text for   *)
(* the user, is left out.                                                  *)
(***************************************************************************)
EXTENDS Naturals, Sequences, FiniteSets

CONSTANT Cases   \* systems, objects and what the user does with them

VARIABLES
  sx,        \* the system is AIO-SX
  host,      \* the active host: its scope, queued, and the controllers' strategies
  fam,       \* the address family of each pool
  net, pool, \* the objects
  sys,       \* the system: networks, pools and associations
  pn, ap,    \* the workers of the two controllers
  queue,     \* the objects in their work queues
  fresh,     \* <<w, x>>: worker w holds the latest version of object x
  notifying, \* NotifyActiveHostStatus
  pass,      \* ReconcilePlatformNetworks, in the host controller's worker
  later,     \* what the user, or the system, does yet
  faults     \* how many requests may still fail

objVars == <<net, pool, queue, fresh>>
vars == <<sx, host, fam, objVars, sys, pn, ap, notifying, pass, later, faults>>

WithGateway == 1
NoAddresses == 3
NoGateway == 4
Core == {"oam", "mgmt", "admin"}
Clusters == {"cluster", "pods"}
Types == Core \cup Clusters \cup {"pxeboot", "other"}
Validated == {"oam", "mgmt", "cluster", "pxeboot"}

\* What a request makes of the value v that a pool has, 0 if it is new: for an address
\* that the specification leaves out nothing is sent.
Sent(v, s) == IF s = NoGateway /\ v \notin {0, NoGateway} THEN WithGateway ELSE s

\* The value is what a request for this specification gives.
Matches(v, s) == v = s \/ (s = NoGateway /\ v = WithGateway)

NewNetwork(type, pools, asked) ==
  [life |-> "live", type |-> type, pools |-> pools, dyn |-> "static", asked |-> asked,
   scope |-> "bootstrap", gen |-> 1, observed |-> 0, fin |-> FALSE,
   reconciled |-> FALSE, inSync |-> FALSE]
NewPool(spec) ==
  [life |-> "live", spec |-> spec, gen |-> 1, observed |-> 0, fin |-> FALSE,
   reconciled |-> FALSE, inSync |-> FALSE]

-----------------------------------------------------------------------------
(* What a case is: values of the right types, and a system that has what   *)
(* the status of the objects says.                                         *)

Scopes == {"bootstrap", "principal"}
Lives == {"live", "deleting", "none"}
Dyns == {"static", "dynamic"}
NetworkType(ps) ==
  [life : Lives, type : Types, pools : Seq(ps), dyn : Dyns,
   asked : Scopes, scope : Scopes, gen : Nat, observed : Nat, fin : BOOLEAN,
   reconciled : BOOLEAN, inSync : BOOLEAN]
PoolType ==
  [life : Lives, spec : Nat \ {0}, gen : Nat, observed : Nat, fin : BOOLEAN,
   reconciled : BOOLEAN, inSync : BOOLEAN]
SystemType(ns, ps) ==
  [dyn : [ns -> Dyns \cup {"none"}], val : [ps -> Nat], full : [ps -> BOOLEAN],
   links : SUBSET (ns \X ps)]
ActType(ns, ps) ==
  [kind : {"pool"}, name : ps, value : Nat \ {0}] \cup [kind : {"pools"}, name : ns, value : Seq(ps)]
  \cup [kind : {"dyn"}, name : ns, value : Dyns] \cup [kind : {"scope"}, name : ns, value : Scopes]
  \cup [kind : {"deletePool", "loss"}, name : ps, value : {0}]
  \cup [kind : {"deleteNetwork"}, name : ns, value : {0}]

InSync(o) == o.inSync /\ o.reconciled
Seen(o) == InSync(o) /\ o.observed = o.gen

\* The system associates only networks that it has, with one pool of a family; a pool
\* that it does not have lacks nothing.  Names tell networks and pools apart.
ASSUME CasesAssumption ==
  \A c \in Cases :
    LET ns == DOMAIN c.net
        ps == DOMAIN c.pool IN
    /\ IsFiniteSet(ns) /\ IsFiniteSet(ps) /\ ns \cap ps = {}
    /\ c.sx \in BOOLEAN /\ c.scope \in Scopes /\ c.fam \in [ps -> {4, 6}]
    /\ c.net \in [ns -> NetworkType(ps)] /\ c.pool \in [ps -> PoolType]
    /\ c.sys \in SystemType(ns, ps)
    /\ c.later \in Seq(ActType(ns, ps)) /\ c.faults \in Nat
    /\ \A l \in c.sys.links : c.sys.dyn[l[1]] # "none"
    /\ \A k, l \in c.sys.links : k[1] = l[1] /\ c.fam[k[2]] = c.fam[l[2]] => k = l
    /\ \A p \in ps : /\ c.sys.val[p] = 0 => c.sys.full[p]
                     /\ c.pool[p].observed <= c.pool[p].gen
                     /\ Seen(c.pool[p]) => ~c.sys.full[p] \/ Matches(c.sys.val[p], c.pool[p].spec)
    /\ \A n \in ns : /\ c.net[n].observed <= c.net[n].gen
                     /\ Seen(c.net[n]) /\ c.net[n].type # "other"
                        => c.sys.dyn[n] = c.net[n].dyn

-----------------------------------------------------------------------------
\* A worker: where it is, the object at hand, and what its copy of it tells: that the
\* host must be notified, or that the object is to be deleted.
NoWork == [pc |-> "idle", name |-> "none", due |-> FALSE, deleting |-> FALSE]

\* An object that is written is offered to its controller.  (Where there is nothing
\* to do the controller would only set the flag and clear it again.)
NothingToDo(o) == o.life = "live" /\ o.fin /\ o.observed = o.gen

Init ==
  \E c \in Cases :
    /\ sx = c.sx /\ fam = c.fam /\ net = c.net /\ pool = c.pool /\ sys = c.sys
    /\ host = [scope |-> c.scope, queued |-> FALSE, locked |-> FALSE,
               active |-> "not_required", standby |-> "not_required"]
    /\ pn = NoWork /\ ap = NoWork
    /\ queue = {x \in DOMAIN c.net : ~NothingToDo(c.net[x])}
               \cup {x \in DOMAIN c.pool : ~NothingToDo(c.pool[x])}
    /\ notifying = FALSE /\ fresh = {}
    /\ pass = [pc |-> "idle", todo |-> <<>>, ps |-> <<>>, cn |-> <<>>, cp |-> <<>>,
               scopes |-> [n \in DOMAIN c.net |-> c.net[n].scope],
               expected |-> FALSE, ok |-> FALSE, wait |-> FALSE, errs |-> FALSE]
    /\ later = c.later /\ faults = c.faults

NoFault == UNCHANGED faults
Fault == faults > 0 /\ faults' = faults - 1

\* The copies that remain the latest when w writes object x.
Others(w, x) == {f \in fresh : f[2] # x \/ f[1] = w}

WriteNet(w, n, new) ==
  /\ net' = [net EXCEPT ![n] = new]
  /\ queue' = IF NothingToDo(new) /\ new.scope = new.asked THEN queue ELSE queue \cup {n}
  /\ fresh' = IF new = net[n] THEN fresh ELSE Others(w, n)
WritePool(w, p, new) ==
  /\ pool' = [pool EXCEPT ![p] = new]
  /\ queue' = IF NothingToDo(new) THEN queue ELSE queue \cup {p}
  /\ fresh' = IF new = pool[p] THEN fresh ELSE Others(w, p)

Fresh(w, x) == <<w, x>> \in fresh

-----------------------------------------------------------------------------
(* PlatformNetworkReconciler.                                              *)

UpdateDeploymentScope(o) == [o EXCEPT !.scope = o.asked]

\* A new generation resets Reconciled, except after an upgrade.
UpdateConfigStatus(o) ==
  IF o.observed = o.gen \/ (o.observed = 0 /\ o.reconciled) THEN o
  ELSE [o EXCEPT !.reconciled = FALSE]

\* Reconcile, up to the check of the flag: scope and status are written, then the
\* finalizer.  If the flag is set the object is offered again.
FetchNetwork ==
  /\ pn.pc = "idle"
  /\ \E n \in queue \cap DOMAIN net :
       LET o == net[n]
           new == UpdateConfigStatus(UpdateDeploymentScope(o)) IN
       CASE o.life = "none" -> queue' = queue \ {n} /\ UNCHANGED <<net, fresh, pn>>
         [] o.life = "live" /\ ~o.fin ->
              WriteNet("pn", n, [new EXCEPT !.fin = TRUE]) /\ UNCHANGED pn
         [] OTHER ->
              /\ net' = [net EXCEPT ![n] = new]
              /\ LET rest == IF new = o THEN fresh ELSE Others("pn", n) IN
                 IF notifying THEN fresh' = rest /\ UNCHANGED <<queue, pn>>
                 ELSE /\ queue' = queue \ {n} /\ fresh' = rest \cup {<<"pn", n>>}
                      /\ pn' = [pc |-> "notify", name |-> n, deleting |-> o.life = "deleting",
                                due |-> /\ o.life = "live"
                                        /\ new.observed # new.gen \/ o.scope # o.asked]
  /\ UNCHANGED <<sx, host, fam, pool, sys, ap, notifying, pass, later, faults>>

\* SetNotifyingActiveHost and NotifyResource; an object that is to be deleted loses
\* its finalizer.
NotifyNetwork ==
  /\ pn.pc = "notify"
  /\ notifying' = TRUE
  /\ \/ /\ NoFault
        /\ host' = [host EXCEPT !.queued = @ \/ pn.due]
        /\ pn' = [pn EXCEPT !.pc = IF pn.due THEN "save" ELSE "clear"]
        /\ CASE ~pn.deleting -> UNCHANGED <<net, queue, fresh>>
             [] pn.deleting /\ Fresh("pn", pn.name) ->
                  WriteNet("pn", pn.name, [net[pn.name] EXCEPT !.life = "none"])
             [] OTHER -> queue' = queue \cup {pn.name} /\ UNCHANGED <<net, fresh>>
     \/ /\ Fault /\ pn.due
        /\ pn' = [pn EXCEPT !.pc = "clear"] /\ queue' = queue \cup {pn.name}
        /\ UNCHANGED <<host, net, fresh>>
  /\ UNCHANGED <<sx, fam, pool, sys, ap, pass, later>>

\* ObservedGeneration is saved; on a conflict the object is offered again.  Then
\* the flag is cleared, whoever has set it.
SaveNetwork ==
  /\ pn.pc \in {"save", "clear"}
  /\ LET n == pn.name
         saved == pn.pc = "save" /\ Fresh("pn", n) IN
       /\ net' = IF saved THEN [net EXCEPT ![n].observed = net[n].gen] ELSE net
       /\ queue' = IF pn.pc = "save" /\ ~saved THEN queue \cup {n} ELSE queue
       /\ fresh' = {f \in fresh : f[1] # "pn" /\ (saved => f[2] # n)}
  /\ notifying' = FALSE /\ pn' = NoWork
  /\ UNCHANGED <<sx, host, fam, pool, sys, ap, pass, later, faults>>

-----------------------------------------------------------------------------
(* AddressPoolReconciler.                                                  *)

\* Fetch, the finalizer and the check of the flag.
FetchPool ==
  /\ ap.pc = "idle"
  /\ \E p \in queue \cap DOMAIN pool :
       LET o == pool[p] IN
       CASE o.life = "none" -> queue' = queue \ {p} /\ UNCHANGED <<pool, fresh, ap>>
         [] o.life = "live" /\ ~o.fin ->
              WritePool("ap", p, [o EXCEPT !.fin = TRUE]) /\ UNCHANGED ap
         [] OTHER ->
              /\ ~notifying
              /\ ap' = [pc |-> "reset", name |-> p, deleting |-> o.life = "deleting",
                        due |-> o.life = "live" /\ o.observed # o.gen]
              /\ fresh' = fresh \cup {<<"ap", p>>}
              /\ queue' = queue \ {p} /\ UNCHANGED pool
  /\ UNCHANGED <<sx, host, fam, net, sys, pn, notifying, pass, later, faults>>

\* The flag, and the reset of Reconciled for a new generation, or of the finalizer.
ResetPool ==
  /\ ap.pc = "reset"
  /\ notifying' = TRUE
  /\ LET p == ap.name
         write == ap.deleting \/ (ap.due /\ pool[p].reconciled)
         new == IF ap.deleting THEN [pool[p] EXCEPT !.life = "none"]
                ELSE [pool[p] EXCEPT !.reconciled = FALSE] IN
       \/ /\ write => Fresh("ap", p)
          /\ IF write THEN WritePool("ap", p, new) ELSE UNCHANGED <<pool, queue, fresh>>
          /\ ap' = [ap EXCEPT !.pc = IF ap.due THEN "notify" ELSE "clear"]
       \/ /\ write /\ ~Fresh("ap", p)
          /\ ap' = [ap EXCEPT !.pc = "clear"] /\ queue' = queue \cup {p}
          /\ UNCHANGED <<pool, fresh>>
  /\ UNCHANGED <<sx, host, fam, net, sys, pn, pass, later, faults>>

NotifyPool ==
  /\ ap.pc = "notify"
  /\ \/ NoFault /\ host' = [host EXCEPT !.queued = TRUE] /\ ap' = [ap EXCEPT !.pc = "save"]
        /\ UNCHANGED queue
     \/ Fault /\ ap' = [ap EXCEPT !.pc = "clear"] /\ queue' = queue \cup {ap.name}
        /\ UNCHANGED host
  /\ UNCHANGED <<sx, fam, net, pool, fresh, sys, pn, notifying, pass, later>>

SavePool ==
  /\ ap.pc \in {"save", "clear"}
  /\ LET p == ap.name
         saved == ap.pc = "save" /\ Fresh("ap", p) IN
       /\ pool' = IF saved THEN [pool EXCEPT ![p].observed = pool[p].gen] ELSE pool
       /\ queue' = IF ap.pc = "save" /\ ~saved THEN queue \cup {p} ELSE queue
       /\ fresh' = {f \in fresh : f[1] # "ap" /\ (saved => f[2] # p)}
  /\ notifying' = FALSE /\ ap' = NoWork
  /\ UNCHANGED <<sx, host, fam, net, sys, pn, pass, later, faults>>

-----------------------------------------------------------------------------
(* The pass: ReconcilePlatformNetworks in the Reconcile of the active host. *)

Live(objs) == {x \in DOMAIN objs : objs[x].life # "none"}

PlatformNetworkUpdateRequired ==
  \E n \in Live(net) : \/ ~InSync(net[n])
                       \/ \E i \in DOMAIN net[n].pools :
                            net[n].pools[i] \in Live(pool) /\ ~InSync(pool[net[n].pools[i]])

\* The host is in scope bootstrap and done, or its networks are listed.  If all are in
\* sync, but a pool is missing, Reconcile fails and is tried again.
PoolsMissing ==
  \E n \in Live(net) : \E i \in DOMAIN net[n].pools : net[n].pools[i] \notin Live(pool)
StartPass ==
  /\ pass.pc = "idle" /\ host.queued
  /\ PlatformNetworkUpdateRequired \/ ~PoolsMissing
  /\ host' = [host EXCEPT !.queued = FALSE]
  /\ \/ /\ host.scope = "bootstrap" /\ ~PlatformNetworkUpdateRequired
        /\ UNCHANGED <<pass, notifying, fresh>>
     \/ /\ host.scope = "principal" \/ PlatformNetworkUpdateRequired
        /\ notifying' = TRUE
        /\ \E s \in [1..Cardinality(Live(net)) -> Live(net)] :
             /\ \A i, j \in DOMAIN s : s[i] = s[j] => i = j
             /\ pass' = [pass EXCEPT !.pc = "network", !.todo = s,
                          !.cn = [n \in DOMAIN net |->
                                   [type |-> net[n].type, pools |-> net[n].pools,
                                    dyn |-> net[n].dyn, scope |-> net[n].scope]]]
        /\ fresh' = fresh \cup {<<"pass", n>> : n \in Live(net)}
  /\ UNCHANGED <<sx, fam, net, pool, queue, sys, pn, ap, later, faults>>

N == Head(pass.todo)
P == Head(pass.ps)
CN == pass.cn[N]
CP == pass.cp[P]

\* The pass ends: with a monitor, or with errors and a retry.
EndPass ==
  /\ pass.pc = "network" /\ (pass.todo = <<>> \/ pass.wait)
  /\ notifying' = FALSE /\ fresh' = {f \in fresh : f[1] # "pass"}
  /\ host' = [host EXCEPT !.queued = @ \/ (pass.errs /\ ~pass.wait)]
  /\ pass' = [pass EXCEPT !.pc = "idle", !.todo = <<>>, !.ps = <<>>, !.cn = <<>>, !.cp = <<>>,
                          !.errs = FALSE, !.wait = FALSE, !.expected = FALSE, !.ok = FALSE,
                          !.scopes = [n \in DOMAIN net |-> pass.cn[n].scope]]
  /\ UNCHANGED <<sx, fam, net, pool, queue, sys, pn, ap, later, faults>>

\* The pools of the next network are fetched: ps has those that exist, in their order.
NextNetwork ==
  /\ pass.pc = "network" /\ pass.todo # <<>> /\ ~pass.wait
  /\ LET exist == {i \in DOMAIN CN.pools : pool[CN.pools[i]].life # "none"} IN
     \E f \in [1..Cardinality(exist) -> exist] :
       LET ps == [i \in DOMAIN f |-> CN.pools[f[i]]] IN
       /\ \A i, j \in DOMAIN f : i < j => f[i] < f[j]
       /\ pass' = [pass EXCEPT !.cp = [p \in {ps[i] : i \in DOMAIN ps} |-> pool[p].spec],
                               !.ps = ps, !.errs = @ \/ ps # CN.pools,
                               !.pc = IF ps = <<>> THEN "network" ELSE "route",
                               !.todo = IF ps = <<>> THEN Tail(@) ELSE @]
       /\ fresh' = fresh \cup {<<"pass", ps[i]>> : i \in DOMAIN ps}
  /\ UNCHANGED <<sx, host, fam, net, pool, queue, sys, pn, ap, notifying, later, faults>>

\* Mutant of NextPool: an error counts only when it is the last.
NextPoolForgetting(errs) ==
  pass' = [pass EXCEPT !.errs = errs, !.wait = @ /\ ~errs, !.ps = Tail(@),
                      !.pc = IF Len(pass.ps) = 1 THEN "network" ELSE "route",
                      !.todo = IF Len(pass.ps) = 1 THEN Tail(@) ELSE @]

\* To the next pool of the network, or to the next network.
NextPool(errs) ==
  pass' = [pass EXCEPT !.errs = @ \/ errs, !.wait = @ /\ ~errs, !.ps = Tail(@),
                      !.pc = IF Len(pass.ps) = 1 \/ (pass.wait /\ ~errs) THEN "network"
                             ELSE "route",
                      !.todo = IF Len(pass.ps) = 1 THEN Tail(@) ELSE @]

IsAddrPoolUpdateRequired == sys.val[P] # CP \/ ~sys.full[P]
IsNetworkUpdateRequired == sys.dyn[N] # CN.dyn
\* A pool of this type of network, with this specification and family.
ValidPool(type, spec, family) ==
  /\ type \in Validated => spec # NoAddresses
  /\ type = "oam" => spec # NoGateway
  /\ ~(type = "pxeboot" /\ family = 6)
ValidateAddressPool == ValidPool(CN.type, CP, fam[P])

Associated(n, p) == {q \in DOMAIN fam : <<n, q>> \in sys.links /\ fam[q] = fam[p]}
IsReconfiguration == Associated(N, P) # {}
isAddrPoolIncomplete(p) == sys.val[p] # 0 /\ ~sys.full[p]

\* ReconcileOtherPlatformNetworksExpected: what is there stays.
OtherPoolExpected == CN.type = "other" \/ ~IsReconfiguration \/ isAddrPoolIncomplete(P)

\* Mutant of PoolExpected: core networks are reconfigured in any scope.
PoolExpectedInAnyScope ==
  IF CN.type \in Core THEN ~(~sx /\ CN.type = "mgmt" /\ IsReconfiguration)
  ELSE OtherPoolExpected

\* ReconcilePlatformNetworkExpected, for a pool and for a network.
PoolExpected ==
  IF CN.type \in Core
  THEN CN.scope = "principal" /\ ~(~sx /\ CN.type = "mgmt" /\ IsReconfiguration)
  ELSE OtherPoolExpected
NetworkExpected == IF CN.type \in Core THEN CN.scope = "principal" ELSE sys.dyn[N] = "none"

Required == IsAddrPoolUpdateRequired /\ ValidateAddressPool

\* The step that a pool takes next: "pool" is ReconcileNetworkAndAddressPools.  On
\* AIO-SX the management network is reconfigured on a locked host.
MgmtPrincipalSimplex == IF host.locked THEN "pool" ELSE "lock"
PrincipalSimplex ==
  IF CN.type # "mgmt" THEN "pool" ELSE IF Required THEN MgmtPrincipalSimplex ELSE "next"

\* On other systems a change is applied with the next unlock of the controllers.
MultinodesOAM == IF Required THEN "lockActive" ELSE "next"
MultinodesMgmt ==
  IF IsReconfiguration THEN "pool" ELSE IF Required THEN "lockActive" ELSE "next"
Multinodes ==
  CASE CN.type = "oam" -> MultinodesOAM
    [] CN.type = "mgmt" -> MultinodesMgmt
    [] OTHER -> "pool"

\* ReconcilePlatformNetworkAndAddrPoolResource
Route ==
  CASE CN.scope = "bootstrap" -> "pool"
    [] CN.scope = "principal" -> IF sx THEN PrincipalSimplex ELSE Multinodes

At(step) == pass.pc = step \/ (pass.pc = "route" /\ Route = step)

SkipPool ==
  /\ At("next") /\ NextPool(FALSE)
  /\ UNCHANGED <<sx, host, fam, objVars, sys, pn, ap, notifying, later, faults>>

\* LockHostRequestByOtherController; on AIO-SX the pass ends and waits for the
\* lock, on other systems it waits afterwards.  The requirement is reported to the
\* strategy manager before the status is saved, except for OAM's standby controller,
\* which for mgmt stands for all the other hosts.
LockHostRequest ==
  /\ At("lock") \/ At("lockActive") \/ At("lockStandby")
  /\ LET c == IF At("lockStandby") THEN "standby" ELSE "active" IN
       \/ /\ NoFault /\ host' = [host EXCEPT ![c] = "lock_required"]
          /\ pass' = CASE At("lock") -> [pass EXCEPT !.wait = TRUE, !.pc = "network"]
                       [] At("lockActive") -> [pass EXCEPT !.pc = "lockStandby"]
                       [] OTHER -> [pass EXCEPT !.wait = TRUE, !.pc = "pool"]
       \/ /\ Fault /\ NextPool(TRUE)
          /\ host' = IF c = "standby" /\ CN.type = "oam" THEN host
                     ELSE [host EXCEPT ![c] = "lock_required"]
  /\ UNCHANGED <<sx, fam, objVars, sys, pn, ap, notifying, later>>

\* Mutant of SecondaryTooEarly: the OAM network's specification is enough.
SecondaryWithSpec ==
  /\ CN.type \in Clusters /\ Len(CN.pools) = 2
  /\ ~\E n \in Live(net) : net[n].type = "oam" /\ Len(net[n].pools) = 2

\* "Secondary stacks for cluster-* should always be configured after making sure
\* OAM dual-stack is configured."
OAMPools == {l \in sys.links : net[l[1]].type = "oam"}
SecondaryTooEarly ==
  CN.type \in Clusters /\ Len(CN.pools) = 2 /\ Cardinality(OAMPools) # 2

\* UpdateAddrPoolReconciliationStatus, UpdateNetworkReconciliationStatus.
Status(o, ok, expected) ==
  [o EXCEPT !.inSync = ok, !.reconciled = ok \/ (CN.scope = "bootstrap" /\ ~expected)]

\* Mutant of SavePoolStatus: the status is written into the object as it is now.
OverwritePoolStatus(ok) == WritePool("pass", P, Status(pool[P], ok, PoolExpected))

\* Only into the object that was read.
SavePoolStatus(ok) ==
  Fresh("pass", P) /\ WritePool("pass", P, Status(pool[P], ok, PoolExpected))

SetPool == [sys EXCEPT !.val[P] = Sent(sys.val[P], CP), !.full[P] = TRUE]

\* ReconcileAddrPoolResource and the pool's status.
ReconcileAddrPoolResource ==
  /\ At("pool")
  /\ LET write == PoolExpected /\ Required
         ok == write \/ ~IsAddrPoolUpdateRequired IN
       \/ SecondaryTooEarly /\ NoFault /\ NextPool(TRUE)
          /\ UNCHANGED <<sys, pool, queue, fresh>>
       \/ /\ ~SecondaryTooEarly /\ NoFault
          /\ sys' = IF write THEN SetPool ELSE sys
          /\ \/ /\ SavePoolStatus(ok)
                /\ IF ok \/ ValidateAddressPool
                   THEN pass' = [pass EXCEPT !.pc = "net", !.expected = PoolExpected, !.ok = ok]
                   ELSE NextPool(FALSE)
             \/ ~Fresh("pass", P) /\ UNCHANGED <<pool, queue, fresh>> /\ NextPool(TRUE)
       \/ /\ ~SecondaryTooEarly /\ Fault /\ NextPool(TRUE)
          /\ sys' \in {sys} \cup (IF write THEN {SetPool} ELSE {})
          /\ SavePoolStatus(FALSE) \/ UNCHANGED <<pool, queue, fresh>>
  /\ UNCHANGED <<sx, host, fam, net, pn, ap, notifying, later>>

SaveNetworkStatus(ok, expected) ==
  Fresh("pass", N) /\ WriteNet("pass", N, Status(net[N], ok, expected))

\* A network is created with the first of its pools.
SetNetwork ==
  [sys EXCEPT !.dyn[N] = CN.dyn,
              !.links = IF sys.dyn[N] = "none" THEN @ \cup {<<N, CN.pools[1]>>} ELSE @]

\* ReconcileNetworkResource and the network's status.
ReconcileNetworkResource ==
  /\ pass.pc = "net"
  /\ LET other == CN.type = "other"
         new == sys.dyn[N] = "none"
         primary == CN.pools[1]
         write == ~other /\ NetworkExpected /\ IsNetworkUpdateRequired
         ok == other \/ write \/ ~IsNetworkUpdateRequired
         expected == other \/ NetworkExpected
         failed == \/ ~other /\ \E i \in DOMAIN CN.pools : pool[CN.pools[i]].life = "none"
                   \/ ~other /\ new /\ sys.val[primary] = 0 IN
       \/ failed /\ NoFault /\ NextPool(TRUE) /\ UNCHANGED <<sys, net, queue, fresh>>
       \/ /\ ~failed /\ NoFault
          /\ sys' = IF write THEN SetNetwork ELSE sys
          /\ IF Fresh("pass", N)
             THEN /\ SaveNetworkStatus(ok, expected)
                  /\ IF ~other /\ pass.expected /\ pass.ok /\ ok
                     THEN pass' = [pass EXCEPT !.pc = "link"]
                     ELSE NextPool(FALSE)
             ELSE UNCHANGED <<net, queue, fresh>> /\ NextPool(TRUE)
       \/ /\ ~failed /\ Fault /\ NextPool(TRUE)
          /\ sys' \in {sys} \cup (IF write THEN {SetNetwork} ELSE {})
          /\ UNCHANGED <<net, queue, fresh>> \/ SaveNetworkStatus(FALSE, expected)
  /\ UNCHANGED <<sx, host, fam, pool, pn, ap, notifying, later>>

\* Mutant of UpdateNetworkAddrPools: the other pool of the family stays.
AddNetworkAddrPool ==
  /\ pass.pc = "link"
  /\ sys' = [sys EXCEPT !.links = @ \cup {<<N, P>>}]
  /\ NextPool(FALSE)
  /\ UNCHANGED <<sx, host, fam, objVars, pn, ap, notifying, later, faults>>

\* The association with another pool of the family is deleted, then the new one is
\* created.
UpdateNetworkAddrPools ==
  /\ pass.pc = "link"
  /\ LET old == Associated(N, P)
         todo == sys.dyn[N] # "none" /\ sys.val[P] # 0 /\ old # {P}
         next == IF old = {} THEN [sys EXCEPT !.links = @ \cup {<<N, P>>}]
                 ELSE [sys EXCEPT !.links = @ \ {<<N, q>> : q \in old}] IN
       \/ ~todo /\ NoFault /\ NextPool(FALSE) /\ UNCHANGED sys
       \/ /\ todo /\ NoFault /\ sys' = next
          /\ IF old = {} THEN NextPool(FALSE) ELSE UNCHANGED pass
       \/ todo /\ Fault /\ sys' \in {sys, next} /\ NextPool(TRUE)
  /\ UNCHANGED <<sx, host, fam, objVars, pn, ap, notifying, later>>

ReconcilePlatformNetworks ==
  \/ StartPass \/ NextNetwork \/ SkipPool \/ LockHostRequest \/ ReconcileAddrPoolResource
  \/ ReconcileNetworkResource \/ UpdateNetworkAddrPools \/ EndPass

-----------------------------------------------------------------------------
(* The standby controller, the VIM and the user.                           *)

\* ensurePoolsComplete, in the Reconcile of the standby controller, once the status of
\* the active one says that it is reconciled; HostReconciler has that, here it may be
\* at any time.
EnsurePoolsComplete ==
  /\ \E n \in Live(net) : \E i \in DOMAIN net[n].pools :
       LET p == net[n].pools[i] IN
       /\ p \in Live(pool) /\ isAddrPoolIncomplete(p)
       /\ sys' = [sys EXCEPT !.val[p] = Sent(sys.val[p], pool[p].spec), !.full[p] = TRUE]
  /\ UNCHANGED <<sx, host, fam, objVars, pn, ap, notifying, pass, later, faults>>

\* The monitor wakes Reconcile when the host is locked; it is unlocked when
\* Reconcile has nothing more to do.
VimLocks ==
  /\ host.active = "lock_required" /\ ~host.locked
  /\ host' = [host EXCEPT !.locked = TRUE, !.queued = TRUE]
  /\ UNCHANGED <<sx, fam, objVars, sys, pn, ap, notifying, pass, later, faults>>
VimUnlocks ==
  /\ host.locked /\ pass.pc = "idle" /\ ~host.queued
  /\ host' = [host EXCEPT !.locked = FALSE, !.active = "not_required",
                          !.standby = "not_required"]
  /\ UNCHANGED <<sx, fam, objVars, sys, pn, ap, notifying, pass, later, faults>>

\* The next thing that the user does, or that happens to the system.
UserActs ==
  /\ later # <<>>
  /\ later' = Tail(later)
  /\ LET e == Head(later) IN
       CASE e.kind = "pool" ->
              /\ WritePool("user", e.name,
                           [pool[e.name] EXCEPT !.spec = e.value, !.gen = @ + 1])
              /\ UNCHANGED <<net, sys>>
         [] e.kind = "deletePool" ->
              /\ WritePool("user", e.name, [pool[e.name] EXCEPT !.life = "deleting"])
              /\ UNCHANGED <<net, sys>>
         [] e.kind = "pools" ->
              /\ WriteNet("user", e.name, [net[e.name] EXCEPT !.pools = e.value, !.gen = @ + 1])
              /\ UNCHANGED <<pool, sys>>
         [] e.kind = "dyn" ->
              /\ WriteNet("user", e.name, [net[e.name] EXCEPT !.dyn = e.value, !.gen = @ + 1])
              /\ UNCHANGED <<pool, sys>>
         [] e.kind = "scope" ->
              /\ WriteNet("user", e.name, [net[e.name] EXCEPT !.asked = e.value])
              /\ UNCHANGED <<pool, sys>>
         [] e.kind = "deleteNetwork" ->
              /\ WriteNet("user", e.name, [net[e.name] EXCEPT !.life = "deleting"])
              /\ UNCHANGED <<pool, sys>>
         [] e.kind = "loss" ->
              sys' = [sys EXCEPT !.full[e.name] = (sys.val[e.name] = 0)] /\ UNCHANGED objVars
  /\ UNCHANGED <<sx, host, fam, pn, ap, notifying, pass, faults>>

-----------------------------------------------------------------------------
NetworkController == FetchNetwork \/ NotifyNetwork \/ SaveNetwork
PoolController == FetchPool \/ ResetPool \/ NotifyPool \/ SavePool

Next == NetworkController \/ PoolController \/ ReconcilePlatformNetworks
        \/ EnsurePoolsComplete \/ VimLocks \/ VimUnlocks \/ UserActs

\* A notification that finds the flag set is retried every second, a pass that failed
\* after twenty: in the end the flag is found clear.  The generation is saved
\* milliseconds after the object is read: the pass does not always come in between.
Spec ==
  /\ Init /\ [][Next]_vars
  /\ WF_vars(NetworkController) /\ WF_vars(PoolController) /\ WF_vars(ReconcilePlatformNetworks)
  /\ WF_vars(EnsurePoolsComplete) /\ WF_vars(VimLocks) /\ WF_vars(VimUnlocks)
  /\ WF_vars(UserActs)
  /\ SF_vars(FetchNetwork /\ ~notifying) /\ SF_vars(FetchPool /\ ~notifying)
  /\ SF_vars(NotifyNetwork /\ Fresh("pn", pn.name))
  /\ SF_vars(SaveNetwork /\ Fresh("pn", pn.name))
  /\ SF_vars(NotifyPool /\ Fresh("ap", ap.name)) /\ SF_vars(SavePool /\ Fresh("ap", ap.name))

-----------------------------------------------------------------------------
(* Properties.                                                             *)

\* "A network can have at most two network-addresspools, one from each network
\* family": the associations with an old and a new pool of a family never exist at
\* once, whatever the user switches and whichever request fails.
OnePoolPerFamily ==
  \A n \in DOMAIN net : \A p \in DOMAIN pool : Cardinality(Associated(n, p)) <= 1

\* A pool that says it is in sync and reconciled, and has been observed, is so in the
\* system, although the pass that wrote the status and the user who changes the
\* specification meanwhile know nothing of each other.  But an optional address that
\* the user removes stays in the system, and the status says that it is in sync.
PoolStatusHolds ==
  \A p \in Live(pool) : Seen(pool[p]) => ~sys.full[p] \/ Matches(sys.val[p], pool[p].spec)

\* The same for a network that was observed before the user changed it.  (One that the
\* pass reached first is taken for one of an earlier deployment manager.)
NetworkStatusHolds ==
  \A n \in Live(net) : Seen(net[n]) /\ net[n].type # "other" => sys.dyn[n] = net[n].dyn

\* The status of the objects tells the truth about the system.
StatusHolds == PoolStatusHolds /\ NetworkStatusHolds

\* The pool of a network is reconfigured only where that is allowed: in scope
\* principal, for oam, admin and, on AIO-SX, mgmt (and then on a locked host).  A
\* pool that lacks addresses is completed in any case.
ReconfiguresAllowed ==
  [][\A l \in sys.links :
       LET n == l[1]
           p == l[2] IN
       sys.val[p] # sys'.val[p] /\ sys.full[p] /\ net[n].type # "other"
       => /\ pass.cn[n].scope = "principal"
          /\ net[n].type \in Core
          /\ net[n].type = "mgmt" => sx /\ host.locked]_vars

\* A cluster network that is given a second pool gets its second stack only while
\* the OAM network has two.
DualStackOrder ==
  [][\A l \in sys'.links \ sys.links :
       /\ net[l[1]].type \in Clusters /\ Len(pass.cn[l[1]].pools) = 2
       /\ \E k \in sys.links : k[1] = l[1]
       => Cardinality(OAMPools) = 2]_vars

\* The last pass has seen the network's scope.
ScopeSeen(n) == pass.scopes[n] = net[n].scope

\* Where every pass writes the status.
Direct(n) == net[n].scope = "bootstrap" \/ net[n].type \notin {"oam", "mgmt"}
             \/ (sx /\ net[n].type = "oam")

\* The network waits for the OAM network's second pool, or for the user.
Waiting(n) ==
  \/ net[n].type \in Clusters /\ Len(net[n].pools) = 2 /\ Cardinality(OAMPools) # 2
  \/ \E i \in DOMAIN net[n].pools : pool[net[n].pools[i]].life # "live"

Reconfigurable(n) ==
  net[n].type \in Core /\ net[n].scope = "principal" /\ (sx \/ net[n].type # "mgmt")

\* Once the user and faults have stopped: pools and networks that may be
\* reconfigured are as specified and associated; every network has a pool of each
\* family it was given; and the status, where every pass writes it, tells whether
\* the object and the system agree.
Settled(n, p) ==
  LET valid == ValidPool(net[n].type, pool[p].spec, fam[p])
      applied == Matches(sys.val[p], pool[p].spec) /\ sys.full[p]
      agrees == sys.val[p] = pool[p].spec /\ sys.full[p] IN
  /\ valid /\ Reconfigurable(n) => applied /\ <<n, p>> \in sys.links
  /\ valid /\ Reconfigurable(n) /\ Direct(n) => sys.dyn[n] = net[n].dyn
  /\ valid /\ net[n].type = "other" => applied
  /\ valid /\ net[n].type \notin Core \cup {"other"}
     => Associated(n, p) # {} /\ sys.dyn[n] # "none"
  /\ Direct(n) => /\ pool[p].observed = pool[p].gen /\ pool[p].inSync \in {agrees, applied}
                  /\ pool[p].reconciled
                     <=> pool[p].inSync \/ (net[n].scope = "bootstrap" /\ net[n].type \in Core)
Converges ==
  <>[](\A n \in {m \in DOMAIN net : net[m].life = "live"} :
         \/ Waiting(n) \/ ~ScopeSeen(n)
         \/ \A i \in DOMAIN net[n].pools : Settled(n, net[n].pools[i]))
====
