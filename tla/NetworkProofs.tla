---------------------------- MODULE NetworkProofs ----------------------------
(***************************************************************************)
(* Proofs about PlatformNetworks, for every system, any networks and pools *)
(* and any sequence of what the user does and what fails.                  *)
(*                                                                         *)
(* The pass of the active host works on copies that the user makes stale.  *)
(* StepInv has what a decision it took on the way still stands on when its *)
(* request is sent (StacksOrdered, ReconfiguredWhereAllowed), LinksInv the *)
(* associations between any two requests (OnePoolKept).  PoolInv and       *)
(* NetworkInv tie a status to the version of the object that was compared  *)
(* (PoolStatusKept, StatusKept); UnsharedInv follows who uses a            *)
(* pool through objects, copies, associations and what the user has yet to *)
(* do.  The lemmas named ...Steps say, for one part of the state, which    *)
(* steps change it and how; each invariant is shown from those.            *)
(***************************************************************************)
EXTENDS PlatformNetworks, FiniteSetTheorems, SequenceTheorems, TLAPS

-----------------------------------------------------------------------------
(* The types of the variables.                                             *)

Networks == DOMAIN net
Pools == DOMAIN fam

\* The steps of the pass that are about a pool of a network.
Working == {"route", "lockStandby", "pool", "net", "link"}

CopyType == [type : Types, pools : Seq(Pools), dyn : Dyns, scope : Scopes]

\* The sequence s has p.
Has(s, p) == \E i \in DOMAIN s : s[i] = p

WorldTyped ==
  /\ IsFiniteSet(Networks)
  /\ sx \in BOOLEAN /\ fam \in [Pools -> {4, 6}]
  /\ net \in [Networks -> NetworkType(Pools)] /\ pool \in [Pools -> PoolType]
  /\ sys \in SystemType(Networks, Pools)
  /\ later \in Seq(ActType(Networks, Pools))

Strategies == {"not_required", "lock_required"}
HostType == [scope : Scopes, queued : BOOLEAN, locked : BOOLEAN, active : Strategies,
             standby : Strategies]
WorkType(pcs, names) ==
  [pc : pcs, name : names, due : BOOLEAN, deleting : BOOLEAN]
PnPCs == {"notify", "save", "clear"}
ApPCs == {"reset", "notify", "save", "clear"}

WorkersTyped ==
  /\ pn \in {NoWork} \cup WorkType(PnPCs, Networks)
  /\ ap \in {NoWork} \cup WorkType(ApPCs, Pools)
  /\ host \in HostType

\* The fields of a pass; the types of the copies depend on where it is.
Passes == {"idle", "network"} \cup Working
PassRecord ==
  pass \in [pc : Passes, todo : Seq(Networks), ps : Seq(Pools), cn : {pass.cn}, cp : {pass.cp},
            scopes : {pass.scopes}, expected : BOOLEAN, ok : BOOLEAN, wait : BOOLEAN,
            errs : BOOLEAN]

PassTyped ==
  /\ PassRecord
  /\ pass.pc # "idle" => pass.cn \in [Networks -> CopyType]
  /\ DOMAIN pass.cp \subseteq Pools
  /\ \A p \in DOMAIN pass.cp : pass.cp[p] \in Nat \ {0}
  /\ pass.pc \in Working => /\ pass.todo # <<>> /\ pass.ps # <<>>
                            /\ \A i \in DOMAIN pass.ps : /\ pass.ps[i] \in DOMAIN pass.cp
                                                         /\ Has(CN.pools, pass.ps[i])

TypeInv == WorldTyped /\ WorkersTyped /\ PassTyped

-----------------------------------------------------------------------------
(* The invariants.                                                         *)

\* The system associates only networks it has, with one pool of a family.
LinksInv ==
  /\ \A l \in sys.links : sys.dyn[l[1]] # "none"
  /\ \A k, l \in sys.links : k[1] = l[1] /\ fam[k[2]] = fam[l[2]] => k = l

\* What was decided on the way to a request still holds: the type of a network does not
\* change, the controllers are asked to be locked one after the other only on systems
\* with two, and the OAM network has its second pool.
StepInv ==
  /\ pass.pc # "idle" => \A n \in Networks : pass.cn[n].type = net[n].type
  /\ pass.pc \in {"lockStandby", "pool"} => ~sx
  /\ pass.pc \in {"net", "link"} => ~SecondaryTooEarly

\* A pool that was observed as settled has the specification of the pass's copy of it,
\* and the reset of Reconciled comes before the generation is recorded.
PoolInv ==
  /\ \A p \in Pools :
       /\ pool[p].observed <= pool[p].gen
       /\ sys.val[p] = 0 => sys.full[p]
       /\ Seen(pool[p]) => ~sys.full[p] \/ Matches(sys.val[p], pool[p].spec)
  /\ \A p \in DOMAIN pass.cp :
       Fresh("pass", p) \/ Seen(pool[p]) => pass.cp[p] = pool[p].spec
  /\ pass.pc = "idle" => DOMAIN pass.cp = {}
  /\ ap.pc # "idle" => ~(ap.due /\ ap.deleting)
  /\ ap.pc \in {"notify", "save"} /\ Fresh("ap", ap.name) => ~pool[ap.name].reconciled

\* A network that the user leaves as it is agrees with the system when its status says
\* so, observed or not.
Fixed(n) ==
  /\ \A i \in DOMAIN later : later[i].kind = "dyn" => later[i].name # n
  /\ InSync(net[n]) /\ net[n].type # "other" => sys.dyn[n] = net[n].dyn
  /\ pass.pc # "idle" => pass.cn[n].dyn = net[n].dyn

\* The same as PoolInv for networks: a generation resets Reconciled only if one was
\* recorded before.
NetworkInv ==
  /\ Networks \cap Pools = {}
  /\ \A n \in Networks :
       /\ net[n].observed <= net[n].gen
       /\ net[n].observed # 0 \/ Fixed(n)
       /\ Seen(net[n]) /\ net[n].type # "other" => sys.dyn[n] = net[n].dyn
       /\ pass.pc # "idle" /\ (Fresh("pass", n) \/ Seen(net[n])) => pass.cn[n].dyn = net[n].dyn
  /\ pn.pc \in {"notify", "save"} /\ Fresh("pn", pn.name)
     => \/ net[pn.name].observed = net[pn.name].gen \/ ~net[pn.name].reconciled
        \/ Fixed(pn.name)

\* p is, or will be, a pool of network n.
Uses(n, p) ==
  \/ Has(net[n].pools, p) \/ <<n, p>> \in sys.links
  \/ pass.pc # "idle" /\ Has(pass.cn[n].pools, p)
  \/ \E i \in DOMAIN later : later[i].kind = "pools" /\ later[i].name = n /\ Has(later[i].value, p)

\* No two networks use a pool.
UnsharedInv ==
  \A n, m \in Networks : \A p \in Pools : Uses(n, p) /\ Uses(m, p) => n = m

-----------------------------------------------------------------------------
(* Objects and the system keep their types.                                *)

LEMMA NetworkUpdates ==
  ASSUME NEW ps, NEW o \in NetworkType(ps)
  PROVE  /\ [o EXCEPT !.scope = o.asked] \in NetworkType(ps)
         /\ [o EXCEPT !.reconciled = FALSE] \in NetworkType(ps)
         /\ [o EXCEPT !.fin = TRUE] \in NetworkType(ps)
         /\ [o EXCEPT !.observed = o.gen] \in NetworkType(ps)
         /\ \A l \in Lives : [o EXCEPT !.life = l] \in NetworkType(ps)
         /\ \A v \in Seq(ps), g \in Nat : [o EXCEPT !.pools = v, !.gen = g] \in NetworkType(ps)
         /\ \A v \in Dyns, g \in Nat : [o EXCEPT !.dyn = v, !.gen = g] \in NetworkType(ps)
         /\ \A v \in Scopes : [o EXCEPT !.asked = v] \in NetworkType(ps)
         /\ \A a, b \in BOOLEAN : [o EXCEPT !.inSync = a, !.reconciled = b] \in NetworkType(ps)
BY DEF NetworkType

LEMMA PoolUpdates ==
  ASSUME NEW o \in PoolType
  PROVE  /\ [o EXCEPT !.reconciled = FALSE] \in PoolType
         /\ [o EXCEPT !.fin = TRUE] \in PoolType
         /\ [o EXCEPT !.observed = o.gen] \in PoolType
         /\ \A l \in Lives : [o EXCEPT !.life = l] \in PoolType
         /\ \A v \in Nat \ {0}, g \in Nat : [o EXCEPT !.spec = v, !.gen = g] \in PoolType
         /\ \A a, b \in BOOLEAN : [o EXCEPT !.inSync = a, !.reconciled = b] \in PoolType
BY DEF PoolType

\* What UpdateConfigStatus makes of an object whose scope was updated.
LEMMA Configured ==
  ASSUME NEW ps, NEW o \in NetworkType(ps)
  PROVE  LET new == UpdateConfigStatus(UpdateDeploymentScope(o)) IN
         /\ new \in NetworkType(ps) /\ [new EXCEPT !.fin = TRUE] \in NetworkType(ps)
         /\ new.type = o.type /\ new.pools = o.pools /\ new.dyn = o.dyn
         /\ new.gen = o.gen /\ new.observed = o.observed /\ new.inSync = o.inSync
         /\ new.life = o.life
         /\ new.reconciled => o.reconciled
         /\ o.observed # o.gen /\ o.observed # 0 => ~new.reconciled
<1> DEFINE s == [o EXCEPT !.scope = o.asked]
<1>1. s \in NetworkType(ps)
  BY NetworkUpdates
<1>2. /\ s.type = o.type /\ s.pools = o.pools /\ s.dyn = o.dyn /\ s.gen = o.gen
      /\ s.observed = o.observed /\ s.inSync = o.inSync /\ s.reconciled = o.reconciled
      /\ s.life = o.life
  BY DEF NetworkType
<1> HIDE DEF s
<1>3. [s EXCEPT !.reconciled = FALSE] \in NetworkType(ps)
  BY <1>1, NetworkUpdates
<1>4. LET new == UpdateConfigStatus(s) IN
      /\ new \in NetworkType(ps)
      /\ new.type = s.type /\ new.pools = s.pools /\ new.dyn = s.dyn
      /\ new.gen = s.gen /\ new.observed = s.observed /\ new.inSync = s.inSync
      /\ new.life = s.life
      /\ new.reconciled => s.reconciled
      /\ s.observed # s.gen /\ s.observed # 0 => ~new.reconciled
  <2>1. CASE s.observed = s.gen \/ (s.observed = 0 /\ s.reconciled)
    BY <1>1, <2>1 DEF UpdateConfigStatus
  <2>2. CASE ~(s.observed = s.gen \/ (s.observed = 0 /\ s.reconciled))
    BY <1>1, <1>3, <2>2 DEF UpdateConfigStatus, NetworkType
  <2> QED
    BY <2>1, <2>2
<1>5. s = UpdateDeploymentScope(o)
  BY DEF s, UpdateDeploymentScope
<1>6. UpdateConfigStatus(s) \in NetworkType(ps)
      => [UpdateConfigStatus(s) EXCEPT !.fin = TRUE] \in NetworkType(ps)
  BY NetworkUpdates
<1> QED
  BY <1>2, <1>4, <1>5, <1>6, Zenon

\* The world after a step: it has the same networks, of the same types, and pools.
WorldStep ==
  /\ UNCHANGED <<sx, fam>>
  /\ net' \in [Networks -> NetworkType(Pools)] /\ pool' \in [Pools -> PoolType]
  /\ sys' \in SystemType(Networks, Pools) /\ later' \in Seq(ActType(Networks, Pools))
  /\ \A n \in Networks : net'[n].type = net[n].type

LEMMA WorldStepTyped ==
  ASSUME WorldTyped, WorldStep
  PROVE  WorldTyped' /\ Networks' = Networks /\ Pools' = Pools
BY DEF WorldTyped, WorldStep, Networks, Pools

LEMMA NetworkControllerTyped ==
  ASSUME WorldTyped, WorkersTyped, NetworkController
  PROVE  WorldStep
<1> USE DEF WorldTyped, WorldStep
<1>1. CASE FetchNetwork
  <2>1. PICK n \in queue \cap DOMAIN net :
          LET o == net[n]
              new == UpdateConfigStatus(UpdateDeploymentScope(o)) IN
          net' = net \/ net' = [net EXCEPT ![n] = new]
          \/ net' = [net EXCEPT ![n] = [new EXCEPT !.fin = TRUE]]
    BY <1>1 DEF FetchNetwork, WriteNet
  <2>2. n \in Networks /\ net[n] \in NetworkType(Pools)
    BY <2>1 DEF Networks
  <2> DEFINE new == UpdateConfigStatus(UpdateDeploymentScope(net[n]))
  <2>3. /\ new \in NetworkType(Pools) /\ [new EXCEPT !.fin = TRUE] \in NetworkType(Pools)
        /\ new.type = net[n].type
    BY <2>2, Configured
  <2> HIDE DEF new
  <2>4. [new EXCEPT !.fin = TRUE].type = net[n].type
    BY <2>3 DEF NetworkType
  <2>5. PICK o \in NetworkType(Pools) :
          o.type = net[n].type /\ (net' = net \/ net' = [net EXCEPT ![n] = o])
    BY <2>1, <2>2, <2>3, <2>4 DEF new
  <2> QED
    BY <1>1, <2>2, <2>5 DEF FetchNetwork
<1>2. CASE NotifyNetwork
  <2>1. pn.name \in Networks
    BY <1>2 DEF NotifyNetwork, WorkersTyped, NoWork, WorkType
  <2>2. /\ [net[pn.name] EXCEPT !.life = "none"] \in NetworkType(Pools)
        /\ [net[pn.name] EXCEPT !.life = "none"].type = net[pn.name].type
    <3>1. net[pn.name] \in NetworkType(Pools) /\ "none" \in Lives
      BY <2>1 DEF Lives
    <3>2. [net[pn.name] EXCEPT !.life = "none"] \in NetworkType(Pools)
      BY <3>1, NetworkUpdates
    <3> QED
      BY <3>1, <3>2 DEF NetworkType
  <2>3. net' = net \/ net' = [net EXCEPT ![pn.name] = [net[pn.name] EXCEPT !.life = "none"]]
    BY <1>2 DEF NotifyNetwork, WriteNet
  <2> QED
    BY <1>2, <2>1, <2>2, <2>3 DEF NotifyNetwork
<1>3. CASE SaveNetwork
  <2>1. pn.name \in Networks
    BY <1>3 DEF SaveNetwork, WorkersTyped, NoWork, WorkType
  <2>2. [net[pn.name] EXCEPT !.observed = net[pn.name].gen] \in NetworkType(Pools)
    BY <2>1, NetworkUpdates
  <2>3. net' = net \/ net' = [net EXCEPT ![pn.name].observed = net[pn.name].gen]
    BY <1>3 DEF SaveNetwork
  <2>4. [net[pn.name] EXCEPT !.observed = net[pn.name].gen].type = net[pn.name].type
    BY <2>1 DEF NetworkType
  <2> QED
    BY <1>3, <2>1, <2>2, <2>3, <2>4 DEF SaveNetwork
<1> QED
  BY <1>1, <1>2, <1>3 DEF NetworkController

LEMMA PoolControllerTyped ==
  ASSUME WorldTyped, WorkersTyped, PoolController
  PROVE  WorldStep
<1> USE DEF WorldTyped, WorldStep
<1>1. CASE FetchPool
  <2>1. PICK p \in queue \cap DOMAIN pool :
          pool' = pool \/ pool' = [pool EXCEPT ![p] = [pool[p] EXCEPT !.fin = TRUE]]
    BY <1>1 DEF FetchPool, WritePool
  <2>2. [pool[p] EXCEPT !.fin = TRUE] \in PoolType
    BY <2>1, PoolUpdates
  <2> QED
    BY <1>1, <2>1, <2>2 DEF FetchPool
<1>2. CASE ResetPool
  <2>1. ap.name \in Pools
    BY <1>2 DEF ResetPool, WorkersTyped, NoWork, WorkType
  <2>2. /\ [pool[ap.name] EXCEPT !.life = "none"] \in PoolType
        /\ [pool[ap.name] EXCEPT !.reconciled = FALSE] \in PoolType
    BY <2>1, PoolUpdates DEF Lives
  <2>3. \/ pool' = pool \/ pool' = [pool EXCEPT ![ap.name] = [pool[ap.name] EXCEPT !.life = "none"]]
        \/ pool' = [pool EXCEPT ![ap.name] = [pool[ap.name] EXCEPT !.reconciled = FALSE]]
    BY <1>2 DEF ResetPool, WritePool
  <2> QED
    BY <1>2, <2>1, <2>2, <2>3 DEF ResetPool
<1>3. CASE NotifyPool
  BY <1>3 DEF NotifyPool
<1>4. CASE SavePool
  <2>1. ap.name \in Pools
    BY <1>4 DEF SavePool, WorkersTyped, NoWork, WorkType
  <2>2. [pool[ap.name] EXCEPT !.observed = pool[ap.name].gen] \in PoolType
    BY <2>1, PoolUpdates
  <2>3. pool' = pool \/ pool' = [pool EXCEPT ![ap.name].observed = pool[ap.name].gen]
    BY <1>4 DEF SavePool
  <2> QED
    BY <1>4, <2>1, <2>2, <2>3 DEF SavePool
<1> QED
  BY <1>1, <1>2, <1>3, <1>4 DEF PoolController

LEMMA UserTyped ==
  ASSUME WorldTyped, UserActs
  PROVE  WorldStep
<1> DEFINE e == Head(later)
<1>1. e \in ActType(Networks, Pools) /\ later' \in Seq(ActType(Networks, Pools))
  BY DEF WorldTyped, UserActs
<1> USE DEF WorldTyped, WorldStep
<1>2. CASE e.kind \in {"pool", "deletePool"}
  <2>1. e.name \in Pools /\ pool[e.name] \in PoolType
        /\ (e.kind = "pool" => e.value \in Nat \ {0})
    BY <1>1, <1>2 DEF ActType
  <2>2. pool[e.name].gen + 1 \in Nat /\ "deleting" \in Lives
    BY <2>1 DEF PoolType, Lives
  <2>3. /\ [pool[e.name] EXCEPT !.life = "deleting"] \in PoolType
        /\ e.kind = "pool"
           => [pool[e.name] EXCEPT !.spec = e.value, !.gen = pool[e.name].gen + 1] \in PoolType
    BY <2>1, <2>2, PoolUpdates
  <2>4. \/ pool' = [pool EXCEPT ![e.name] = [pool[e.name] EXCEPT !.life = "deleting"]]
        \/ /\ e.kind = "pool"
           /\ pool' = [pool EXCEPT ![e.name] = [pool[e.name] EXCEPT !.spec = e.value,
                                                !.gen = pool[e.name].gen + 1]]
    BY <1>2 DEF UserActs, WritePool
  <2>5. UNCHANGED <<sx, fam, net, sys>>
    BY <1>2 DEF UserActs
  <2> QED
    BY <1>1, <2>1, <2>3, <2>4, <2>5
<1>3. CASE e.kind \in {"pools", "dyn", "scope", "deleteNetwork"}
  <2>1. /\ e.name \in Networks /\ net[e.name] \in NetworkType(Pools)
        /\ e.kind = "pools" => e.value \in Seq(Pools)
        /\ e.kind = "dyn" => e.value \in Dyns
        /\ e.kind = "scope" => e.value \in Scopes
    BY <1>1, <1>3 DEF ActType
  <2>2. net[e.name].gen + 1 \in Nat /\ "deleting" \in Lives
    BY <2>1 DEF NetworkType, Lives
  <2> DEFINE a == [net[e.name] EXCEPT !.pools = e.value, !.gen = net[e.name].gen + 1]
             b == [net[e.name] EXCEPT !.dyn = e.value, !.gen = net[e.name].gen + 1]
             c == [net[e.name] EXCEPT !.asked = e.value]
             d == [net[e.name] EXCEPT !.life = "deleting"]
  <2>3. /\ e.kind = "pools" => a \in NetworkType(Pools)
        /\ e.kind = "dyn" => b \in NetworkType(Pools)
        /\ e.kind = "scope" => c \in NetworkType(Pools)
        /\ d \in NetworkType(Pools)
    BY <2>1, <2>2, NetworkUpdates
  <2>4. a.type = net[e.name].type /\ b.type = net[e.name].type /\ c.type = net[e.name].type
        /\ d.type = net[e.name].type
    BY <2>1 DEF NetworkType
  <2>5. \/ e.kind = "pools" /\ net' = [net EXCEPT ![e.name] = a]
        \/ e.kind = "dyn" /\ net' = [net EXCEPT ![e.name] = b]
        \/ e.kind = "scope" /\ net' = [net EXCEPT ![e.name] = c]
        \/ net' = [net EXCEPT ![e.name] = d]
    BY <1>3 DEF UserActs, WriteNet
  <2>6. PICK o \in NetworkType(Pools) : o.type = net[e.name].type /\ net' = [net EXCEPT ![e.name] = o]
    <3> HIDE DEF a, b, c, d
    <3> QED
      BY <2>3, <2>4, <2>5
  <2>7. UNCHANGED <<sx, fam, pool, sys>>
    BY <1>3 DEF UserActs
  <2> QED
    BY <1>1, <2>1, <2>6, <2>7
<1>4. CASE e.kind = "loss"
  <2>1. e.name \in Pools
    BY <1>1, <1>4 DEF ActType
  <2>2. sys' = [sys EXCEPT !.full[e.name] = (sys.val[e.name] = 0)] /\ UNCHANGED objVars
        /\ UNCHANGED <<sx, fam>>
    BY <1>4 DEF UserActs
  <2>3. sys' \in SystemType(Networks, Pools)
    BY <2>1, <2>2 DEF SystemType
  <2> QED
    BY <1>1, <2>2, <2>3 DEF objVars
<1> QED
  BY <1>1, <1>2, <1>3, <1>4 DEF ActType

\* The copies a step of the pass works with.
LEMMA AtWork ==
  ASSUME TypeInv, pass.pc \in Working
  PROVE  /\ N \in Networks /\ P \in Pools /\ P \in DOMAIN pass.cp
         /\ CN \in CopyType /\ CP \in Nat \ {0}
         /\ Has(CN.pools, P)
         /\ CN.pools # <<>> /\ CN.pools \in Seq(Pools) /\ CN.pools[1] \in Pools
<1>1. /\ pass.todo \in Seq(Networks) /\ pass.ps \in Seq(Pools)
      /\ pass.todo # <<>> /\ pass.ps # <<>> /\ pass.cn \in [Networks -> CopyType]
      /\ \A i \in DOMAIN pass.ps : pass.ps[i] \in DOMAIN pass.cp /\ Has(CN.pools, pass.ps[i])
      /\ \A p \in DOMAIN pass.cp : pass.cp[p] \in Nat \ {0}
  BY DEF TypeInv, PassTyped, PassRecord, Working
<1>2. N \in Networks /\ P \in Pools /\ 1 \in DOMAIN pass.ps /\ P = pass.ps[1]
  BY <1>1 DEF N, P
<1>3. CN \in CopyType
  BY <1>1, <1>2 DEF CN
<1>4. CN.pools \in Seq(Pools) /\ Has(CN.pools, P)
  BY <1>1, <1>2, <1>3 DEF CopyType
<1>5. CN.pools # <<>> /\ CN.pools[1] \in Pools
  BY <1>4 DEF Has
<1> QED
  BY <1>1, <1>2, <1>3, <1>4, <1>5 DEF CP

\* A request leaves the pool with a value that matches the specification.
LEMMA SentMatches ==
  ASSUME NEW v, NEW s \in Nat
  PROVE  Sent(v, s) \in Nat /\ Matches(Sent(v, s), s)
BY DEF Sent, Matches, WithGateway, NoGateway

\* What the requests of the pass make of the system.
LEMMA SystemUpdates ==
  ASSUME TypeInv, pass.pc \in Working
  PROVE  /\ SetPool \in SystemType(Networks, Pools)
         /\ SetNetwork \in SystemType(Networks, Pools)
         /\ [sys EXCEPT !.links = sys.links \cup {<<N, P>>}] \in SystemType(Networks, Pools)
         /\ \A s : [sys EXCEPT !.links = sys.links \ s] \in SystemType(Networks, Pools)
<1>1. /\ N \in Networks /\ P \in Pools /\ CP \in Nat /\ CN.pools[1] \in Pools
      /\ sys \in SystemType(Networks, Pools) /\ CN.dyn \in Dyns
  BY AtWork DEF TypeInv, WorldTyped, CopyType
<1>2. SetPool \in SystemType(Networks, Pools)
  <2>1. Sent(sys.val[P], CP) \in Nat
    BY <1>1, SentMatches
  <2> QED
    BY <1>1, <2>1 DEF SetPool, SystemType
<1>3. \A d \in Dyns, s \in SUBSET (Networks \X Pools) :
        [sys EXCEPT !.dyn[N] = d, !.links = s] \in SystemType(Networks, Pools)
  BY <1>1 DEF SystemType
<1>4. sys.links \cup {<<N, CN.pools[1]>>} \in SUBSET (Networks \X Pools)
      /\ sys.links \in SUBSET (Networks \X Pools)
  BY <1>1 DEF SystemType
<1>5. SetNetwork \in SystemType(Networks, Pools)
  BY <1>1, <1>3, <1>4 DEF SetNetwork
<1>6. [sys EXCEPT !.links = sys.links \cup {<<N, P>>}] \in SystemType(Networks, Pools)
  BY <1>1 DEF SystemType
<1>7. ASSUME NEW s
      PROVE  [sys EXCEPT !.links = sys.links \ s] \in SystemType(Networks, Pools)
  BY <1>1 DEF SystemType
<1> QED
  BY <1>2, <1>5, <1>6, <1>7

\* A status changes only the two flags.
LEMMA StatusTyped ==
  ASSUME TypeInv, pass.pc \in Working, NEW ok \in BOOLEAN, NEW expected
  PROVE  /\ \A p \in Pools : Status(pool[p], ok, expected) \in PoolType
         /\ \A n \in Networks : /\ Status(net[n], ok, expected) \in NetworkType(Pools)
                                /\ Status(net[n], ok, expected).type = net[n].type
<1> DEFINE b == ok \/ (CN.scope = "bootstrap" /\ ~expected)
<1>1. b \in BOOLEAN
  OBVIOUS
<1> HIDE DEF b
<1>2. ASSUME NEW p \in Pools
      PROVE  Status(pool[p], ok, expected) \in PoolType
  BY <1>1, PoolUpdates DEF Status, b, TypeInv, WorldTyped
<1>3. ASSUME NEW n \in Networks
      PROVE  /\ Status(net[n], ok, expected) \in NetworkType(Pools)
             /\ Status(net[n], ok, expected).type = net[n].type
  <2>1. net[n] \in NetworkType(Pools)
    BY DEF TypeInv, WorldTyped
  <2>2. [net[n] EXCEPT !.inSync = ok, !.reconciled = b] \in NetworkType(Pools)
    BY <1>1, <2>1, NetworkUpdates
  <2>3. [net[n] EXCEPT !.inSync = ok, !.reconciled = b].type = net[n].type
    BY <2>1 DEF NetworkType
  <2> QED
    BY <2>2, <2>3 DEF Status, b
<1> QED
  BY <1>2, <1>3

\* What the pass makes of an object and of the system in one step.
LEMMA PassWrites ==
  ASSUME TypeInv
  PROVE  /\ ReconcileAddrPoolResource =>
              /\ pass.pc \in {"route", "pool"}
              /\ sys' = sys \/ (sys' = SetPool /\ PoolExpected /\ Required)
              /\ \/ UNCHANGED <<pool, fresh>>
                 \/ /\ Fresh("pass", P)
                    /\ \E ok \in BOOLEAN :
                         /\ WritePool("pass", P, Status(pool[P], ok, PoolExpected))
                         /\ ok => sys' = SetPool \/ (sys' = sys /\ ~IsAddrPoolUpdateRequired)
         /\ ReconcileNetworkResource =>
              /\ pass.pc = "net"
              /\ sys' = sys \/ (sys' = SetNetwork /\ CN.type # "other")
              /\ \/ UNCHANGED <<net, fresh>>
                 \/ /\ Fresh("pass", N)
                    /\ \E ok \in BOOLEAN, expected \in BOOLEAN :
                         /\ WriteNet("pass", N, Status(net[N], ok, expected))
                         /\ ok => \/ CN.type = "other" \/ sys' = SetNetwork
                                  \/ sys' = sys /\ ~IsNetworkUpdateRequired
         /\ UpdateNetworkAddrPools =>
              /\ pass.pc = "link"
              /\ \/ sys' = sys
                 \/ /\ Associated(N, P) = {} /\ sys.dyn[N] # "none"
                    /\ sys' = [sys EXCEPT !.links = sys.links \cup {<<N, P>>}]
                 \/ sys' = [sys EXCEPT !.links = sys.links \ {<<N, q>> : q \in Associated(N, P)}]
<1>1. ASSUME ReconcileAddrPoolResource
      PROVE  /\ pass.pc \in {"route", "pool"}
             /\ sys' = sys \/ (sys' = SetPool /\ PoolExpected /\ Required)
             /\ \/ UNCHANGED <<pool, fresh>>
                \/ /\ Fresh("pass", P)
                   /\ \E ok \in BOOLEAN :
                        /\ WritePool("pass", P, Status(pool[P], ok, PoolExpected))
                        /\ ok => sys' = SetPool \/ (sys' = sys /\ ~IsAddrPoolUpdateRequired)
  <2> DEFINE write == PoolExpected /\ Required
             ok == write \/ ~IsAddrPoolUpdateRequired
  <2>1. pass.pc \in {"route", "pool"}
    BY <1>1 DEF ReconcileAddrPoolResource, At
  <2>2. \/ sys' = sys /\ UNCHANGED <<pool, fresh>>
        \/ /\ sys' = IF write THEN SetPool ELSE sys
           /\ SavePoolStatus(ok) \/ UNCHANGED <<pool, fresh>>
        \/ /\ sys' \in {sys} \cup (IF write THEN {SetPool} ELSE {})
           /\ SavePoolStatus(FALSE) \/ UNCHANGED <<pool, fresh>>
    BY <1>1 DEF ReconcileAddrPoolResource
  <2>3. sys' = sys \/ (sys' = SetPool /\ write)
    BY <2>2
  <2>4. ok \in BOOLEAN /\ FALSE \in BOOLEAN
    OBVIOUS
  <2>5. SavePoolStatus(ok) /\ (sys' = IF write THEN SetPool ELSE sys)
        => (ok => sys' = SetPool \/ (sys' = sys /\ ~IsAddrPoolUpdateRequired))
    OBVIOUS
  <2> HIDE DEF ok
  <2>6. \/ UNCHANGED <<pool, fresh>>
        \/ SavePoolStatus(ok) /\ (ok => sys' = SetPool \/ (sys' = sys /\ ~IsAddrPoolUpdateRequired))
        \/ SavePoolStatus(FALSE)
    BY <2>2, <2>5
  <2> QED
    BY <2>1, <2>3, <2>4, <2>6 DEF SavePoolStatus
<1>2. ASSUME ReconcileNetworkResource
      PROVE  /\ pass.pc = "net"
             /\ sys' = sys \/ (sys' = SetNetwork /\ CN.type # "other")
             /\ \/ UNCHANGED <<net, fresh>>
                \/ /\ Fresh("pass", N)
                   /\ \E ok \in BOOLEAN, expected \in BOOLEAN :
                        /\ WriteNet("pass", N, Status(net[N], ok, expected))
                        /\ ok => \/ CN.type = "other" \/ sys' = SetNetwork
                                 \/ sys' = sys /\ ~IsNetworkUpdateRequired
  <2> DEFINE other == CN.type = "other"
             write == ~other /\ NetworkExpected /\ IsNetworkUpdateRequired
             ok == other \/ write \/ ~IsNetworkUpdateRequired
             expected == other \/ NetworkExpected
  <2>1. pass.pc = "net"
    BY <1>2 DEF ReconcileNetworkResource
  <2>2. \/ sys' = sys /\ UNCHANGED <<net, fresh>>
        \/ /\ sys' = IF write THEN SetNetwork ELSE sys
           /\ SaveNetworkStatus(ok, expected) \/ UNCHANGED <<net, fresh>>
        \/ /\ sys' \in {sys} \cup (IF write THEN {SetNetwork} ELSE {})
           /\ SaveNetworkStatus(FALSE, expected) \/ UNCHANGED <<net, fresh>>
    BY <1>2 DEF ReconcileNetworkResource
  <2>3. sys' = sys \/ (sys' = SetNetwork /\ ~other)
    BY <2>2
  <2>4. ok \in BOOLEAN /\ FALSE \in BOOLEAN /\ expected \in BOOLEAN
    BY DEF NetworkExpected
  <2>5. (sys' = IF write THEN SetNetwork ELSE sys)
        => (ok => other \/ sys' = SetNetwork \/ (sys' = sys /\ ~IsNetworkUpdateRequired))
    OBVIOUS
  <2> HIDE DEF ok, expected
  <2>6. \/ UNCHANGED <<net, fresh>>
        \/ /\ SaveNetworkStatus(ok, expected)
           /\ ok => other \/ sys' = SetNetwork \/ (sys' = sys /\ ~IsNetworkUpdateRequired)
        \/ SaveNetworkStatus(FALSE, expected)
    BY <2>2, <2>5
  <2> QED
    BY <2>1, <2>3, <2>4, <2>6 DEF SaveNetworkStatus
<1>3. ASSUME UpdateNetworkAddrPools
      PROVE  /\ pass.pc = "link"
             /\ \/ sys' = sys
                \/ /\ Associated(N, P) = {} /\ sys.dyn[N] # "none"
                   /\ sys' = [sys EXCEPT !.links = sys.links \cup {<<N, P>>}]
                \/ sys' = [sys EXCEPT !.links = sys.links \ {<<N, q>> : q \in Associated(N, P)}]
  BY <1>3 DEF UpdateNetworkAddrPools
<1> QED
  BY <1>1, <1>2, <1>3

Elsewhere == EnsurePoolsComplete \/ VimLocks \/ VimUnlocks

LEMMA PassWorld ==
  ASSUME TypeInv, ReconcilePlatformNetworks
  PROVE  WorldStep
<1> USE DEF TypeInv, WorldTyped, WorldStep
<1>1. CASE StartPass \/ NextNetwork \/ SkipPool \/ LockHostRequest \/ EndPass
  BY <1>1 DEF StartPass, NextNetwork, SkipPool, LockHostRequest, EndPass, objVars
<1>2. CASE ReconcileAddrPoolResource
  <2>1. pass.pc \in Working
    BY <1>2, PassWrites DEF Working
  <2>2. sys' \in SystemType(Networks, Pools)
    BY <1>2, <2>1, PassWrites, SystemUpdates
  <2>3. pool' = pool \/ \E ok \in BOOLEAN : pool' = [pool EXCEPT ![P] = Status(pool[P], ok, PoolExpected)]
    BY <1>2, PassWrites DEF WritePool
  <2>4. pool' \in [Pools -> PoolType]
    <3>1. P \in Pools
      BY <2>1, AtWork
    <3>2. \A ok \in BOOLEAN : Status(pool[P], ok, PoolExpected) \in PoolType
      BY <2>1, <3>1, StatusTyped
    <3> QED
      BY <2>3, <3>1, <3>2
  <2> QED
    BY <1>2, <2>2, <2>4 DEF ReconcileAddrPoolResource
<1>3. CASE ReconcileNetworkResource
  <2>1. pass.pc \in Working
    BY <1>3, PassWrites DEF Working
  <2>2. sys' \in SystemType(Networks, Pools)
    BY <1>3, <2>1, PassWrites, SystemUpdates
  <2>3. net' = net \/ \E ok \in BOOLEAN, ex \in BOOLEAN : net' = [net EXCEPT ![N] = Status(net[N], ok, ex)]
    BY <1>3, PassWrites DEF WriteNet
  <2>4. N \in Networks
    BY <2>1, AtWork
  <2>5. net' = net \/ \E o \in NetworkType(Pools) : /\ o.type = net[N].type
                                                    /\ net' = [net EXCEPT ![N] = o]
    BY <2>1, <2>3, <2>4, StatusTyped
  <2>6. net' \in [Networks -> NetworkType(Pools)] /\ \A n \in Networks : net'[n].type = net[n].type
    BY <2>4, <2>5
  <2> QED
    BY <1>3, <2>2, <2>6 DEF ReconcileNetworkResource
<1>4. CASE UpdateNetworkAddrPools
  <2>1. pass.pc \in Working
    BY <1>4, PassWrites DEF Working
  <2>2. sys' \in SystemType(Networks, Pools)
    BY <1>4, <2>1, PassWrites, SystemUpdates
  <2> QED
    BY <1>4, <2>2 DEF UpdateNetworkAddrPools, objVars
<1> QED
  BY <1>1, <1>2, <1>3, <1>4 DEF ReconcilePlatformNetworks

LEMMA ElsewhereWorld ==
  ASSUME TypeInv, Elsewhere
  PROVE  WorldStep
<1> USE DEF TypeInv, WorldTyped, WorldStep
<1>1. CASE EnsurePoolsComplete
  <2>1. PICK p \in Pools :
          sys' = [sys EXCEPT !.val[p] = Sent(sys.val[p], pool[p].spec), !.full[p] = TRUE]
    BY <1>1 DEF EnsurePoolsComplete, Live
  <2>2. Sent(sys.val[p], pool[p].spec) \in Nat
    BY SentMatches DEF PoolType
  <2>3. sys' \in SystemType(Networks, Pools)
    BY <2>1, <2>2 DEF SystemType
  <2> QED
    BY <1>1, <2>3 DEF EnsurePoolsComplete, objVars
<1>2. CASE VimLocks \/ VimUnlocks
  BY <1>2 DEF VimLocks, VimUnlocks, objVars
<1> QED
  BY <1>1, <1>2 DEF Elsewhere

LEMMA NextCases ==
  ASSUME Next
  PROVE  NetworkController \/ PoolController \/ ReconcilePlatformNetworks \/ Elsewhere \/ UserActs
BY DEF Next, Elsewhere

LEMMA StepWorld ==
  ASSUME TypeInv, Next
  PROVE  WorldStep
BY NextCases, NetworkControllerTyped, PoolControllerTyped, PassWorld, ElsewhereWorld, UserTyped
   DEF TypeInv

\* The two controllers' workers.
LEMMA StepWorkers ==
  ASSUME TypeInv, Next
  PROVE  WorkersTyped'
<1>1. Networks' = Networks /\ Pools' = Pools
  BY StepWorld, WorldStepTyped DEF TypeInv
<1> USE DEF TypeInv, WorkersTyped, HostType
<1>2. CASE FetchNetwork
  <2>1. UNCHANGED <<ap, host>>
    BY <1>2 DEF FetchNetwork
  <2>2. pn' = pn \/ pn' \in WorkType(PnPCs, Networks)
    <3>1. \/ pn' = pn
          \/ \E n \in Networks, a, b \in BOOLEAN :
               pn' = [pc |-> "notify", name |-> n, deleting |-> a, due |-> b]
      BY <1>2 DEF FetchNetwork, Networks
    <3> QED
      BY <3>1 DEF WorkType, PnPCs
  <2> QED
    BY <1>1, <2>1, <2>2
<1>3. CASE NotifyNetwork
  <2>1. pn \in WorkType(PnPCs, Networks)
    BY <1>3 DEF NotifyNetwork, NoWork
  <2>2. UNCHANGED ap
    BY <1>3 DEF NotifyNetwork
  <2>3. host' = host \/ host' = [host EXCEPT !.queued = host.queued \/ pn.due]
    BY <1>3 DEF NotifyNetwork
  <2>4. pn' = [pn EXCEPT !.pc = "save"] \/ pn' = [pn EXCEPT !.pc = "clear"]
    BY <1>3 DEF NotifyNetwork
  <2>5. pn' \in WorkType(PnPCs, Networks)
    BY <2>1, <2>4 DEF WorkType, PnPCs
  <2>6. host' \in HostType
    BY <2>1, <2>3 DEF WorkType
  <2> QED
    BY <1>1, <2>2, <2>5, <2>6
<1>4. CASE SaveNetwork
  BY <1>1, <1>4 DEF SaveNetwork
<1>5. CASE FetchPool
  <2>1. UNCHANGED <<pn, host>>
    BY <1>5 DEF FetchPool
  <2>2. ap' = ap \/ ap' \in WorkType(ApPCs, Pools)
    <3>1. DOMAIN pool = Pools
      BY DEF WorldTyped
    <3>2. \/ ap' = ap
          \/ \E p \in Pools, a, b \in BOOLEAN :
               ap' = [pc |-> "reset", name |-> p, deleting |-> a, due |-> b]
      BY <1>5, <3>1 DEF FetchPool
    <3> QED
      BY <3>2 DEF WorkType, ApPCs
  <2> QED
    BY <1>1, <2>1, <2>2
<1>6. CASE ResetPool \/ NotifyPool
  <2>1. ap \in WorkType(ApPCs, Pools)
    BY <1>6 DEF ResetPool, NotifyPool, NoWork
  <2>2. UNCHANGED pn
    BY <1>6 DEF ResetPool, NotifyPool
  <2>3. host' = host \/ host' = [host EXCEPT !.queued = TRUE]
    BY <1>6 DEF ResetPool, NotifyPool
  <2>4. \/ ap' = [ap EXCEPT !.pc = "save"] \/ ap' = [ap EXCEPT !.pc = "clear"]
        \/ ap' = [ap EXCEPT !.pc = "notify"]
    BY <1>6 DEF ResetPool, NotifyPool
  <2>5. ap' \in WorkType(ApPCs, Pools)
    BY <2>1, <2>4 DEF WorkType, ApPCs
  <2>6. host' \in HostType
    BY <2>3
  <2> QED
    BY <1>1, <2>2, <2>5, <2>6
<1>7. CASE SavePool
  BY <1>1, <1>7 DEF SavePool
<1>8. CASE StartPass \/ EndPass
  <2>1. pass.errs \in BOOLEAN /\ pass.wait \in BOOLEAN
    BY DEF PassTyped, PassRecord
  <2>2. UNCHANGED <<pn, ap>>
    BY <1>8 DEF StartPass, EndPass
  <2>3. \E b \in BOOLEAN : host' = [host EXCEPT !.queued = b]
    BY <1>8, <2>1 DEF StartPass, EndPass
  <2> QED
    BY <1>1, <2>2, <2>3
<1>9. CASE LockHostRequest
  <2>1. UNCHANGED <<pn, ap>>
    BY <1>9 DEF LockHostRequest
  <2>2. host' = host \/ \E c \in {"active", "standby"} : host' = [host EXCEPT ![c] = "lock_required"]
    BY <1>9 DEF LockHostRequest
  <2> QED
    BY <1>1, <2>1, <2>2 DEF Strategies
<1>10. CASE NextNetwork \/ SkipPool \/ ReconcileAddrPoolResource \/ ReconcileNetworkResource
            \/ UpdateNetworkAddrPools
  BY <1>1, <1>10 DEF NextNetwork, SkipPool, ReconcileAddrPoolResource, ReconcileNetworkResource,
                     UpdateNetworkAddrPools
<1>11. CASE Elsewhere \/ UserActs
  BY <1>1, <1>11 DEF Elsewhere, EnsurePoolsComplete, VimLocks, VimUnlocks, UserActs, Strategies
<1> QED
  BY <1>2, <1>3, <1>4, <1>5, <1>6, <1>7, <1>8, <1>9, <1>10, <1>11, NextCases
     DEF NetworkController, PoolController, ReconcilePlatformNetworks

-----------------------------------------------------------------------------
(* The pass.                                                               *)

\* A step that leaves the copies alone and goes on with the same pool.
Stays(pc) ==
  /\ pass'.pc = pc /\ pass'.todo = pass.todo /\ pass'.ps = pass.ps
  /\ pass'.cn = pass.cn /\ pass'.cp = pass.cp

\* A step that leaves the copies alone and goes on with another pool or network.
Leaves ==
  /\ pass'.pc \in {"network", "route"} /\ pass'.cn = pass.cn /\ pass'.cp = pass.cp
  /\ pass'.ps = Tail(pass.ps)
  /\ pass'.pc = "route" => pass'.todo = pass.todo /\ Len(pass.ps) # 1

LEMMA NextPoolLeaves ==
  ASSUME TypeInv, pass.pc \in Working, NEW e \in BOOLEAN, NextPool(e),
         Networks' = Networks, Pools' = Pools
  PROVE  Leaves /\ PassRecord'
<1>1. PassRecord /\ pass.todo # <<>> /\ pass.ps # <<>>
  BY DEF TypeInv, PassTyped
<1>2. PICK c \in {"network", "route"}, t \in Seq(Networks), a, b \in BOOLEAN :
        /\ pass' = [pass EXCEPT !.errs = a, !.wait = b, !.ps = Tail(pass.ps), !.pc = c, !.todo = t]
        /\ c = "route" => t = pass.todo /\ Len(pass.ps) # 1
  <2> DEFINE c == IF Len(pass.ps) = 1 \/ (pass.wait /\ ~e) THEN "network" ELSE "route"
             t == IF Len(pass.ps) = 1 THEN Tail(pass.todo) ELSE pass.todo
             a == pass.errs \/ e
             b == pass.wait /\ ~e
  <2>1. c \in {"network", "route"} /\ t \in Seq(Networks) /\ a \in BOOLEAN /\ b \in BOOLEAN
    BY <1>1 DEF PassRecord
  <2>2. pass' = [pass EXCEPT !.errs = a, !.wait = b, !.ps = Tail(pass.ps), !.pc = c, !.todo = t]
    BY DEF NextPool
  <2>3. c = "route" => t = pass.todo /\ Len(pass.ps) # 1
    OBVIOUS
  <2> HIDE DEF c, t, a, b
  <2> QED
    BY <2>1, <2>2, <2>3
<1>3. Tail(pass.ps) \in Seq(Pools) /\ c \in Passes
  <2>1. pass.ps \in Seq(Pools) /\ pass.ps # <<>>
    BY <1>1 DEF PassRecord
  <2>2. Tail(pass.ps) \in Seq(Pools)
    BY <2>1
  <2> QED
    BY <1>2, <2>2 DEF Passes, Working
<1>4. Leaves
  BY <1>1, <1>2 DEF Leaves, PassRecord
<1>5. PassRecord'
  BY <1>1, <1>2, <1>3 DEF PassRecord
<1> QED
  BY <1>4, <1>5

LEMMA LeavesTyped ==
  ASSUME TypeInv, pass.pc \in Working, Leaves, PassRecord',
         Networks' = Networks, Pools' = Pools
  PROVE  PassTyped'
<1>1. /\ pass.ps \in Seq(Pools) /\ pass.ps # <<>> /\ pass.todo # <<>>
      /\ pass.cn \in [Networks -> CopyType]
      /\ DOMAIN pass.cp \subseteq Pools /\ \A p \in DOMAIN pass.cp : pass.cp[p] \in Nat \ {0}
      /\ \A i \in DOMAIN pass.ps : pass.ps[i] \in DOMAIN pass.cp /\ Has(CN.pools, pass.ps[i])
  BY DEF TypeInv, PassTyped, PassRecord, Working
<1>2. pass'.cn \in [Networks' -> CopyType']
  BY <1>1 DEF Leaves, CopyType
<1>3. DOMAIN pass'.cp \subseteq Pools' /\ \A p \in DOMAIN pass'.cp : pass'.cp[p] \in Nat \ {0}
  BY <1>1 DEF Leaves
<1>4. ASSUME pass'.pc \in Working
      PROVE  /\ pass'.todo # <<>> /\ pass'.ps # <<>>
             /\ \A i \in DOMAIN pass'.ps : /\ pass'.ps[i] \in DOMAIN pass'.cp
                                           /\ Has(CN'.pools, pass'.ps[i])
  <2>1. pass'.todo = pass.todo /\ Len(pass.ps) # 1 /\ CN' = CN
    BY <1>4 DEF Leaves, CN, N, Working
  <2>2. pass'.ps # <<>> /\ \A i \in DOMAIN pass'.ps : i + 1 \in DOMAIN pass.ps /\ pass'.ps[i] = pass.ps[i + 1]
    <3>1. pass'.ps = Tail(pass.ps)
      BY DEF Leaves
    <3>2. ASSUME NEW S, NEW q \in Seq(S), q # <<>>, Len(q) # 1
          PROVE  Tail(q) # <<>> /\ \A i \in DOMAIN Tail(q) : i + 1 \in DOMAIN q /\ Tail(q)[i] = q[i + 1]
      <4>1. /\ Len(q) \in Nat /\ Len(q) # 0 /\ Tail(q) \in Seq(S) /\ Len(Tail(q)) = Len(q) - 1
            /\ \A i \in 1..Len(Tail(q)) : Tail(q)[i] = q[i + 1]
        BY <3>2, HeadTailProperties, EmptySeq, LenProperties
      <4>2. DOMAIN Tail(q) = 1..Len(Tail(q)) /\ DOMAIN q = 1..Len(q)
        BY <3>2, <4>1
      <4>3. Tail(q) # <<>>
        <5>1. Len(q) - 1 # 0
          BY <3>2, <4>1
        <5>2. Len(Tail(q)) # 0
          BY <4>1, <5>1
        <5> QED
          BY <4>1, <5>2, EmptySeq
      <4>4. \A i \in 1..Len(Tail(q)) : i + 1 \in 1..Len(q)
        BY <4>1
      <4> QED
        BY <4>1, <4>2, <4>3, <4>4
    <3> QED
      BY <1>1, <2>1, <3>1, <3>2
  <2> QED
    BY <1>1, <2>1, <2>2 DEF Leaves
<1> QED
  BY <1>2, <1>3, <1>4 DEF PassTyped

LEMMA StaysTyped ==
  ASSUME TypeInv, pass.pc \in Working, NEW c \in Passes \ {"idle"}, Stays(c), PassRecord',
         Networks' = Networks, Pools' = Pools
  PROVE  PassTyped'
<1>1. /\ pass.ps \in Seq(Pools) /\ pass.ps # <<>> /\ pass.todo # <<>>
      /\ pass.cn \in [Networks -> CopyType]
      /\ DOMAIN pass.cp \subseteq Pools /\ \A p \in DOMAIN pass.cp : pass.cp[p] \in Nat \ {0}
      /\ \A i \in DOMAIN pass.ps : pass.ps[i] \in DOMAIN pass.cp /\ Has(CN.pools, pass.ps[i])
  BY DEF TypeInv, PassTyped, PassRecord, Working
<1>2. pass'.cn \in [Networks' -> CopyType'] /\ CN' = CN
  BY <1>1 DEF Stays, CopyType, CN, N
<1> QED
  BY <1>1, <1>2 DEF Stays, PassTyped

\* The step a pool takes next.
LEMMA Routes ==
  ASSUME TypeInv, pass.pc = "route"
  PROVE  /\ Route \in {"pool", "lock", "lockActive", "next"}
         /\ Route = "lockActive" => ~sx
         /\ Route = "pool" /\ CN.scope = "principal" /\ CN.type = "mgmt" /\ sx => host.locked
<1>1. CN.scope \in {"bootstrap", "principal"}
  BY AtWork DEF Working, CopyType, Scopes
<1>2. CASE CN.scope = "bootstrap"
  BY <1>2 DEF Route
<1>3. CASE CN.scope = "principal"
  <2>1. Route = IF sx THEN PrincipalSimplex ELSE Multinodes
    BY <1>3 DEF Route
  <2> QED
    BY <2>1 DEF PrincipalSimplex, MgmtPrincipalSimplex, Multinodes, MultinodesOAM, MultinodesMgmt
<1> QED
  BY <1>1, <1>2, <1>3

\* Where the steps of the pass that are about a pool lead.
LEMMA PassMoves ==
  ASSUME TypeInv, Networks' = Networks, Pools' = Pools
  PROVE  /\ SkipPool => pass.pc = "route" /\ Leaves /\ PassRecord'
         /\ LockHostRequest =>
              /\ pass.pc \in {"route", "lockStandby"} /\ PassRecord'
              /\ \/ Leaves
                 \/ At("lock") /\ Stays("network")
                 \/ At("lockActive") /\ Stays("lockStandby")
                 \/ pass.pc = "lockStandby" /\ Stays("pool")
         /\ ReconcileAddrPoolResource =>
              PassRecord' /\ (Leaves \/ (Stays("net") /\ ~SecondaryTooEarly))
         /\ ReconcileNetworkResource => PassRecord' /\ (Leaves \/ Stays("link"))
         /\ UpdateNetworkAddrPools => PassRecord' /\ (Leaves \/ pass' = pass)
<1>1. PassRecord
  BY DEF TypeInv, PassTyped
<1>2. ASSUME pass.pc \in Working, NEW e \in BOOLEAN, NextPool(e)
      PROVE  Leaves /\ PassRecord'
  BY <1>2, NextPoolLeaves
<1>3. ASSUME NEW c \in Passes, NEW b \in BOOLEAN, pass' = [pass EXCEPT !.wait = b, !.pc = c]
      PROVE  PassRecord' /\ Stays(c)
  BY <1>1, <1>3 DEF PassRecord, Stays
<1>4. ASSUME NEW c \in Passes, pass' = [pass EXCEPT !.pc = c]
      PROVE  PassRecord' /\ Stays(c)
  BY <1>1, <1>4 DEF PassRecord, Stays
<1>5. ASSUME SkipPool
      PROVE  pass.pc = "route" /\ Leaves /\ PassRecord'
  <2>1. pass.pc = "route" /\ NextPool(FALSE)
    BY <1>1, <1>5 DEF SkipPool, At, PassRecord, Passes, Working
  <2> QED
    BY <1>2, <2>1 DEF Working
<1>6. ASSUME LockHostRequest
      PROVE  /\ pass.pc \in {"route", "lockStandby"} /\ PassRecord'
             /\ \/ Leaves
                \/ At("lock") /\ Stays("network")
                \/ At("lockActive") /\ Stays("lockStandby")
                \/ pass.pc = "lockStandby" /\ Stays("pool")
  <2>1. pass.pc \in {"route", "lockStandby"}
    BY <1>1, <1>6 DEF LockHostRequest, At, PassRecord, Passes, Working
  <2>2. At("lockStandby") => pass.pc = "lockStandby"
    BY Routes DEF At
  <2>3. \/ At("lock") /\ pass' = [pass EXCEPT !.wait = TRUE, !.pc = "network"]
        \/ At("lockActive") /\ pass' = [pass EXCEPT !.pc = "lockStandby"]
        \/ At("lockStandby") /\ pass' = [pass EXCEPT !.wait = TRUE, !.pc = "pool"]
        \/ NextPool(TRUE)
    BY <1>6 DEF LockHostRequest
  <2>4. {"network", "lockStandby", "pool"} \subseteq Passes /\ pass.pc \in Working
    BY <2>1 DEF Passes, Working
  <2> QED
    BY <1>2, <1>3, <1>4, <2>1, <2>2, <2>3, <2>4
<1>7. ASSUME ReconcileAddrPoolResource
      PROVE  PassRecord' /\ (Leaves \/ (Stays("net") /\ ~SecondaryTooEarly))
  <2>1. pass.pc \in Working
    BY <1>7 DEF ReconcileAddrPoolResource, At, Working
  <2>2. \/ NextPool(TRUE) \/ NextPool(FALSE)
        \/ /\ ~SecondaryTooEarly
           /\ \E a, b \in BOOLEAN : pass' = [pass EXCEPT !.pc = "net", !.expected = a, !.ok = b]
    <3> DEFINE write == PoolExpected /\ Required
               ok == write \/ ~IsAddrPoolUpdateRequired
    <3>1. PoolExpected \in BOOLEAN /\ ok \in BOOLEAN
      BY DEF PoolExpected, OtherPoolExpected, IsReconfiguration, isAddrPoolIncomplete
    <3>2. \/ NextPool(TRUE) \/ NextPool(FALSE)
          \/ ~SecondaryTooEarly /\ pass' = [pass EXCEPT !.pc = "net", !.expected = PoolExpected, !.ok = ok]
      BY <1>7 DEF ReconcileAddrPoolResource
    <3> HIDE DEF ok
    <3> QED
      BY <3>1, <3>2
  <2>3. ASSUME NEW a \in BOOLEAN, NEW b \in BOOLEAN,
               pass' = [pass EXCEPT !.pc = "net", !.expected = a, !.ok = b]
        PROVE  PassRecord' /\ Stays("net")
    BY <1>1, <2>3 DEF PassRecord, Stays, Passes, Working
  <2> QED
    BY <1>2, <2>1, <2>2, <2>3
<1>8. ASSUME ReconcileNetworkResource
      PROVE  PassRecord' /\ (Leaves \/ Stays("link"))
  <2>1. pass.pc \in Working /\ "link" \in Passes
    BY <1>8 DEF ReconcileNetworkResource, Working, Passes
  <2>2. NextPool(TRUE) \/ NextPool(FALSE) \/ pass' = [pass EXCEPT !.pc = "link"]
    BY <1>8 DEF ReconcileNetworkResource
  <2> QED
    BY <1>2, <1>4, <2>1, <2>2
<1>9. ASSUME UpdateNetworkAddrPools
      PROVE  PassRecord' /\ (Leaves \/ pass' = pass)
  <2>1. pass.pc \in Working
    BY <1>9 DEF UpdateNetworkAddrPools, Working
  <2>2. NextPool(TRUE) \/ NextPool(FALSE) \/ pass' = pass
    BY <1>9 DEF UpdateNetworkAddrPools
  <2>3. pass' = pass => PassRecord'
    BY <1>1 DEF PassRecord
  <2> QED
    BY <1>2, <2>1, <2>2, <2>3
<1> QED
  BY <1>5, <1>6, <1>7, <1>8, <1>9

LEMMA StartPassMoves ==
  ASSUME TypeInv, StartPass, Networks' = Networks, Pools' = Pools
  PROVE  /\ PassTyped'
         /\ \/ UNCHANGED <<pass, fresh>>
            \/ /\ pass.pc = "idle" /\ pass'.pc = "network" /\ pass'.cp = pass.cp
               /\ fresh' = fresh \cup {<<"pass", n>> : n \in Live(net)}
               /\ pass'.cn = [n \in Networks |->
                               [type |-> net[n].type, pools |-> net[n].pools,
                                dyn |-> net[n].dyn, scope |-> net[n].scope]]
<1>1. PassTyped /\ PassRecord
  BY DEF TypeInv, PassTyped
<1>2. CASE UNCHANGED <<pass, fresh>>
  <2>1. PassRecord'
    BY <1>1, <1>2 DEF PassRecord
  <2>2. CN' = CN /\ CopyType' = CopyType
    BY <1>2 DEF CN, N, CopyType
  <2> QED
    BY <1>1, <1>2, <2>1, <2>2 DEF PassTyped
<1>3. CASE ~UNCHANGED <<pass, fresh>>
  <2> DEFINE copies == [n \in Networks |->
                          [type |-> net[n].type, pools |-> net[n].pools,
                           dyn |-> net[n].dyn, scope |-> net[n].scope]]
  <2>1. PICK s \in [1..Cardinality(Live(net)) -> Live(net)] :
          pass' = [pass EXCEPT !.pc = "network", !.todo = s, !.cn = copies]
    BY <1>3 DEF StartPass, Networks
  <2>2. s \in Seq(Networks)
    <3>1. Live(net) \subseteq Networks /\ IsFiniteSet(Networks)
      BY DEF Live, Networks, TypeInv, WorldTyped
    <3>2. Cardinality(Live(net)) \in Nat
      BY <3>1, FS_Subset, FS_CardinalityType
    <3> QED
      BY <2>1, <3>1, <3>2
  <2>3. copies \in [Networks -> CopyType]
    BY DEF TypeInv, WorldTyped, CopyType, NetworkType
  <2>4. pass.pc = "idle" /\ fresh' = fresh \cup {<<"pass", n>> : n \in Live(net)}
    BY <1>3 DEF StartPass
  <2> HIDE DEF copies
  <2>5. /\ pass'.pc = "network" /\ pass'.cp = pass.cp /\ pass'.cn = copies /\ PassRecord'
    BY <1>1, <2>1, <2>2 DEF PassRecord, Passes
  <2>6. PassTyped'
    <3>1. pass'.cn \in [Networks' -> CopyType']
      BY <2>3, <2>5 DEF CopyType
    <3> QED
      BY <1>1, <2>5, <3>1 DEF PassTyped, Working
  <2> QED
    BY <2>4, <2>5, <2>6 DEF copies
<1> QED
  BY <1>2, <1>3

LEMMA NextNetworkMoves ==
  ASSUME TypeInv, NextNetwork, Networks' = Networks, Pools' = Pools
  PROVE  /\ PassTyped'
         /\ pass.pc # "idle" /\ pass'.pc \in {"network", "route"} /\ pass'.cn = pass.cn
         /\ \A p \in DOMAIN pass'.cp : pass'.cp[p] = pool[p].spec
         /\ \E S \in SUBSET Pools : fresh' = fresh \cup {<<"pass", p>> : p \in S}
<1>1. /\ PassRecord /\ pass.pc = "network" /\ pass.todo # <<>>
      /\ pass.cn \in [Networks -> CopyType] /\ pool \in [Pools -> PoolType]
  BY DEF TypeInv, PassTyped, NextNetwork, WorldTyped
<1>2. N \in Networks /\ CN \in CopyType /\ CN.pools \in Seq(Pools) /\ pass.todo \in Seq(Networks)
      /\ Tail(pass.todo) \in Seq(Networks)
  BY <1>1 DEF PassRecord, N, CN, CopyType
<1> DEFINE exist == {i \in DOMAIN CN.pools : pool[CN.pools[i]].life # "none"}
<1>3. PICK f \in [1..Cardinality(exist) -> exist] :
        LET ps == [i \in DOMAIN f |-> CN.pools[f[i]]] IN
        /\ pass' = [pass EXCEPT !.cp = [p \in {ps[i] : i \in DOMAIN ps} |-> pool[p].spec],
                                !.ps = ps, !.errs = @ \/ ps # CN.pools,
                                !.pc = IF ps = <<>> THEN "network" ELSE "route",
                                !.todo = IF ps = <<>> THEN Tail(@) ELSE @]
        /\ fresh' = fresh \cup {<<"pass", ps[i]>> : i \in DOMAIN ps}
  BY DEF NextNetwork
<1> DEFINE ps == [i \in DOMAIN f |-> CN.pools[f[i]]]
           found == {ps[i] : i \in DOMAIN ps}
<1>4. Cardinality(exist) \in Nat
  <2>1. DOMAIN CN.pools = 1..Len(CN.pools) /\ Len(CN.pools) \in Nat
    BY <1>2
  <2>2. IsFiniteSet(1..Len(CN.pools))
    BY <2>1, FS_Interval
  <2>3. exist \subseteq 1..Len(CN.pools)
    BY <2>1
  <2> QED
    BY <2>2, <2>3, FS_Subset, FS_CardinalityType
<1>5. /\ ps \in Seq(Pools)
      /\ \A i \in DOMAIN ps : ps[i] \in Pools /\ Has(CN.pools, ps[i])
      /\ found \subseteq Pools
  <2>1. \A i \in DOMAIN f : f[i] \in DOMAIN CN.pools /\ ps[i] = CN.pools[f[i]]
    BY <1>3
  <2>2. \A i \in DOMAIN ps : ps[i] \in Pools /\ Has(CN.pools, ps[i])
    BY <1>2, <2>1 DEF Has
  <2>3. DOMAIN ps = 1..Cardinality(exist)
    BY <1>3
  <2> HIDE DEF exist
  <2>4. ps \in [1..Cardinality(exist) -> Pools]
    BY <2>2, <2>3
  <2> QED
    BY <1>4, <2>2, <2>4
<1> DEFINE specs == [p \in found |-> pool[p].spec]
           c == IF ps = <<>> THEN "network" ELSE "route"
           t == IF ps = <<>> THEN Tail(pass.todo) ELSE pass.todo
           e == pass.errs \/ ps # CN.pools
<1>6. pass' = [pass EXCEPT !.cp = specs, !.ps = ps, !.errs = e, !.pc = c, !.todo = t]
  BY <1>3
<1>7. fresh' = fresh \cup {<<"pass", p>> : p \in found}
  BY <1>3
<1>8. /\ c \in {"network", "route"} /\ c \in Passes /\ t \in Seq(Networks) /\ e \in BOOLEAN
      /\ c = "route" => ps # <<>> /\ t = pass.todo
  BY <1>1, <1>2 DEF PassRecord, Passes, Working
<1>9. /\ DOMAIN specs = found /\ \A p \in found : specs[p] = pool[p].spec /\ specs[p] \in Nat \ {0}
      /\ \A i \in DOMAIN ps : ps[i] \in found
  BY <1>1, <1>5 DEF PoolType
<1> HIDE DEF specs, c, t, e, ps, found
<1>10. /\ pass'.cp = specs /\ pass'.ps = ps /\ pass'.pc = c /\ pass'.todo = t
       /\ pass'.cn = pass.cn /\ PassRecord'
  BY <1>1, <1>5, <1>6, <1>8 DEF PassRecord
<1>11. pass'.cn \in [Networks' -> CopyType']
  BY <1>1, <1>10 DEF CopyType
<1>12. pass'.pc \in Working => pass'.todo # <<>> /\ pass'.ps # <<>> /\ CN' = CN
  BY <1>1, <1>8, <1>10 DEF Working, CN, N
<1>13. PassTyped'
  BY <1>5, <1>9, <1>10, <1>11, <1>12 DEF PassTyped
<1> QED
  BY <1>1, <1>5, <1>7, <1>8, <1>9, <1>10, <1>13

LEMMA EndPassMoves ==
  ASSUME TypeInv, EndPass, Networks' = Networks, Pools' = Pools
  PROVE  PassTyped' /\ pass'.pc = "idle" /\ DOMAIN pass'.cp = {}
<1>1. PassRecord
  BY DEF TypeInv, PassTyped
<1>2. /\ pass'.pc = "idle" /\ pass'.cp = <<>> /\ PassRecord'
  <2>1. PICK s : pass' = [pass EXCEPT !.pc = "idle", !.todo = <<>>, !.ps = <<>>, !.cn = <<>>,
                                      !.cp = <<>>, !.errs = FALSE, !.wait = FALSE,
                                      !.expected = FALSE, !.ok = FALSE, !.scopes = s]
    BY DEF EndPass
  <2>2. pass' = [pc |-> "idle", todo |-> <<>>, ps |-> <<>>, cn |-> <<>>, cp |-> <<>>,
                 scopes |-> s, expected |-> FALSE, ok |-> FALSE, wait |-> FALSE, errs |-> FALSE]
    BY <1>1, <2>1 DEF PassRecord
  <2>3. <<>> \in Seq(Networks) /\ <<>> \in Seq(Pools) /\ "idle" \in Passes
    BY DEF Passes
  <2> QED
    BY <2>2, <2>3 DEF PassRecord
<1>3. DOMAIN pass'.cp = {}
  BY <1>2
<1> QED
  BY <1>2, <1>3 DEF PassTyped, Working

LEMMA StepTyped == TypeInv /\ [Next]_vars => TypeInv'
<1> SUFFICES ASSUME TypeInv, [Next]_vars PROVE TypeInv'
  OBVIOUS
<1>1. CASE Next
  <2>1. WorldTyped' /\ Networks' = Networks /\ Pools' = Pools
    BY <1>1, StepWorld, WorldStepTyped DEF TypeInv
  <2>2. WorkersTyped'
    BY <1>1, StepWorkers
  <2>3. PassTyped /\ PassRecord
    BY DEF TypeInv, PassTyped
  <2>4. ASSUME pass' = pass PROVE PassTyped'
    <3>1. PassRecord' /\ CN' = CN /\ CopyType' = CopyType
      BY <2>1, <2>3, <2>4 DEF PassRecord, CN, N, CopyType
    <3> QED
      BY <2>1, <2>3, <2>4, <3>1 DEF PassTyped
  <2> SUFFICES PassTyped'
    BY <2>1, <2>2 DEF TypeInv
  <2>5. CASE ReconcilePlatformNetworks
    <3>1. CASE StartPass \/ NextNetwork \/ EndPass
      BY <2>1, <3>1, StartPassMoves, NextNetworkMoves, EndPassMoves
    <3>2. CASE SkipPool \/ LockHostRequest \/ ReconcileAddrPoolResource
               \/ ReconcileNetworkResource \/ UpdateNetworkAddrPools
      <4>1. pass.pc \in Working
        BY <2>1, <3>2, PassMoves, PassWrites DEF Working
      <4>2. {"network", "lockStandby", "pool", "net", "link"} \subseteq Passes \ {"idle"}
        BY DEF Passes, Working
      <4> QED
        BY <2>1, <2>4, <3>2, <4>1, <4>2, PassMoves, LeavesTyped, StaysTyped
    <3> QED
      BY <2>5, <3>1, <3>2 DEF ReconcilePlatformNetworks
  <2>6. CASE ~ReconcilePlatformNetworks
    <3>1. pass' = pass
      BY <1>1, <2>6, NextCases
         DEF NetworkController, FetchNetwork, NotifyNetwork, SaveNetwork, PoolController,
             FetchPool, ResetPool, NotifyPool, SavePool, Elsewhere, EnsurePoolsComplete,
             VimLocks, VimUnlocks, UserActs
    <3> QED
      BY <2>4, <3>1
  <2> QED
    BY <2>5, <2>6
<1>2. CASE UNCHANGED vars
  BY <1>2 DEF vars, objVars, TypeInv, WorldTyped, WorkersTyped, PassTyped, PassRecord, CopyType,
              Networks, Pools, CN, N
<1> QED
  BY <1>1, <1>2

\* What CasesAssumption says of the initial states.
LEMMA InitCases ==
  ASSUME Init
  PROVE  /\ TypeInv /\ Networks \cap Pools = {}
         /\ pass.pc = "idle" /\ DOMAIN pass.cp = {} /\ pn = NoWork /\ ap = NoWork
         /\ \A l \in sys.links : sys.dyn[l[1]] # "none"
         /\ \A k, l \in sys.links : k[1] = l[1] /\ fam[k[2]] = fam[l[2]] => k = l
         /\ \A p \in Pools : /\ sys.val[p] = 0 => sys.full[p]
                             /\ pool[p].observed <= pool[p].gen
                             /\ Seen(pool[p]) => ~sys.full[p] \/ Matches(sys.val[p], pool[p].spec)
         /\ \A n \in Networks : /\ net[n].observed <= net[n].gen
                                /\ Seen(net[n]) /\ net[n].type # "other"
                                   => sys.dyn[n] = net[n].dyn
<1>1. PICK c \in Cases :
        /\ sx = c.sx /\ fam = c.fam /\ net = c.net /\ pool = c.pool /\ sys = c.sys
        /\ host = [scope |-> c.scope, queued |-> FALSE, locked |-> FALSE,
                   active |-> "not_required", standby |-> "not_required"]
        /\ pn = NoWork /\ ap = NoWork
        /\ \E s : pass = [pc |-> "idle", todo |-> <<>>, ps |-> <<>>, cn |-> <<>>, cp |-> <<>>,
                          scopes |-> s, expected |-> FALSE, ok |-> FALSE, wait |-> FALSE,
                          errs |-> FALSE]
        /\ later = c.later /\ faults = c.faults
  BY DEF Init
<1> DEFINE ns == DOMAIN c.net
           ps == DOMAIN c.pool
<1>2. /\ IsFiniteSet(ns) /\ ns \cap ps = {}
      /\ c.sx \in BOOLEAN /\ c.scope \in Scopes /\ c.fam \in [ps -> {4, 6}]
      /\ c.net \in [ns -> NetworkType(ps)] /\ c.pool \in [ps -> PoolType]
      /\ c.sys \in SystemType(ns, ps)
      /\ c.later \in Seq(ActType(ns, ps))
      /\ \A l \in c.sys.links : c.sys.dyn[l[1]] # "none"
      /\ \A k, l \in c.sys.links : k[1] = l[1] /\ c.fam[k[2]] = c.fam[l[2]] => k = l
      /\ \A p \in ps : /\ c.sys.val[p] = 0 => c.sys.full[p]
                       /\ c.pool[p].observed <= c.pool[p].gen
                       /\ Seen(c.pool[p]) => ~c.sys.full[p] \/ Matches(c.sys.val[p], c.pool[p].spec)
      /\ \A n \in ns : /\ c.net[n].observed <= c.net[n].gen
                       /\ Seen(c.net[n]) /\ c.net[n].type # "other"
                          => c.sys.dyn[n] = c.net[n].dyn
  BY <1>1, CasesAssumption
<1>3. Networks = ns /\ Pools = ps
  BY <1>1, <1>2 DEF Networks, Pools
<1>4. WorldTyped
  BY <1>1, <1>2, <1>3 DEF WorldTyped
<1>5. WorkersTyped
  BY <1>1, <1>2 DEF WorkersTyped, HostType, Strategies
<1>6. /\ pass.pc = "idle" /\ pass.cp = <<>> /\ PassRecord
  <2>1. <<>> \in Seq(Networks) /\ <<>> \in Seq(Pools) /\ "idle" \in Passes
    BY DEF Passes
  <2> QED
    BY <1>1, <2>1 DEF PassRecord
<1>7. DOMAIN pass.cp = {}
  BY <1>6
<1>8. PassTyped
  BY <1>6, <1>7 DEF PassTyped, Working
<1> QED
  BY <1>1, <1>2, <1>3, <1>4, <1>5, <1>6, <1>7, <1>8 DEF TypeInv

-----------------------------------------------------------------------------
(* Associations.                                                           *)

\* The steps that change the associations.
LEMMA LinkSteps ==
  ASSUME TypeInv, Next
  PROVE  \/ sys'.links = sys.links /\ sys'.dyn = sys.dyn
         \/ ReconcileNetworkResource /\ sys' = SetNetwork
         \/ /\ UpdateNetworkAddrPools /\ sys'.dyn = sys.dyn
            /\ \/ /\ Associated(N, P) = {} /\ sys.dyn[N] # "none"
                  /\ sys'.links = sys.links \cup {<<N, P>>}
               \/ /\ sys'.links \subseteq sys.links
                  /\ \A l \in sys.links \ sys'.links : l[1] = N
<1>1. sys \in SystemType(Networks, Pools)
  BY DEF TypeInv, WorldTyped
<1>2. CASE NetworkController \/ PoolController
  BY <1>2 DEF NetworkController, FetchNetwork, NotifyNetwork, SaveNetwork, PoolController,
              FetchPool, ResetPool, NotifyPool, SavePool
<1>3. CASE Elsewhere \/ UserActs
  <2>1. \/ sys' = sys
        \/ \E p, v : sys' = [sys EXCEPT !.val[p] = v, !.full[p] = TRUE]
        \/ \E p, v : sys' = [sys EXCEPT !.full[p] = v]
    <3>1. CASE Elsewhere
      BY <3>1 DEF Elsewhere, EnsurePoolsComplete, VimLocks, VimUnlocks
    <3>2. CASE UserActs
      <4>1. Head(later).kind \in {"pool", "deletePool", "pools", "dyn", "scope", "deleteNetwork", "loss"}
        BY <3>2 DEF UserActs, TypeInv, WorldTyped, ActType
      <4>2. CASE Head(later).kind = "loss"
        BY <3>2, <4>2 DEF UserActs
      <4>3. CASE Head(later).kind # "loss"
        BY <3>2, <4>1, <4>3 DEF UserActs
      <4> QED
        BY <4>2, <4>3
    <3> QED
      BY <1>3, <3>1, <3>2
  <2> QED
    BY <1>1, <2>1 DEF SystemType
<1>4. CASE ReconcilePlatformNetworks
  <2>1. CASE StartPass \/ NextNetwork \/ SkipPool \/ LockHostRequest \/ EndPass
    BY <2>1 DEF StartPass, NextNetwork, SkipPool, LockHostRequest, EndPass
  <2>2. CASE ReconcileAddrPoolResource
    <3>1. sys' = sys \/ sys' = SetPool
      BY <2>2, PassWrites
    <3> QED
      BY <1>1, <3>1 DEF SetPool, SystemType
  <2>3. CASE ReconcileNetworkResource
    BY <2>3, PassWrites
  <2>4. CASE UpdateNetworkAddrPools
    <3>1. \/ sys' = sys
          \/ /\ Associated(N, P) = {} /\ sys.dyn[N] # "none"
             /\ sys' = [sys EXCEPT !.links = sys.links \cup {<<N, P>>}]
          \/ sys' = [sys EXCEPT !.links = sys.links \ {<<N, q>> : q \in Associated(N, P)}]
      BY <2>4, PassWrites
    <3> QED
      BY <1>1, <2>4, <3>1 DEF SystemType
  <2> QED
    BY <1>4, <2>1, <2>2, <2>3, <2>4 DEF ReconcilePlatformNetworks
<1> QED
  BY <1>2, <1>3, <1>4, NextCases

\* SetNetwork gives a network that is new its first pool, and others none.
LEMMA NetworkSet ==
  ASSUME TypeInv, pass.pc \in Working
  PROVE  /\ SetNetwork.val = sys.val /\ SetNetwork.full = sys.full
         /\ SetNetwork.dyn = [sys.dyn EXCEPT ![N] = CN.dyn] /\ CN.dyn \in Dyns
         /\ \/ SetNetwork.links = sys.links
            \/ sys.dyn[N] = "none" /\ SetNetwork.links = sys.links \cup {<<N, CN.pools[1]>>}
<1>1. sys \in SystemType(Networks, Pools) /\ N \in Networks /\ CN.dyn \in Dyns
  BY AtWork DEF TypeInv, WorldTyped, CopyType
<1> QED
  BY <1>1 DEF SetNetwork, SystemType

LEMMA StepLinks ==
  ASSUME TypeInv, LinksInv, [Next]_vars
  PROVE  LinksInv'
<1>1. sys \in SystemType(Networks, Pools)
  BY DEF TypeInv, WorldTyped
<1>2. CASE Next
  <2>1. fam' = fam
    BY <1>2, StepWorld DEF WorldStep
  <2>2. CASE sys'.links = sys.links /\ sys'.dyn = sys.dyn
    BY <2>1, <2>2 DEF LinksInv
  <2>3. CASE ReconcileNetworkResource /\ sys' = SetNetwork
    <3>1. pass.pc \in Working
      BY <2>3, PassWrites DEF Working
    <3>2. /\ sys'.dyn = [sys.dyn EXCEPT ![N] = CN.dyn] /\ CN.dyn # "none" /\ N \in Networks
          /\ \/ sys'.links = sys.links
             \/ sys.dyn[N] = "none" /\ sys'.links = sys.links \cup {<<N, CN.pools[1]>>}
      BY <2>3, <3>1, NetworkSet, AtWork DEF Dyns
    <3>3. sys.dyn \in [Networks -> Dyns \cup {"none"}] /\ sys.links \subseteq Networks \X Pools
      BY <1>1 DEF SystemType
    <3>4. \A l \in sys'.links : l \in sys.links \/ (l = <<N, CN.pools[1]>> /\ sys.dyn[N] = "none")
      BY <3>2
    <3>5. \A l \in sys'.links : sys'.dyn[l[1]] # "none"
      BY <3>2, <3>3, <3>4 DEF LinksInv
    <3>6. sys.dyn[N] = "none" => \A l \in sys.links : l[1] # N
      BY DEF LinksInv
    <3>7. \A k, l \in sys'.links : k[1] = l[1] /\ fam[k[2]] = fam[l[2]] => k = l
      BY <3>4, <3>6 DEF LinksInv
    <3> QED
      BY <2>1, <3>5, <3>7 DEF LinksInv
  <2>4. CASE /\ sys'.dyn = sys.dyn
             /\ Associated(N, P) = {} /\ sys.dyn[N] # "none"
             /\ sys'.links = sys.links \cup {<<N, P>>}
    <3>1. sys.links \subseteq Networks \X Pools
      BY <1>1 DEF SystemType
    <3>2. \A l \in sys.links : ~(l[1] = N /\ fam[l[2]] = fam[P])
      BY <2>4, <3>1 DEF Associated, Pools
    <3>3. \A k, l \in sys'.links : k[1] = l[1] /\ fam[k[2]] = fam[l[2]] => k = l
      BY <2>4, <3>2 DEF LinksInv
    <3>4. \A l \in sys'.links : sys'.dyn[l[1]] # "none"
      BY <2>4 DEF LinksInv
    <3> QED
      BY <2>1, <3>3, <3>4 DEF LinksInv
  <2>5. CASE sys'.dyn = sys.dyn /\ sys'.links \subseteq sys.links
    BY <2>1, <2>5 DEF LinksInv
  <2> QED
    BY <1>2, <2>2, <2>3, <2>4, <2>5, LinkSteps
<1>3. CASE UNCHANGED vars
  BY <1>3 DEF vars, LinksInv
<1> QED
  BY <1>2, <1>3

\* Whatever the user switches and whichever request fails half-way, a network never has
\* two pools of one family: a new association is created only after the old one is
\* deleted, and a network that is created has none yet.
THEOREM OnePoolKept == Spec => []OnePoolPerFamily
<1>1. Init => TypeInv /\ LinksInv
  BY InitCases DEF LinksInv
<1>2. TypeInv /\ LinksInv /\ [Next]_vars => (TypeInv /\ LinksInv)'
  BY StepTyped, StepLinks
<1>3. TypeInv /\ LinksInv => OnePoolPerFamily
  <2> SUFFICES ASSUME TypeInv, LinksInv, NEW n \in DOMAIN net, NEW p \in DOMAIN pool
               PROVE  Cardinality(Associated(n, p)) <= 1
    BY DEF OnePoolPerFamily
  <2>1. \A q, r \in Associated(n, p) : q = r
    BY DEF Associated, LinksInv
  <2>2. CASE Associated(n, p) = {}
    BY <2>2, FS_EmptySet
  <2>3. CASE Associated(n, p) # {}
    <3>1. PICK q : Associated(n, p) = {q}
      BY <2>1, <2>3
    <3>2. Cardinality({q}) = 1
      BY FS_Singleton
    <3> QED
      BY <3>1, <3>2
  <2> QED
    BY <2>2, <2>3
<1> QED
  BY <1>1, <1>2, <1>3, PTL DEF Spec

\* A step of the pass for a cluster network, or outside the pass, leaves the pools of the
\* OAM network alone.
LEMMA OAMPoolsKept ==
  ASSUME TypeInv, StepInv, Next, pass.pc \in Working => CN.type \in Clusters
  PROVE  OAMPools' = OAMPools
<1>1. sys.links \subseteq Networks \X Pools /\ sys'.links \subseteq Networks \X Pools
      /\ \A n \in Networks : net'[n].type = net[n].type
  BY StepWorld DEF TypeInv, WorldTyped, WorldStep, SystemType
<1>2. CASE sys'.links = sys.links
  BY <1>1, <1>2 DEF OAMPools
<1>3. CASE sys'.links # sys.links
  <2>1. pass.pc \in Working /\ pass.pc # "idle"
    BY <1>3, LinkSteps, PassWrites DEF Working
  <2>2. N \in Networks /\ net[N].type \in Clusters
    BY <2>1, AtWork DEF StepInv, CN
  <2>3. \A l \in (sys'.links \ sys.links) \cup (sys.links \ sys'.links) : l[1] = N
    BY <1>3, <2>1, LinkSteps, NetworkSet
  <2> QED
    BY <1>1, <2>2, <2>3 DEF OAMPools, Clusters
<1> QED
  BY <1>2, <1>3

LEMMA StepSteps ==
  ASSUME TypeInv, StepInv, [Next]_vars
  PROVE  StepInv'
<1>1. CASE Next
  <2>1. /\ Networks' = Networks /\ Pools' = Pools /\ sx' = sx
        /\ \A n \in Networks : net'[n].type = net[n].type
    BY <1>1, StepWorld, WorldStepTyped DEF TypeInv, WorldStep
  <2>2. ASSUME pass' = pass PROVE StepInv'
    <3>1. CN' = CN
      BY <2>2 DEF CN, N
    <3>2. pass.pc \in {"net", "link"} => ~SecondaryTooEarly'
      <4>1. CASE CN.type \in Clusters
        BY <1>1, <3>1, <4>1, OAMPoolsKept DEF StepInv, SecondaryTooEarly
      <4>2. CASE CN.type \notin Clusters
        BY <3>1, <4>2 DEF SecondaryTooEarly
      <4> QED
        BY <4>1, <4>2
    <3> QED
      BY <2>1, <2>2, <3>2 DEF StepInv
  <2>3. ASSUME Leaves, pass.pc \in Working PROVE StepInv'
    BY <2>1, <2>3 DEF Leaves, StepInv, Working
  <2>4. ASSUME NEW c, Stays(c), pass.pc \in Working, c \in {"network", "lockStandby", "pool"},
               c \in {"lockStandby", "pool"} => ~sx
        PROVE  StepInv'
    BY <2>1, <2>4 DEF Stays, StepInv, Working
  <2>5. ASSUME NEW c \in {"net", "link"}, Stays(c), pass.pc \in Working, ~SecondaryTooEarly
        PROVE  StepInv'
    <3>1. CN' = CN
      BY <2>5 DEF CN, N, Stays
    <3>2. ~SecondaryTooEarly'
      <4>1. CASE CN.type \in Clusters
        BY <1>1, <2>5, <3>1, <4>1, OAMPoolsKept DEF SecondaryTooEarly
      <4>2. CASE CN.type \notin Clusters
        BY <3>1, <4>2 DEF SecondaryTooEarly
      <4> QED
        BY <4>1, <4>2
    <3> QED
      BY <2>1, <2>5, <3>2 DEF StepInv, Stays, Working
  <2>6. CASE StartPass
    <3>1. CASE UNCHANGED pass
      BY <2>2, <3>1
    <3>2. CASE ~UNCHANGED pass
      <4>1. /\ pass'.pc = "network"
            /\ \A n \in Networks : pass'.cn[n].type = net[n].type
        BY <2>1, <2>6, <3>2, StartPassMoves
      <4> QED
        BY <2>1, <4>1 DEF StepInv
    <3> QED
      BY <3>1, <3>2
  <2>7. CASE NextNetwork \/ EndPass
    <3>1. \/ pass'.pc = "idle"
          \/ pass.pc # "idle" /\ pass'.pc \in {"network", "route"} /\ pass'.cn = pass.cn
      BY <2>1, <2>7, NextNetworkMoves, EndPassMoves
    <3> QED
      BY <2>1, <3>1 DEF StepInv
  <2>8. CASE SkipPool \/ LockHostRequest
    <3>1. pass.pc \in Working
      BY <2>1, <2>8, PassMoves DEF Working
    <3>2. At("lockActive") => ~sx
      BY <3>1, Routes DEF At, Working
    <3> QED
      BY <2>1, <2>3, <2>4, <2>8, <3>1, <3>2, PassMoves DEF StepInv
  <2>9. CASE ReconcileAddrPoolResource \/ ReconcileNetworkResource \/ UpdateNetworkAddrPools
    <3>1. pass.pc \in Working
      BY <2>9, PassWrites DEF Working
    <3> QED
      BY <2>1, <2>2, <2>3, <2>5, <2>9, <3>1, PassMoves, PassWrites DEF StepInv
  <2>10. CASE ~ReconcilePlatformNetworks
    <3>1. pass' = pass
      BY <1>1, <2>10, NextCases
         DEF NetworkController, FetchNetwork, NotifyNetwork, SaveNetwork, PoolController,
             FetchPool, ResetPool, NotifyPool, SavePool, Elsewhere, EnsurePoolsComplete,
             VimLocks, VimUnlocks, UserActs
    <3> QED
      BY <2>2, <3>1
  <2> QED
    BY <2>6, <2>7, <2>8, <2>9, <2>10 DEF ReconcilePlatformNetworks
<1>2. CASE UNCHANGED vars
  BY <1>2 DEF vars, objVars, StepInv, Networks, SecondaryTooEarly, OAMPools, CN, N
<1> QED
  BY <1>1, <1>2

\* However the pass, the user and the other controllers interleave, a cluster network
\* that was given two pools gets the second one only while the OAM network has two: no
\* step between the check and the request takes a pool away from the OAM network.
THEOREM StacksOrdered == Spec => DualStackOrder
<1> DEFINE Inv == TypeInv /\ LinksInv /\ StepInv
<1>1. Init => Inv
  BY InitCases DEF LinksInv, StepInv
<1>2. Inv /\ [Next]_vars => Inv'
  BY StepTyped, StepLinks, StepSteps
<1>3. Inv /\ [Next]_vars =>
        [\A l \in sys'.links \ sys.links :
           /\ net[l[1]].type \in Clusters /\ Len(pass.cn[l[1]].pools) = 2
           /\ \E k \in sys.links : k[1] = l[1]
           => Cardinality(OAMPools) = 2]_vars
  <2> SUFFICES ASSUME Inv, Next, NEW l \in sys'.links \ sys.links,
                      net[l[1]].type \in Clusters, Len(pass.cn[l[1]].pools) = 2,
                      NEW k \in sys.links, k[1] = l[1]
               PROVE  Cardinality(OAMPools) = 2
    OBVIOUS
  <2>1. CASE ReconcileNetworkResource /\ sys' = SetNetwork
    <3>1. pass.pc \in Working
      BY <2>1, PassWrites DEF Working
    <3>2. sys.dyn[N] = "none" /\ l = <<N, CN.pools[1]>>
      BY <2>1, <3>1, NetworkSet
    <3> QED
      BY <3>2 DEF LinksInv
  <2>2. CASE UpdateNetworkAddrPools /\ sys'.links = sys.links \cup {<<N, P>>}
    <3>1. l = <<N, P>> /\ pass.pc = "link" /\ N \in Networks
      BY <2>2, PassWrites, AtWork DEF Working
    <3>2. ~SecondaryTooEarly /\ CN.type \in Clusters /\ Len(CN.pools) = 2
      BY <3>1 DEF StepInv, CN
    <3> QED
      BY <3>2 DEF SecondaryTooEarly
  <2> QED
    BY <2>1, <2>2, LinkSteps
<1> QED
  BY <1>1, <1>2, <1>3, PTL DEF Spec, DualStackOrder

-----------------------------------------------------------------------------
(* Reconfiguration.                                                        *)

\* Only the user changes the specification of a network.
LEMMA SpecSteps ==
  ASSUME TypeInv, Next, NEW n \in Networks
  PROVE  \/ net'[n].pools = net[n].pools /\ net'[n].dyn = net[n].dyn /\ net'[n].gen = net[n].gen
         \/ /\ UserActs /\ Head(later).name = n /\ net'[n].gen = net[n].gen + 1
            /\ \/ /\ Head(later).kind = "pools" /\ net'[n].pools = Head(later).value
                  /\ net'[n].dyn = net[n].dyn
               \/ Head(later).kind = "dyn" /\ net'[n].pools = net[n].pools
<1>1. net \in [Networks -> NetworkType(Pools)] /\ net[n] \in NetworkType(Pools)
      /\ later \in Seq(ActType(Networks, Pools))
  BY DEF TypeInv, WorldTyped
<1> DEFINE Kept == net'[n].pools = net[n].pools /\ net'[n].dyn = net[n].dyn /\ net'[n].gen = net[n].gen
<1>0. ASSUME NEW m, NEW o, net' = [net EXCEPT ![m] = o]
      PROVE  net'[n] = IF n = m THEN o ELSE net[n]
  BY <1>0, <1>1
<1>2. CASE FetchNetwork
  <2>1. PICK m \in queue \cap DOMAIN net :
          LET new == UpdateConfigStatus(UpdateDeploymentScope(net[m])) IN
          net' = net \/ net' = [net EXCEPT ![m] = new]
          \/ net' = [net EXCEPT ![m] = [new EXCEPT !.fin = TRUE]]
    BY <1>2 DEF FetchNetwork, WriteNet
  <2> DEFINE new == UpdateConfigStatus(UpdateDeploymentScope(net[m]))
  <2>2. m \in Networks /\ net[m] \in NetworkType(Pools)
    BY <1>1, <2>1 DEF Networks
  <2>3. /\ new \in NetworkType(Pools) /\ new.pools = net[m].pools /\ new.dyn = net[m].dyn
        /\ new.gen = net[m].gen
    BY <2>2, Configured
  <2> HIDE DEF new
  <2>4. /\ [new EXCEPT !.fin = TRUE].pools = net[m].pools /\ [new EXCEPT !.fin = TRUE].dyn = net[m].dyn
        /\ [new EXCEPT !.fin = TRUE].gen = net[m].gen
    BY <2>3 DEF NetworkType
  <2>5. \E o : /\ o.pools = net[m].pools /\ o.dyn = net[m].dyn /\ o.gen = net[m].gen
               /\ net' = net \/ net' = [net EXCEPT ![m] = o]
    BY <2>1, <2>3, <2>4 DEF new
  <2> QED
    BY <1>1, <2>2, <2>5
<1>3. CASE NotifyNetwork \/ SaveNetwork
  <2>1. \/ net' = net
        \/ net' = [net EXCEPT ![pn.name] = [net[pn.name] EXCEPT !.life = "none"]]
        \/ net' = [net EXCEPT ![pn.name].observed = net[pn.name].gen]
    BY <1>3 DEF NotifyNetwork, SaveNetwork, WriteNet
  <2>2. \/ net' = net
        \/ net' = [net EXCEPT ![pn.name] = [net[pn.name] EXCEPT !.life = "none"]]
        \/ net' = [net EXCEPT ![pn.name] = [net[pn.name] EXCEPT !.observed = net[pn.name].gen]]
    BY <1>1, <2>1
  <2>3. net'[n] = net[n] \/ net'[n] = [net[n] EXCEPT !.life = "none"]
        \/ net'[n] = [net[n] EXCEPT !.observed = net[n].gen]
    <3>1. CASE net' = [net EXCEPT ![pn.name] = [net[pn.name] EXCEPT !.life = "none"]]
      BY <1>0, <3>1
    <3>2. CASE net' = [net EXCEPT ![pn.name] = [net[pn.name] EXCEPT !.observed = net[pn.name].gen]]
      BY <1>0, <3>2
    <3> QED
      BY <2>2, <3>1, <3>2
  <2> QED
    BY <1>1, <2>3 DEF NetworkType
<1>4. CASE ReconcileNetworkResource
  <2>1. net' = net \/ \E a, b : net' = [net EXCEPT ![N] = [net[N] EXCEPT !.inSync = a, !.reconciled = b]]
    BY <1>4, PassWrites DEF WriteNet, Status
  <2>2. net'[n] = net[n] \/ \E a, b : net'[n] = [net[n] EXCEPT !.inSync = a, !.reconciled = b]
    <3>1. CASE net' # net
      <4>1. PICK a, b : net' = [net EXCEPT ![N] = [net[N] EXCEPT !.inSync = a, !.reconciled = b]]
        BY <2>1, <3>1
      <4>2. net'[n] = IF n = N THEN [net[N] EXCEPT !.inSync = a, !.reconciled = b] ELSE net[n]
        BY <1>0, <4>1
      <4> QED
        BY <4>2
    <3> QED
      BY <3>1
  <2> QED
    BY <1>1, <2>2 DEF NetworkType
<1>5. CASE UserActs
  <2> DEFINE e == Head(later)
  <2>1. e \in ActType(Networks, Pools)
    BY <1>1, <1>5 DEF UserActs
  <2>2. CASE e.kind \in {"pool", "deletePool", "loss"}
    BY <1>5, <2>2 DEF UserActs, objVars
  <2>3. CASE e.kind = "pools"
    <3>1. net' = [net EXCEPT ![e.name] = [net[e.name] EXCEPT !.pools = e.value,
                                                             !.gen = net[e.name].gen + 1]]
      BY <1>5, <2>3 DEF UserActs, WriteNet
    <3> QED
      BY <1>1, <1>5, <2>3, <3>1 DEF NetworkType
  <2>4. CASE e.kind = "dyn"
    <3>1. net' = [net EXCEPT ![e.name] = [net[e.name] EXCEPT !.dyn = e.value,
                                                             !.gen = net[e.name].gen + 1]]
      BY <1>5, <2>4 DEF UserActs, WriteNet
    <3> QED
      BY <1>1, <1>5, <2>4, <3>1 DEF NetworkType
  <2>5. CASE e.kind \in {"scope", "deleteNetwork"}
    <3>1. \/ net' = [net EXCEPT ![e.name] = [net[e.name] EXCEPT !.asked = e.value]]
          \/ net' = [net EXCEPT ![e.name] = [net[e.name] EXCEPT !.life = "deleting"]]
      BY <1>5, <2>5 DEF UserActs, WriteNet
    <3>2. \/ net'[n] = net[n] \/ net'[n] = [net[n] EXCEPT !.asked = e.value]
          \/ net'[n] = [net[n] EXCEPT !.life = "deleting"]
      BY <1>0, <3>1
    <3> QED
      BY <1>1, <3>2 DEF NetworkType
  <2> QED
    BY <2>1, <2>2, <2>3, <2>4, <2>5 DEF ActType
<1>6. CASE PoolController \/ Elsewhere
  BY <1>6 DEF PoolController, FetchPool, ResetPool, NotifyPool, SavePool, Elsewhere,
              EnsurePoolsComplete, VimLocks, VimUnlocks, objVars
<1>7. CASE ReconcilePlatformNetworks /\ ~ReconcileNetworkResource
  BY <1>7 DEF ReconcilePlatformNetworks, StartPass, NextNetwork, SkipPool, LockHostRequest,
              ReconcileAddrPoolResource, UpdateNetworkAddrPools, EndPass, objVars
<1> QED
  BY <1>2, <1>3, <1>4, <1>5, <1>6, <1>7, NextCases DEF NetworkController

\* Where the copies of the pass come from.
LEMMA CopySteps ==
  ASSUME TypeInv, Next, pass'.pc # "idle"
  PROVE  \/ pass.pc # "idle" /\ pass'.cn = pass.cn
         \/ /\ StartPass /\ pass.pc = "idle"
            /\ fresh' = fresh \cup {<<"pass", n>> : n \in Live(net)}
            /\ pass'.cn = [n \in Networks |->
                            [type |-> net[n].type, pools |-> net[n].pools,
                             dyn |-> net[n].dyn, scope |-> net[n].scope]]
<1>1. Networks' = Networks /\ Pools' = Pools
  BY StepWorld, WorldStepTyped DEF TypeInv
<1>2. CASE ReconcilePlatformNetworks
  <2>1. CASE StartPass
    BY <1>1, <2>1, StartPassMoves
  <2>2. CASE NextNetwork \/ EndPass
    BY <1>1, <2>2, NextNetworkMoves, EndPassMoves
  <2>3. CASE SkipPool \/ LockHostRequest \/ ReconcileAddrPoolResource
             \/ ReconcileNetworkResource \/ UpdateNetworkAddrPools
    <3>1. pass.pc \in Working
      BY <1>1, <2>3, PassMoves, PassWrites DEF Working
    <3>2. Leaves \/ pass' = pass \/ \E c : Stays(c)
      BY <1>1, <2>3, PassMoves
    <3> QED
      BY <3>1, <3>2 DEF Leaves, Stays, Working
  <2> QED
    BY <1>2, <2>1, <2>2, <2>3 DEF ReconcilePlatformNetworks
<1>3. CASE ~ReconcilePlatformNetworks
  BY <1>3, NextCases
     DEF NetworkController, FetchNetwork, NotifyNetwork, SaveNetwork, PoolController,
         FetchPool, ResetPool, NotifyPool, SavePool, Elsewhere, EnsurePoolsComplete,
         VimLocks, VimUnlocks, UserActs
<1> QED
  BY <1>2, <1>3

\* What the user does yet was to be done before.
LEMMA LaterSteps ==
  ASSUME TypeInv, Next, NEW i \in DOMAIN later'
  PROVE  \E j \in DOMAIN later : later'[i] = later[j]
<1>1. later \in Seq(ActType(Networks, Pools))
  BY DEF TypeInv, WorldTyped
<1>2. CASE UserActs
  <2>1. later # <<>> /\ later' = Tail(later)
    BY <1>2 DEF UserActs
  <2>2. /\ Len(later) \in Nat /\ Len(Tail(later)) = Len(later) - 1
        /\ Tail(later) \in Seq(ActType(Networks, Pools))
        /\ \A j \in 1..Len(Tail(later)) : Tail(later)[j] = later[j + 1]
    BY <1>1, <2>1, HeadTailProperties, LenProperties
  <2>3. DOMAIN later' = 1..Len(Tail(later)) /\ DOMAIN later = 1..Len(later)
    BY <1>1, <2>1, <2>2
  <2>4. i + 1 \in DOMAIN later /\ later'[i] = later[i + 1]
    BY <2>1, <2>2, <2>3
  <2> QED
    BY <2>4
<1>3. later' = later \/ UserActs
  BY NextCases
     DEF NetworkController, FetchNetwork, NotifyNetwork, SaveNetwork, PoolController,
         FetchPool, ResetPool, NotifyPool, SavePool, Elsewhere, EnsurePoolsComplete,
         VimLocks, VimUnlocks, ReconcilePlatformNetworks, StartPass, NextNetwork, SkipPool,
         LockHostRequest, ReconcileAddrPoolResource, ReconcileNetworkResource,
         UpdateNetworkAddrPools, EndPass
<1> QED
  BY <1>2, <1>3

\* No step makes a network use a pool that it did not use, nor was to use, before.
LEMMA UsesSteps ==
  ASSUME TypeInv, Next, NEW n \in Networks, NEW p \in Pools, Uses(n, p)'
  PROVE  Uses(n, p)
<1>1. later \in Seq(ActType(Networks, Pools))
  BY DEF TypeInv, WorldTyped
<1>2. ASSUME Has(net'[n].pools, p) PROVE Uses(n, p)
  <2>1. CASE net'[n].pools = net[n].pools
    BY <1>2, <2>1 DEF Uses
  <2>2. CASE UserActs /\ Head(later).name = n /\ Head(later).kind = "pools"
             /\ net'[n].pools = Head(later).value
    <3>1. 1 \in DOMAIN later /\ later[1] = Head(later)
      BY <1>1, <2>2 DEF UserActs
    <3> QED
      BY <1>2, <2>2, <3>1 DEF Uses
  <2> QED
    BY <2>1, <2>2, SpecSteps
<1>3. ASSUME <<n, p>> \in sys'.links PROVE Uses(n, p)
  <2>1. ASSUME pass.pc \in Working, n = N, Has(CN.pools, p)
        PROVE  Uses(n, p)
    BY <2>1 DEF Uses, CN, Working
  <2>2. CASE <<n, p>> \in sys.links
    BY <2>2 DEF Uses
  <2>3. CASE ReconcileNetworkResource /\ sys' = SetNetwork /\ <<n, p>> \notin sys.links
    <3>1. pass.pc \in Working
      BY <2>3, PassWrites DEF Working
    <3>2. n = N /\ p = CN.pools[1]
      BY <1>3, <2>3, <3>1, NetworkSet
    <3>3. 1 \in DOMAIN CN.pools
      BY <3>1, AtWork
    <3> QED
      BY <2>1, <3>1, <3>2, <3>3 DEF Has
  <2>4. CASE UpdateNetworkAddrPools /\ <<n, p>> \in {<<N, P>>}
    <3>1. pass.pc \in Working
      BY <2>4, PassWrites DEF Working
    <3> QED
      BY <2>1, <2>4, <3>1, AtWork
  <2> QED
    BY <1>3, <2>2, <2>3, <2>4, LinkSteps
<1>4. ASSUME pass'.pc # "idle", Has(pass'.cn[n].pools, p) PROVE Uses(n, p)
  <2>1. CASE pass.pc # "idle" /\ pass'.cn = pass.cn
    BY <1>4, <2>1 DEF Uses
  <2>2. CASE pass'.cn = [m \in Networks |->
                          [type |-> net[m].type, pools |-> net[m].pools,
                           dyn |-> net[m].dyn, scope |-> net[m].scope]]
    BY <1>4, <2>2 DEF Uses
  <2> QED
    BY <1>4, <2>1, <2>2, CopySteps
<1>5. ASSUME NEW i \in DOMAIN later', later'[i].kind = "pools", later'[i].name = n,
             Has(later'[i].value, p)
      PROVE  Uses(n, p)
  BY <1>5, LaterSteps DEF Uses
<1> QED
  BY <1>2, <1>3, <1>4, <1>5 DEF Uses

LEMMA StepUnshared ==
  ASSUME TypeInv, UnsharedInv, [Next]_vars
  PROVE  UnsharedInv'
<1>1. CASE Next
  <2>1. Networks' = Networks /\ Pools' = Pools
    BY <1>1, StepWorld, WorldStepTyped DEF TypeInv
  <2>2. \A n \in Networks, p \in Pools : Uses(n, p)' => Uses(n, p)
    BY <1>1, UsesSteps
  <2> QED
    BY <2>1, <2>2 DEF UnsharedInv
<1>2. CASE UNCHANGED vars
  BY <1>2 DEF vars, objVars, UnsharedInv, Uses, Networks, Pools
<1> QED
  BY <1>1, <1>2

\* The steps that change a pool of the system.
LEMMA PoolSteps ==
  ASSUME TypeInv, Next, NEW p \in Pools
  PROVE  \/ sys'.val[p] = sys.val[p] /\ sys'.full[p] = sys.full[p]
         \/ /\ ReconcileAddrPoolResource /\ p = P /\ PoolExpected /\ Required
            /\ pass.pc \in {"route", "pool"} /\ sys' = SetPool
            /\ Matches(sys'.val[p], CP) /\ sys'.full[p] = TRUE
         \/ /\ EnsurePoolsComplete /\ ~sys.full[p]
            /\ Matches(sys'.val[p], pool[p].spec) /\ sys'.full[p] = TRUE
         \/ /\ UserActs /\ Head(later).kind = "loss"
            /\ sys'.val[p] = sys.val[p] /\ sys'.full[p] = (sys.val[p] = 0)
<1>1. sys \in SystemType(Networks, Pools)
  BY DEF TypeInv, WorldTyped
<1>2. CASE NetworkController \/ PoolController
  BY <1>2 DEF NetworkController, FetchNetwork, NotifyNetwork, SaveNetwork, PoolController,
              FetchPool, ResetPool, NotifyPool, SavePool
<1>3. CASE Elsewhere
  <2>1. CASE EnsurePoolsComplete
    <3>1. PICK q \in Pools :
            /\ ~sys.full[q]
            /\ sys' = [sys EXCEPT !.val[q] = Sent(sys.val[q], pool[q].spec), !.full[q] = TRUE]
      BY <2>1 DEF EnsurePoolsComplete, isAddrPoolIncomplete, Live, TypeInv, WorldTyped
    <3>2. Matches(Sent(sys.val[q], pool[q].spec), pool[q].spec)
      BY SentMatches DEF TypeInv, WorldTyped, PoolType
    <3>3. IF p = q THEN sys'.val[p] = Sent(sys.val[q], pool[q].spec) /\ sys'.full[p] = TRUE
                   ELSE sys'.val[p] = sys.val[p] /\ sys'.full[p] = sys.full[p]
      BY <1>1, <3>1 DEF SystemType
    <3> QED
      BY <2>1, <3>1, <3>2, <3>3
  <2>2. CASE VimLocks \/ VimUnlocks
    BY <2>2 DEF VimLocks, VimUnlocks
  <2> QED
    BY <1>3, <2>1, <2>2 DEF Elsewhere
<1>4. CASE UserActs
  <2>1. Head(later).kind \in {"pool", "deletePool", "pools", "dyn", "scope", "deleteNetwork", "loss"}
    BY <1>4 DEF UserActs, TypeInv, WorldTyped, ActType
  <2>2. CASE Head(later).kind = "loss"
    <3>1. PICK q : sys' = [sys EXCEPT !.full[q] = (sys.val[q] = 0)]
      BY <1>4, <2>2 DEF UserActs
    <3> QED
      BY <1>1, <1>4, <2>2, <3>1 DEF SystemType
  <2>3. CASE Head(later).kind # "loss"
    BY <1>4, <2>1, <2>3 DEF UserActs
  <2> QED
    BY <2>2, <2>3
<1>5. CASE ReconcilePlatformNetworks
  <2>1. CASE StartPass \/ NextNetwork \/ SkipPool \/ LockHostRequest \/ EndPass
    BY <2>1 DEF StartPass, NextNetwork, SkipPool, LockHostRequest, EndPass
  <2>2. CASE ReconcileAddrPoolResource
    <3>1. pass.pc \in {"route", "pool"} /\ (sys' = sys \/ (sys' = SetPool /\ PoolExpected /\ Required))
      BY <2>2, PassWrites
    <3>2. P \in Pools /\ CP \in Nat
      BY <3>1, AtWork DEF Working
    <3>3. CASE sys' = SetPool
      <4>1. IF p = P THEN sys'.val[p] = Sent(sys.val[P], CP) /\ sys'.full[p] = TRUE
                     ELSE sys'.val[p] = sys.val[p] /\ sys'.full[p] = sys.full[p]
        BY <1>1, <3>2, <3>3 DEF SetPool, SystemType
      <4>2. Matches(Sent(sys.val[P], CP), CP)
        BY <3>2, SentMatches
      <4> QED
        BY <2>2, <3>1, <3>3, <4>1, <4>2
    <3> QED
      BY <3>1, <3>3
  <2>3. CASE ReconcileNetworkResource
    <3>1. (sys' = sys \/ sys' = SetNetwork) /\ pass.pc \in Working
      BY <2>3, PassWrites DEF Working
    <3> QED
      BY <3>1, NetworkSet
  <2>4. CASE UpdateNetworkAddrPools
    <3>1. sys' = sys \/ \E s : sys' = [sys EXCEPT !.links = s]
      BY <2>4, PassWrites
    <3> QED
      BY <1>1, <3>1 DEF SystemType
  <2> QED
    BY <1>5, <2>1, <2>2, <2>3, <2>4 DEF ReconcilePlatformNetworks
<1> QED
  BY <1>2, <1>3, <1>4, <1>5, NextCases

\* A case in which no two networks are given the same pool.
CaseUses(c, n, p) ==
  \/ Has(c.net[n].pools, p) \/ <<n, p>> \in c.sys.links
  \/ \E i \in DOMAIN c.later :
       c.later[i].kind = "pools" /\ c.later[i].name = n /\ Has(c.later[i].value, p)
Unshared ==
  \A c \in Cases : \A n, m \in DOMAIN c.net : \A p \in DOMAIN c.pool :
    CaseUses(c, n, p) /\ CaseUses(c, m, p) => n = m

LEMMA InitUnshared ==
  ASSUME Unshared, Init
  PROVE  UnsharedInv
<1>1. pass.pc = "idle" /\ TypeInv
  BY InitCases
<1>2. PICK c \in Cases : net = c.net /\ pool = c.pool /\ fam = c.fam /\ sys = c.sys /\ later = c.later
  BY DEF Init
<1>3. Networks = DOMAIN c.net /\ Pools = DOMAIN c.pool
  BY <1>1, <1>2 DEF Networks, Pools, TypeInv, WorldTyped
<1>4. \A n \in Networks, p \in Pools : Uses(n, p) => CaseUses(c, n, p)
  BY <1>1, <1>2 DEF Uses, CaseUses
<1> QED
  BY <1>3, <1>4 DEF Unshared, UnsharedInv

\* A pool that the system associates with a network, and that lacks nothing, is changed
\* only where a reconfiguration is allowed, provided that no two networks share a pool:
\* whatever the user changes between the check of the copies and the request, the pool
\* is changed for the network that it belongs to, and the association that tells a
\* reconfiguration from a new pool is there.
THEOREM ReconfiguredWhereAllowed ==
  ASSUME Unshared
  PROVE  Spec => ReconfiguresAllowed
<1> DEFINE Inv == TypeInv /\ LinksInv /\ StepInv /\ UnsharedInv
<1>1. Init => Inv
  BY InitCases, InitUnshared DEF LinksInv, StepInv
<1>2. Inv /\ [Next]_vars => Inv'
  BY StepTyped, StepLinks, StepSteps, StepUnshared
<1>3. Inv /\ [Next]_vars =>
        [\A l \in sys.links :
           LET n == l[1]
               p == l[2] IN
           sys.val[p] # sys'.val[p] /\ sys.full[p] /\ net[n].type # "other"
           => /\ pass.cn[n].scope = "principal"
              /\ net[n].type \in Core
              /\ net[n].type = "mgmt" => sx /\ host.locked]_vars
  <2> SUFFICES ASSUME Inv, Next, NEW n, NEW p, <<n, p>> \in sys.links,
                      sys.val[p] # sys'.val[p], sys.full[p], net[n].type # "other"
               PROVE  /\ pass.cn[n].scope = "principal"
                      /\ net[n].type \in Core
                      /\ net[n].type = "mgmt" => sx /\ host.locked
    BY DEF TypeInv, WorldTyped, SystemType
  <2>1. n \in Networks /\ p \in Pools
    BY DEF TypeInv, WorldTyped, SystemType
  <2>2. /\ ReconcileAddrPoolResource /\ p = P /\ PoolExpected
        /\ pass.pc \in {"route", "pool"}
    BY <2>1, PoolSteps
  <2>3. N \in Networks /\ Has(CN.pools, P) /\ CN \in CopyType
    BY <2>2, AtWork DEF Working
  <2>4. Uses(n, p) /\ Uses(N, p)
    BY <2>2, <2>3 DEF Uses, CN
  <2>5. n = N /\ CN = pass.cn[n] /\ CN.type = net[n].type
    BY <2>1, <2>2, <2>3, <2>4 DEF UnsharedInv, CN, StepInv
  <2>6. IsReconfiguration /\ ~isAddrPoolIncomplete(P)
    BY <2>1, <2>2, <2>5 DEF IsReconfiguration, Associated, Pools, isAddrPoolIncomplete
  <2>7. CN.type \in Core /\ CN.scope = "principal" /\ (CN.type = "mgmt" => sx)
    BY <2>2, <2>5, <2>6 DEF PoolExpected, OtherPoolExpected
  <2>8. CN.type = "mgmt" => pass.pc = "route" /\ Route = "pool"
    BY <2>2, <2>7 DEF ReconcileAddrPoolResource, At, StepInv
  <2> QED
    BY <2>5, <2>7, <2>8, Routes
<1> QED
  BY <1>1, <1>2, <1>3, PTL DEF Spec, ReconfiguresAllowed

-----------------------------------------------------------------------------
(* The status of a pool.                                                   *)

\* The steps that change what the object of a pool asks for, or tells of the system.
PoolKept(p) ==
  /\ pool'[p].spec = pool[p].spec /\ pool'[p].gen = pool[p].gen
  /\ pool'[p].observed = pool[p].observed
  /\ pool'[p].inSync = pool[p].inSync
  /\ pool'[p].reconciled => pool[p].reconciled
PoolSaved(p) ==
  /\ SavePool /\ ap.pc = "save" /\ p = ap.name /\ Fresh("ap", p)
  /\ pool'[p] = [pool[p] EXCEPT !.observed = pool[p].gen]
PoolChanged(p) ==
  /\ UserActs /\ fresh' = Others("user", p)
  /\ pool'[p].gen = pool[p].gen + 1 /\ pool'[p].observed = pool[p].observed
PoolReported(p) ==
  /\ ReconcileAddrPoolResource /\ p = P /\ pass.pc \in Working /\ Fresh("pass", p)
  /\ \E ok, b \in BOOLEAN :
       /\ pool'[p] = [pool[p] EXCEPT !.inSync = ok, !.reconciled = b]
       /\ ok => Matches(sys'.val[p], CP)
  /\ pool'[p] = pool[p] \/ fresh' = Others("pass", p)

LEMMA PoolObjectSteps ==
  ASSUME TypeInv, Next, NEW p \in Pools
  PROVE  PoolKept(p) \/ PoolSaved(p) \/ PoolChanged(p) \/ PoolReported(p)
<1>1. pool \in [Pools -> PoolType] /\ pool[p] \in PoolType
      /\ later \in Seq(ActType(Networks, Pools))
  BY DEF TypeInv, WorldTyped
<1>0. ASSUME NEW q, NEW o, pool' = [pool EXCEPT ![q] = o]
      PROVE  pool'[p] = IF p = q THEN o ELSE pool[p]
  BY <1>0, <1>1
<1>2. ASSUME pool'[p] = pool[p] PROVE PoolKept(p)
  BY <1>2 DEF PoolKept
<1>3. ASSUME \/ pool'[p] = [pool[p] EXCEPT !.fin = TRUE]
             \/ pool'[p] = [pool[p] EXCEPT !.reconciled = FALSE]
             \/ pool'[p] = [pool[p] EXCEPT !.life = "none"]
             \/ pool'[p] = [pool[p] EXCEPT !.life = "deleting"]
      PROVE  PoolKept(p)
  BY <1>1, <1>3 DEF PoolKept, PoolType
<1>4. CASE FetchPool
  <2>1. pool' = pool \/ \E q : pool' = [pool EXCEPT ![q] = [pool[q] EXCEPT !.fin = TRUE]]
    BY <1>4 DEF FetchPool, WritePool
  <2>2. CASE pool' # pool
    <3>1. PICK q : pool' = [pool EXCEPT ![q] = [pool[q] EXCEPT !.fin = TRUE]]
      BY <2>1, <2>2
    <3> QED
      BY <1>0, <1>2, <1>3, <3>1
  <2> QED
    BY <1>2, <2>2
<1>5. CASE ResetPool
  <2>1. \/ pool' = pool \/ pool' = [pool EXCEPT ![ap.name] = [pool[ap.name] EXCEPT !.life = "none"]]
        \/ pool' = [pool EXCEPT ![ap.name] = [pool[ap.name] EXCEPT !.reconciled = FALSE]]
    BY <1>5 DEF ResetPool, WritePool
  <2>2. CASE pool' = [pool EXCEPT ![ap.name] = [pool[ap.name] EXCEPT !.life = "none"]]
    BY <1>0, <1>2, <1>3, <2>2
  <2>3. CASE pool' = [pool EXCEPT ![ap.name] = [pool[ap.name] EXCEPT !.reconciled = FALSE]]
    BY <1>0, <1>2, <1>3, <2>3
  <2> QED
    BY <1>2, <2>1, <2>2, <2>3
<1>6. CASE SavePool
  <2>1. \/ pool' = pool
        \/ /\ ap.pc = "save" /\ Fresh("ap", ap.name)
           /\ pool' = [pool EXCEPT ![ap.name].observed = pool[ap.name].gen]
    BY <1>6 DEF SavePool
  <2>2. CASE pool' # pool /\ p = ap.name
    BY <1>1, <1>6, <2>1, <2>2 DEF PoolSaved
  <2>3. CASE pool' # pool /\ p # ap.name
    BY <1>1, <1>2, <2>1, <2>3
  <2> QED
    BY <1>2, <2>2, <2>3
<1>7. CASE UserActs
  <2> DEFINE e == Head(later)
  <2>1. e \in ActType(Networks, Pools)
    BY <1>1, <1>7 DEF UserActs
  <2>2. CASE e.kind \in {"pools", "dyn", "scope", "deleteNetwork", "loss"}
    BY <1>2, <1>7, <2>2 DEF UserActs, objVars
  <2>3. CASE e.kind = "pool"
    <3> DEFINE g == pool[e.name].gen + 1
               new == [pool[e.name] EXCEPT !.spec = e.value, !.gen = g]
    <3>1. /\ pool' = [pool EXCEPT ![e.name] = new]
          /\ fresh' = IF new = pool[e.name] THEN fresh ELSE Others("user", e.name)
      BY <1>7, <2>3 DEF UserActs, WritePool
    <3>2. CASE p = e.name
      <4>1. pool'[p] = new
        BY <1>0, <3>1, <3>2
      <4>2. new.gen = g /\ new.observed = pool[p].observed /\ pool[p].gen \in Nat
        BY <1>1, <3>2 DEF PoolType
      <4>3. g # pool[p].gen
        BY <3>2, <4>2
      <4> HIDE DEF new
      <4> QED
        BY <1>7, <3>1, <3>2, <4>1, <4>2, <4>3 DEF PoolChanged
    <3>3. CASE p # e.name
      BY <1>0, <1>2, <3>1, <3>3
    <3> QED
      BY <3>2, <3>3
  <2>4. CASE e.kind = "deletePool"
    <3>1. pool' = [pool EXCEPT ![e.name] = [pool[e.name] EXCEPT !.life = "deleting"]]
      BY <1>7, <2>4 DEF UserActs, WritePool
    <3> QED
      BY <1>0, <1>2, <1>3, <3>1
  <2> QED
    BY <2>1, <2>2, <2>3, <2>4 DEF ActType
<1>8. CASE ReconcileAddrPoolResource
  <2>1. pass.pc \in Working
    BY <1>8, PassWrites DEF Working
  <2>2. CASE pool' # pool
    <3>1. PICK ok \in BOOLEAN :
            /\ Fresh("pass", P) /\ WritePool("pass", P, Status(pool[P], ok, PoolExpected))
            /\ ok => sys' = SetPool \/ (sys' = sys /\ ~IsAddrPoolUpdateRequired)
      BY <1>8, <2>2, PassWrites
    <3>5. ok => Matches(sys'.val[P], CP)
      <4>1. sys \in SystemType(Networks, Pools) /\ P \in Pools /\ CP \in Nat
        BY <2>1, AtWork DEF TypeInv, WorldTyped
      <4>2. SetPool.val[P] = Sent(sys.val[P], CP)
        BY <4>1 DEF SetPool, SystemType
      <4>3. Matches(SetPool.val[P], CP)
        BY <4>1, <4>2, SentMatches
      <4>4. sys.val[P] = CP => Matches(sys.val[P], CP)
        BY DEF Matches
      <4> QED
        BY <3>1, <4>3, <4>4 DEF IsAddrPoolUpdateRequired
    <3> DEFINE b == ok \/ (CN.scope = "bootstrap" /\ ~PoolExpected)
               new == [pool[P] EXCEPT !.inSync = ok, !.reconciled = b]
    <3>2. /\ pool' = [pool EXCEPT ![P] = new] /\ b \in BOOLEAN
          /\ fresh' = IF new = pool[P] THEN fresh ELSE Others("pass", P)
      BY <3>1 DEF WritePool, Status
    <3> HIDE DEF b
    <3>3. CASE p = P
      <4>1. pool'[p] = new
        BY <1>0, <3>2, <3>3
      <4>2. \E a, c \in BOOLEAN :
              /\ pool'[p] = [pool[p] EXCEPT !.inSync = a, !.reconciled = c]
              /\ a => Matches(sys'.val[p], CP)
        BY <3>2, <3>3, <3>5, <4>1
      <4> HIDE DEF new
      <4> QED
        BY <1>8, <2>1, <3>1, <3>2, <3>3, <4>1, <4>2 DEF PoolReported
    <3>4. CASE p # P
      BY <1>0, <1>2, <3>2, <3>4
    <3> QED
      BY <3>3, <3>4
  <2> QED
    BY <1>2, <2>2
<1>9. CASE NetworkController \/ NotifyPool \/ Elsewhere
  BY <1>2, <1>9 DEF NetworkController, FetchNetwork, NotifyNetwork, SaveNetwork, NotifyPool,
                    Elsewhere, EnsurePoolsComplete, VimLocks, VimUnlocks, objVars
<1>10. CASE ReconcilePlatformNetworks /\ ~ReconcileAddrPoolResource
  BY <1>2, <1>10
     DEF ReconcilePlatformNetworks, StartPass, NextNetwork, SkipPool, LockHostRequest,
         ReconcileNetworkResource, UpdateNetworkAddrPools, EndPass, objVars
<1> QED
  BY <1>4, <1>5, <1>6, <1>7, <1>8, <1>9, <1>10, NextCases DEF PoolController

\* Who gets hold of the latest version of an object.
LEMMA FreshSteps ==
  ASSUME TypeInv, Next, NEW x
  PROVE  /\ Fresh("pass", x)' => Fresh("pass", x) \/ StartPass \/ NextNetwork
         /\ Fresh("ap", x)' => Fresh("ap", x) \/ FetchPool
         /\ Fresh("pn", x)' => Fresh("pn", x) \/ FetchNetwork
<1> USE DEF Fresh, Others
<1>1. CASE NetworkController
  <2>1. CASE FetchNetwork
    BY <2>1 DEF FetchNetwork, WriteNet
  <2>2. CASE NotifyNetwork
    BY <2>2 DEF NotifyNetwork, WriteNet
  <2>3. CASE SaveNetwork
    BY <2>3 DEF SaveNetwork
  <2> QED
    BY <1>1, <2>1, <2>2, <2>3 DEF NetworkController
<1>2. CASE PoolController
  <2>1. CASE FetchPool
    BY <2>1 DEF FetchPool, WritePool
  <2>2. CASE ResetPool
    BY <2>2 DEF ResetPool, WritePool
  <2>3. CASE NotifyPool \/ SavePool
    BY <2>3 DEF NotifyPool, SavePool
  <2> QED
    BY <1>2, <2>1, <2>2, <2>3 DEF PoolController
<1>3. CASE ReconcilePlatformNetworks
  <2>1. CASE StartPass
    BY <2>1 DEF StartPass
  <2>2. CASE NextNetwork
    <3>1. \E S : fresh' = fresh \cup {<<"pass", p>> : p \in S}
      BY <2>2, NextNetworkMoves, StepWorld, WorldStepTyped DEF TypeInv
    <3> QED
      BY <2>2, <3>1
  <2>3. CASE SkipPool \/ LockHostRequest \/ UpdateNetworkAddrPools \/ EndPass
    BY <2>3 DEF SkipPool, LockHostRequest, UpdateNetworkAddrPools, EndPass, objVars
  <2>4. CASE ReconcileAddrPoolResource
    BY <2>4, PassWrites DEF WritePool
  <2>5. CASE ReconcileNetworkResource
    BY <2>5, PassWrites DEF WriteNet
  <2> QED
    BY <1>3, <2>1, <2>2, <2>3, <2>4, <2>5 DEF ReconcilePlatformNetworks
<1>4. CASE Elsewhere
  BY <1>4 DEF Elsewhere, EnsurePoolsComplete, VimLocks, VimUnlocks, objVars
<1>5. CASE UserActs
  <2>1. Head(later).kind \in {"pool", "deletePool", "pools", "dyn", "scope", "deleteNetwork", "loss"}
    BY <1>5 DEF UserActs, TypeInv, WorldTyped, ActType
  <2>2. fresh' = fresh \/ \E y : fresh' = {f \in fresh : f[2] # y \/ f[1] = "user"}
    BY <1>5, <2>1 DEF UserActs, WritePool, WriteNet, objVars
  <2> QED
    BY <2>2
<1> QED
  BY <1>1, <1>2, <1>3, <1>4, <1>5, NextCases

\* Where the pass's copies of the pools come from.
LEMMA PoolCopySteps ==
  ASSUME TypeInv, Next
  PROVE  \/ pass'.cp = pass.cp /\ (pass'.pc = "idle" => pass.pc = "idle")
         \/ NextNetwork /\ pass'.pc # "idle" /\ \A p \in DOMAIN pass'.cp : pass'.cp[p] = pool[p].spec
         \/ DOMAIN pass'.cp = {}
<1>1. Networks' = Networks /\ Pools' = Pools
  BY StepWorld, WorldStepTyped DEF TypeInv
<1>2. CASE ReconcilePlatformNetworks
  <2>1. CASE StartPass
    <3>1. PassRecord
      BY DEF TypeInv, PassTyped
    <3>2. pass' = pass \/ \E s, c : pass' = [pass EXCEPT !.pc = "network", !.todo = s, !.cn = c]
      BY <2>1 DEF StartPass
    <3> QED
      BY <3>1, <3>2 DEF PassRecord
  <2>2. CASE NextNetwork \/ EndPass
    BY <1>1, <2>2, NextNetworkMoves, EndPassMoves
  <2>3. CASE SkipPool \/ LockHostRequest \/ ReconcileAddrPoolResource
             \/ ReconcileNetworkResource \/ UpdateNetworkAddrPools
    <3>1. pass' = pass \/ Leaves \/ \E c \in {"network", "lockStandby", "pool", "net", "link"} : Stays(c)
      BY <1>1, <2>3, PassMoves
    <3> QED
      BY <3>1 DEF Leaves, Stays
  <2> QED
    BY <1>2, <2>1, <2>2, <2>3 DEF ReconcilePlatformNetworks
<1>3. CASE ~ReconcilePlatformNetworks
  BY <1>3, NextCases
     DEF NetworkController, FetchNetwork, NotifyNetwork, SaveNetwork, PoolController,
         FetchPool, ResetPool, NotifyPool, SavePool, Elsewhere, EnsurePoolsComplete,
         VimLocks, VimUnlocks, UserActs
<1> QED
  BY <1>2, <1>3

\* What a step makes of the status of a pool.
LEMMA PoolSeen ==
  ASSUME TypeInv, PoolInv, Next, NEW p \in Pools
  PROVE  /\ pool'[p].observed <= pool'[p].gen
         /\ \/ pool'[p].spec = pool[p].spec
            \/ ~Fresh("pass", p)' /\ ~Fresh("ap", p)' /\ ~Seen(pool'[p])
         /\ \/ Seen(pool'[p]) => Seen(pool[p])
            \/ Fresh("pass", p) /\ p = P /\ pass.pc \in Working /\ (Seen(pool'[p]) => Matches(sys'.val[p], CP))
         /\ pool'[p].reconciled => \/ pool[p].reconciled \/ ~Fresh("ap", p)'
<1>1. pool[p] \in PoolType /\ pool[p].observed <= pool[p].gen
  BY DEF TypeInv, WorldTyped, PoolInv
<1>2. CASE PoolKept(p)
  BY <1>1, <1>2 DEF PoolKept, Seen, InSync
<1>3. CASE PoolSaved(p)
  <2>1. /\ pool'[p].spec = pool[p].spec /\ pool'[p].gen = pool[p].gen
        /\ pool'[p].observed = pool[p].gen /\ pool'[p].reconciled = pool[p].reconciled
        /\ pool[p].gen \in Nat
    BY <1>1, <1>3 DEF PoolSaved, PoolType
  <2>2. ~pool[p].reconciled
    BY <1>3 DEF PoolSaved, PoolInv
  <2> QED
    BY <2>1, <2>2 DEF Seen, InSync
<1>4. CASE PoolChanged(p)
  <2>1. ~Fresh("pass", p)' /\ ~Fresh("ap", p)'
    BY <1>4 DEF PoolChanged, Fresh, Others
  <2>2. pool'[p].observed <= pool'[p].gen /\ pool'[p].observed # pool'[p].gen
    BY <1>1, <1>4 DEF PoolChanged, PoolType
  <2> QED
    BY <2>1, <2>2 DEF Seen
<1>5. CASE PoolReported(p)
  <2>1. PICK ok, b \in BOOLEAN :
          /\ pool'[p] = [pool[p] EXCEPT !.inSync = ok, !.reconciled = b]
          /\ ok => Matches(sys'.val[p], CP)
    BY <1>5 DEF PoolReported
  <2>2. /\ pool'[p].spec = pool[p].spec /\ pool'[p].gen = pool[p].gen
        /\ pool'[p].observed = pool[p].observed /\ pool'[p].inSync = ok
    BY <1>1, <2>1 DEF PoolType
  <2>3. pool'[p] = pool[p] \/ ~Fresh("ap", p)'
    BY <1>5 DEF PoolReported, Fresh, Others
  <2>4. p = P /\ Fresh("pass", p) /\ pass.pc \in Working
    BY <1>5 DEF PoolReported
  <2> QED
    BY <1>1, <2>1, <2>2, <2>3, <2>4 DEF Seen, InSync
<1> QED
  BY <1>2, <1>3, <1>4, <1>5, PoolObjectSteps

LEMMA StepPool ==
  ASSUME TypeInv, PoolInv, [Next]_vars
  PROVE  PoolInv'
<1>1. CASE Next
  <2>1. Pools' = Pools /\ Networks' = Networks
    BY <1>1, StepWorld, WorldStepTyped DEF TypeInv
  <2>2. ASSUME NEW p \in Pools
        PROVE  /\ (pool[p].observed <= pool[p].gen)'
               /\ (sys.val[p] = 0 => sys.full[p])'
               /\ (Seen(pool[p]) => ~sys.full[p] \/ Matches(sys.val[p], pool[p].spec))'
    <3>1. /\ pool[p].spec # 0
          /\ sys.val[p] = 0 => sys.full[p]
          /\ Seen(pool[p]) => ~sys.full[p] \/ Matches(sys.val[p], pool[p].spec)
      BY DEF PoolInv, TypeInv, WorldTyped, PoolType
    <3>2. sys'.val[p] = 0 => sys'.full[p]
      <4>1. ReconcileAddrPoolResource => CP # 0
        BY AtWork, PassWrites DEF Working
      <4>2. CASE sys'.val[p] = sys.val[p] /\ sys'.full[p] = (sys.val[p] = 0)
        BY <4>2
      <4> QED
        BY <1>1, <3>1, <4>1, <4>2, PoolSteps
    <3>3. ASSUME Seen(pool'[p]) PROVE ~sys'.full[p] \/ Matches(sys'.val[p], pool'[p].spec)
      <4>1. pool'[p].spec = pool[p].spec
        BY <1>1, <3>3, PoolSeen
      <4>2. CASE Fresh("pass", p) /\ p = P /\ pass.pc \in Working /\ Matches(sys'.val[p], CP)
        BY <4>1, <4>2, AtWork DEF PoolInv, CP
      <4>3. CASE Seen(pool[p])
        <5>1. CASE ReconcileAddrPoolResource /\ p = P /\ Matches(sys'.val[p], CP)
          <6>1. p \in DOMAIN pass.cp
            BY <5>1, AtWork, PassWrites DEF Working
          <6> QED
            BY <4>1, <4>3, <5>1, <6>1 DEF PoolInv, CP
        <5>2. CASE sys'.val[p] = sys.val[p] /\ sys'.full[p] = (sys.val[p] = 0)
          BY <3>1, <4>1, <4>3, <5>2
        <5> QED
          BY <1>1, <3>1, <4>1, <4>3, <5>1, <5>2, PoolSteps
      <4> QED
        BY <1>1, <3>3, <4>2, <4>3, PoolSeen
    <3> QED
      BY <1>1, <3>2, <3>3, PoolSeen
  <2>3. ASSUME NEW p \in DOMAIN pass'.cp, Fresh("pass", p)' \/ Seen(pool'[p])
        PROVE  pass'.cp[p] = pool'[p].spec
    <3>1. p \in Pools
      BY <1>1, <2>1, StepTyped DEF TypeInv, PassTyped
    <3>2. CASE NextNetwork
      <4>1. pool' = pool
        BY <3>2 DEF NextNetwork
      <4> QED
        BY <2>1, <3>2, <4>1, NextNetworkMoves
    <3>3. CASE pass'.cp = pass.cp /\ ~NextNetwork
      <4>1. ~StartPass
        BY <3>3 DEF StartPass, PoolInv
      <4>2. Fresh("pass", p)' => Fresh("pass", p)
        BY <1>1, <3>3, <4>1, FreshSteps
      <4>3. Seen(pool[p]) \/ Fresh("pass", p)
        BY <1>1, <2>3, <3>1, <4>2, PoolSeen
      <4>4. pool'[p].spec = pool[p].spec
        BY <1>1, <2>3, <3>1, PoolSeen
      <4> QED
        BY <3>3, <4>3, <4>4 DEF PoolInv
    <3> QED
      BY <1>1, <3>2, <3>3, PoolCopySteps
  <2>4. pass'.pc = "idle" => DOMAIN pass'.cp = {}
    BY <1>1, PoolCopySteps DEF PoolInv
  <2>5. /\ ap'.pc # "idle" => ~(ap'.due /\ ap'.deleting)
        /\ ap'.pc \in {"notify", "save"} /\ <<"ap", ap'.name>> \in fresh'
           => ~pool'[ap'.name].reconciled
    <3>1. CASE UNCHANGED ap /\ ~PoolController
      <4>1. ASSUME ap.pc \in {"notify", "save"}, <<"ap", ap.name>> \in fresh'
            PROVE  ~pool'[ap.name].reconciled
        <5>1. ap.name \in Pools
          BY <4>1 DEF TypeInv, WorkersTyped, NoWork, WorkType
        <5>2. PICK q \in Pools : q = ap.name
          BY <5>1
        <5>3. Fresh("ap", q)' /\ Fresh("ap", q)
          BY <1>1, <3>1, <4>1, <5>2, FreshSteps DEF PoolController, Fresh
        <5> QED
          BY <1>1, <4>1, <5>2, <5>3, PoolSeen DEF PoolInv
      <4> QED
        BY <3>1, <4>1 DEF PoolInv
    <3>2. CASE FetchPool
      <4>1. ap' = ap \/ \E q, a, b : /\ ap' = [pc |-> "reset", name |-> q, deleting |-> a, due |-> b]
                                     /\ ~(a /\ b)
        BY <3>2 DEF FetchPool
      <4>2. ap.pc = "idle"
        BY <3>2 DEF FetchPool
      <4> QED
        BY <4>1, <4>2
    <3>3. CASE ResetPool
      <4> DEFINE q == ap.name
      <4>1. q \in Pools /\ ap \in WorkType(ApPCs, Pools) /\ pool[q] \in PoolType /\ ~(ap.due /\ ap.deleting)
        BY <3>3 DEF ResetPool, TypeInv, WorkersTyped, WorldTyped, NoWork, WorkType, PoolInv
      <4>2. \E c \in {"notify", "clear"} : /\ ap' = [ap EXCEPT !.pc = c]
                                           /\ c = "notify" => ap.due
        BY <3>3 DEF ResetPool
      <4>3. ap'.due = ap.due /\ ap'.deleting = ap.deleting /\ ap'.name = q
            /\ (ap'.pc # "clear" => ap.due)
        BY <4>1, <4>2 DEF WorkType
      <4>4. CASE ap'.pc = "clear"
        BY <4>1, <4>3, <4>4
      <4>5. CASE ap'.pc # "clear"
        <5>1. ap.due /\ ~ap.deleting
          BY <4>1, <4>3, <4>5
        <5>2. ap' # [ap EXCEPT !.pc = "clear"]
          BY <4>1, <4>5 DEF WorkType
        <5>3. \/ ~pool[q].reconciled /\ pool' = pool
              \/ pool' = [pool EXCEPT ![q] = [pool[q] EXCEPT !.reconciled = FALSE]]
          BY <3>3, <5>1, <5>2 DEF ResetPool, WritePool
        <5>4. ~pool'[q].reconciled
          BY <4>1, <5>3 DEF PoolType, TypeInv, WorldTyped
        <5> QED
          BY <4>1, <4>3, <5>4
      <4> QED
        BY <4>4, <4>5
    <3>4. CASE NotifyPool
      <4>1. ap \in WorkType(ApPCs, Pools) /\ ap.pc = "notify"
        BY <3>4 DEF NotifyPool, TypeInv, WorkersTyped, NoWork
      <4>2. \E c : ap' = [ap EXCEPT !.pc = c]
        BY <3>4 DEF NotifyPool
      <4>3. ap'.due = ap.due /\ ap'.deleting = ap.deleting /\ ap'.name = ap.name
        BY <4>1, <4>2 DEF WorkType
      <4> QED
        BY <3>4, <4>1, <4>3 DEF NotifyPool, PoolInv, Fresh
    <3>5. CASE SavePool
      BY <3>5 DEF SavePool, NoWork
    <3>6. PoolController \/ UNCHANGED ap
      BY <1>1, NextCases
         DEF NetworkController, FetchNetwork, NotifyNetwork, SaveNetwork, Elsewhere,
             EnsurePoolsComplete, VimLocks, VimUnlocks, UserActs, ReconcilePlatformNetworks,
             StartPass, NextNetwork, SkipPool, LockHostRequest, ReconcileAddrPoolResource,
             ReconcileNetworkResource, UpdateNetworkAddrPools, EndPass
    <3> QED
      BY <3>1, <3>2, <3>3, <3>4, <3>5, <3>6 DEF PoolController
  <2> QED
    BY <2>1, <2>2, <2>3, <2>4, <2>5 DEF PoolInv, Fresh
<1>2. CASE UNCHANGED vars
  BY <1>2 DEF vars, objVars, PoolInv, Pools, Fresh, Seen, InSync
<1> QED
  BY <1>1, <1>2

\* A pool that says it is in sync and reconciled, and whose generation was observed, is
\* so in the system, or the system lacks some of its addresses: a status is written only
\* with the version that was compared, and a generation is recorded only after the
\* status of the generation before it was withdrawn.
THEOREM PoolStatusKept == Spec => []PoolStatusHolds
<1> DEFINE Inv == TypeInv /\ PoolInv
<1>1. Init => Inv
  BY InitCases DEF PoolInv, NoWork
<1>2. Inv /\ [Next]_vars => Inv'
  BY StepTyped, StepPool
<1>3. Inv => PoolStatusHolds
  BY DEF PoolInv, PoolStatusHolds, Live, TypeInv, WorldTyped
<1> QED
  BY <1>1, <1>2, <1>3, PTL DEF Spec

-----------------------------------------------------------------------------
(* The status of a network.                                                *)

\* The steps that change what the object of a network asks for, or tells of the system.
NetworkKept(n) ==
  /\ net'[n].dyn = net[n].dyn /\ net'[n].gen = net[n].gen
  /\ net'[n].observed = net[n].observed
  /\ net'[n].inSync = net[n].inSync
  /\ net'[n].reconciled => net[n].reconciled
NetworkSaved(n) ==
  /\ SaveNetwork /\ pn.pc = "save" /\ n = pn.name /\ Fresh("pn", n)
  /\ net'[n] = [net[n] EXCEPT !.observed = net[n].gen]
NetworkChanged(n) ==
  /\ UserActs /\ Head(later).name = n /\ fresh' = Others("user", n)
  /\ net'[n].gen = net[n].gen + 1 /\ net'[n].observed = net[n].observed
  /\ net'[n].inSync = net[n].inSync /\ net'[n].reconciled = net[n].reconciled
  /\ net'[n].dyn = net[n].dyn \/ Head(later).kind = "dyn"
NetworkReported(n) ==
  /\ ReconcileNetworkResource /\ n = N /\ pass.pc \in Working /\ Fresh("pass", n)
  /\ \E ok, b \in BOOLEAN :
       /\ net'[n] = [net[n] EXCEPT !.inSync = ok, !.reconciled = b]
       /\ ok /\ CN.type # "other" => sys'.dyn[n] = CN.dyn
  /\ net'[n] = net[n] \/ fresh' = Others("pass", n)

LEMMA NetworkObjectSteps ==
  ASSUME TypeInv, Next, NEW n \in Networks
  PROVE  NetworkKept(n) \/ NetworkSaved(n) \/ NetworkChanged(n) \/ NetworkReported(n)
<1>1. net \in [Networks -> NetworkType(Pools)] /\ net[n] \in NetworkType(Pools)
      /\ later \in Seq(ActType(Networks, Pools))
  BY DEF TypeInv, WorldTyped
<1>0. ASSUME NEW m, NEW o, net' = [net EXCEPT ![m] = o]
      PROVE  net'[n] = IF n = m THEN o ELSE net[n]
  BY <1>0, <1>1
<1>2. ASSUME net'[n] = net[n] PROVE NetworkKept(n)
  BY <1>2 DEF NetworkKept
<1>3. ASSUME \/ net'[n] = [net[n] EXCEPT !.life = "none"]
             \/ net'[n] = [net[n] EXCEPT !.life = "deleting"]
             \/ net'[n] = [net[n] EXCEPT !.asked = Head(later).value]
      PROVE  NetworkKept(n)
  BY <1>1, <1>3 DEF NetworkKept, NetworkType
<1>4. CASE FetchNetwork
  <2>1. PICK m \in queue \cap DOMAIN net :
          LET new == UpdateConfigStatus(UpdateDeploymentScope(net[m])) IN
          net' = net \/ net' = [net EXCEPT ![m] = new]
          \/ net' = [net EXCEPT ![m] = [new EXCEPT !.fin = TRUE]]
    BY <1>4 DEF FetchNetwork, WriteNet
  <2>2. CASE n = m
    <3> DEFINE new == UpdateConfigStatus(UpdateDeploymentScope(net[n]))
    <3>1. /\ new \in NetworkType(Pools) /\ new.dyn = net[n].dyn /\ new.gen = net[n].gen
          /\ new.observed = net[n].observed /\ new.inSync = net[n].inSync
          /\ new.reconciled => net[n].reconciled
      BY <1>1, Configured
    <3>2. net' = net \/ net' = [net EXCEPT ![n] = new]
          \/ net' = [net EXCEPT ![n] = [new EXCEPT !.fin = TRUE]]
      BY <2>1, <2>2
    <3> HIDE DEF new
    <3>3. LET o == [new EXCEPT !.fin = TRUE] IN
          /\ o.dyn = new.dyn /\ o.gen = new.gen /\ o.observed = new.observed
          /\ o.inSync = new.inSync /\ o.reconciled = new.reconciled
      BY <3>1 DEF NetworkType
    <3>4. CASE net' = [net EXCEPT ![n] = new]
      BY <1>0, <3>1, <3>4 DEF NetworkKept
    <3>5. CASE net' = [net EXCEPT ![n] = [new EXCEPT !.fin = TRUE]]
      BY <1>0, <3>1, <3>3, <3>5 DEF NetworkKept
    <3> QED
      BY <1>2, <3>2, <3>4, <3>5
  <2>3. CASE n # m
    BY <1>0, <1>2, <2>1, <2>3
  <2> QED
    BY <2>2, <2>3
<1>5. CASE NotifyNetwork
  <2>1. net' = net \/ net' = [net EXCEPT ![pn.name] = [net[pn.name] EXCEPT !.life = "none"]]
    BY <1>5 DEF NotifyNetwork, WriteNet
  <2>2. CASE net' = [net EXCEPT ![pn.name] = [net[pn.name] EXCEPT !.life = "none"]]
    BY <1>0, <1>2, <1>3, <2>2
  <2> QED
    BY <1>2, <2>1, <2>2
<1>6. CASE SaveNetwork
  <2>1. \/ net' = net
        \/ /\ pn.pc = "save" /\ Fresh("pn", pn.name)
           /\ net' = [net EXCEPT ![pn.name].observed = net[pn.name].gen]
    BY <1>6 DEF SaveNetwork
  <2>2. CASE net' # net /\ n = pn.name
    BY <1>1, <1>6, <2>1, <2>2 DEF NetworkSaved
  <2>3. CASE net' # net /\ n # pn.name
    BY <1>1, <1>2, <2>1, <2>3
  <2> QED
    BY <1>2, <2>2, <2>3
<1>7. CASE UserActs
  <2> DEFINE e == Head(later)
  <2>1. e \in ActType(Networks, Pools)
    BY <1>1, <1>7 DEF UserActs
  <2>2. CASE e.kind \in {"pool", "deletePool", "loss"}
    BY <1>2, <1>7, <2>2 DEF UserActs, objVars
  <2>3. CASE e.kind \in {"pools", "dyn"}
    <3> DEFINE g == net[e.name].gen + 1
               new == IF e.kind = "pools" THEN [net[e.name] EXCEPT !.pools = e.value, !.gen = g]
                      ELSE [net[e.name] EXCEPT !.dyn = e.value, !.gen = g]
    <3>1. /\ net' = [net EXCEPT ![e.name] = new]
          /\ fresh' = IF new = net[e.name] THEN fresh ELSE Others("user", e.name)
      BY <1>7, <2>3 DEF UserActs, WriteNet
    <3>2. CASE n = e.name
      <4>1. net'[n] = new
        BY <1>0, <3>1, <3>2
      <4>2. /\ new.gen = g /\ new.observed = net[n].observed /\ new.inSync = net[n].inSync
            /\ new.reconciled = net[n].reconciled /\ net[n].gen \in Nat
            /\ new.dyn = net[n].dyn \/ e.kind = "dyn"
        BY <1>1, <2>3, <3>2 DEF NetworkType
      <4>3. g # net[n].gen
        BY <3>2, <4>2
      <4> HIDE DEF new
      <4> QED
        BY <1>7, <3>1, <3>2, <4>1, <4>2, <4>3 DEF NetworkChanged
    <3>3. CASE n # e.name
      BY <1>0, <1>2, <3>1, <3>3
    <3> QED
      BY <3>2, <3>3
  <2>4. CASE e.kind = "scope"
    <3>1. net' = [net EXCEPT ![e.name] = [net[e.name] EXCEPT !.asked = e.value]]
      BY <1>7, <2>4 DEF UserActs, WriteNet
    <3> QED
      BY <1>0, <1>2, <1>3, <3>1
  <2>5. CASE e.kind = "deleteNetwork"
    <3>1. net' = [net EXCEPT ![e.name] = [net[e.name] EXCEPT !.life = "deleting"]]
      BY <1>7, <2>5 DEF UserActs, WriteNet
    <3> QED
      BY <1>0, <1>2, <1>3, <3>1
  <2> QED
    BY <2>1, <2>2, <2>3, <2>4, <2>5 DEF ActType
<1>8. CASE ReconcileNetworkResource
  <2>1. pass.pc \in Working
    BY <1>8, PassWrites DEF Working
  <2>2. CASE net' # net
    <3>1. PICK ok \in BOOLEAN, expected \in BOOLEAN :
            /\ Fresh("pass", N) /\ WriteNet("pass", N, Status(net[N], ok, expected))
            /\ ok => \/ CN.type = "other" \/ sys' = SetNetwork
                     \/ sys' = sys /\ ~IsNetworkUpdateRequired
      BY <1>8, <2>2, PassWrites
    <3>2. ok /\ CN.type # "other" => sys'.dyn[N] = CN.dyn
      <4>1. sys \in SystemType(Networks, Pools) /\ N \in Networks
        BY <2>1, AtWork DEF TypeInv, WorldTyped
      <4>2. SetNetwork.dyn[N] = CN.dyn
        BY <2>1, <4>1, NetworkSet DEF SystemType
      <4> QED
        BY <3>1, <4>2 DEF IsNetworkUpdateRequired
    <3> DEFINE b == ok \/ (CN.scope = "bootstrap" /\ ~expected)
               new == [net[N] EXCEPT !.inSync = ok, !.reconciled = b]
    <3>3. /\ net' = [net EXCEPT ![N] = new] /\ b \in BOOLEAN
          /\ fresh' = IF new = net[N] THEN fresh ELSE Others("pass", N)
      BY <3>1 DEF WriteNet, Status
    <3> HIDE DEF b
    <3>4. CASE n = N
      <4>1. net'[n] = new
        BY <1>0, <3>3, <3>4
      <4>2. \E a, c \in BOOLEAN :
              /\ net'[n] = [net[n] EXCEPT !.inSync = a, !.reconciled = c]
              /\ a /\ CN.type # "other" => sys'.dyn[n] = CN.dyn
        BY <3>2, <3>3, <3>4, <4>1
      <4> HIDE DEF new
      <4> QED
        BY <1>8, <2>1, <3>1, <3>3, <3>4, <4>1, <4>2 DEF NetworkReported
    <3>5. CASE n # N
      BY <1>0, <1>2, <3>3, <3>5
    <3> QED
      BY <3>4, <3>5
  <2> QED
    BY <1>2, <2>2
<1>9. CASE PoolController \/ Elsewhere
  BY <1>2, <1>9 DEF PoolController, FetchPool, ResetPool, NotifyPool, SavePool,
                    Elsewhere, EnsurePoolsComplete, VimLocks, VimUnlocks, objVars
<1>10. CASE ReconcilePlatformNetworks /\ ~ReconcileNetworkResource
  BY <1>2, <1>10
     DEF ReconcilePlatformNetworks, StartPass, NextNetwork, SkipPool, LockHostRequest,
         ReconcileAddrPoolResource, UpdateNetworkAddrPools, EndPass, objVars
<1> QED
  BY <1>4, <1>5, <1>6, <1>7, <1>8, <1>9, <1>10, NextCases DEF NetworkController

\* The steps that change a network of the system.
LEMMA DynSteps ==
  ASSUME TypeInv, Next, NEW n \in Networks
  PROVE  \/ sys'.dyn[n] = sys.dyn[n]
         \/ n = N /\ pass.pc # "idle" /\ sys'.dyn[n] = pass.cn[n].dyn
<1>1. CASE sys' = SetNetwork /\ ReconcileNetworkResource
  <2>1. pass.pc \in Working
    BY <1>1, PassWrites DEF Working
  <2>2. sys'.dyn = [sys.dyn EXCEPT ![N] = CN.dyn] /\ N \in Networks
    BY <1>1, <2>1, NetworkSet, AtWork
  <2> QED
    BY <2>1, <2>2 DEF TypeInv, WorldTyped, SystemType, CN, Working
<1> QED
  BY <1>1, LinkSteps

\* A network that the user leaves as it is stays so.
LEMMA StepFixed ==
  ASSUME TypeInv, StepInv, Next, NEW n \in Networks, Fixed(n)
  PROVE  Fixed(n)'
<1>1. /\ net[n] \in NetworkType(Pools) /\ net'[n] \in NetworkType(Pools)
      /\ later \in Seq(ActType(Networks, Pools)) /\ sys \in SystemType(Networks, Pools)
      /\ net'[n].type = net[n].type /\ Networks' = Networks
  BY StepWorld, WorldStepTyped DEF TypeInv, WorldTyped, WorldStep
<1>2. UserActs => Head(later).kind # "dyn" \/ Head(later).name # n
  <2>1. ASSUME UserActs PROVE 1 \in DOMAIN later /\ later[1] = Head(later)
    BY <1>1, <2>1 DEF UserActs
  <2> QED
    BY <2>1 DEF Fixed
<1>3. net'[n].dyn = net[n].dyn
  BY <1>2, SpecSteps
<1>4. \A i \in DOMAIN later' : later'[i].kind = "dyn" => later'[i].name # n
  BY LaterSteps DEF Fixed
<1>5. pass'.pc # "idle" => pass'.cn[n].dyn = net'[n].dyn
  BY <1>3, CopySteps DEF Fixed
<1>6. ASSUME InSync(net'[n]), net'[n].type # "other"
      PROVE  sys'.dyn[n] = net'[n].dyn
  <2>1. CASE NetworkReported(n)
    <3>1. PICK ok, b \in BOOLEAN :
            /\ net'[n] = [net[n] EXCEPT !.inSync = ok, !.reconciled = b]
            /\ ok /\ CN.type # "other" => sys'.dyn[n] = CN.dyn
      BY <2>1 DEF NetworkReported
    <3>2. n = N /\ pass.pc # "idle"
      BY <2>1 DEF NetworkReported, Working
    <3>3. ok /\ CN.type = net[n].type /\ CN.dyn = net[n].dyn
      BY <1>1, <1>6, <3>1, <3>2 DEF NetworkType, InSync, CN, StepInv, Fixed
    <3> QED
      BY <1>1, <1>3, <1>6, <3>1, <3>3
  <2>2. CASE ~NetworkReported(n)
    <3>1. InSync(net[n])
      <4>1. CASE NetworkKept(n)
        BY <1>6, <4>1 DEF NetworkKept, InSync
      <4>2. CASE NetworkSaved(n)
        BY <1>1, <1>6, <4>2 DEF NetworkSaved, InSync, NetworkType
      <4>3. CASE NetworkChanged(n)
        BY <1>6, <4>3 DEF NetworkChanged, InSync
      <4> QED
        BY <2>2, <4>1, <4>2, <4>3, NetworkObjectSteps
    <3>2. sys.dyn[n] = net[n].dyn
      BY <1>1, <1>6, <3>1 DEF Fixed
    <3> QED
      BY <1>3, <3>2, DynSteps DEF Fixed
  <2> QED
    BY <2>1, <2>2
<1> QED
  BY <1>1, <1>3, <1>4, <1>5, <1>6 DEF Fixed

\* What a step makes of the status of a network that the user may change.
LEMMA NetworkSeen ==
  ASSUME TypeInv, StepInv, NetworkInv, Next, NEW n \in Networks
  PROVE  /\ net'[n].observed <= net'[n].gen
         /\ net[n].observed # 0 => net'[n].observed # 0
         /\ \/ net'[n].dyn = net[n].dyn
            \/ ~Fresh("pass", n)' /\ ~Fresh("pn", n)' /\ ~Seen(net'[n])
         /\ Seen(net'[n]) =>
              \/ Seen(net[n]) \/ Fixed(n)
              \/ /\ Fresh("pass", n) /\ n = N /\ pass.pc \in Working
                 /\ net[n].type # "other" => sys'.dyn[n] = CN.dyn
         /\ net[n].observed = net[n].gen \/ ~net[n].reconciled
            => net'[n].observed = net'[n].gen \/ ~net'[n].reconciled \/ ~Fresh("pn", n)'
<1>1. net[n] \in NetworkType(Pools) /\ net[n].observed <= net[n].gen
  BY DEF TypeInv, WorldTyped, NetworkInv
<1>2. CASE NetworkKept(n)
  BY <1>1, <1>2 DEF NetworkKept, Seen, InSync
<1>3. CASE NetworkSaved(n)
  <2>1. /\ net'[n].dyn = net[n].dyn /\ net'[n].gen = net[n].gen
        /\ net'[n].observed = net[n].gen /\ net'[n].reconciled = net[n].reconciled
        /\ net'[n].inSync = net[n].inSync /\ net[n].gen \in Nat /\ net[n].observed \in Nat
    BY <1>1, <1>3 DEF NetworkSaved, NetworkType
  <2>2. net[n].observed = net[n].gen \/ ~net[n].reconciled \/ Fixed(n)
    BY <1>3 DEF NetworkSaved, NetworkInv
  <2> QED
    BY <1>1, <2>1, <2>2 DEF Seen, InSync
<1>4. CASE NetworkChanged(n)
  <2>1. ~Fresh("pass", n)' /\ ~Fresh("pn", n)'
    BY <1>4 DEF NetworkChanged, Fresh, Others
  <2>2. net'[n].observed <= net'[n].gen /\ net'[n].observed # net'[n].gen
        /\ net'[n].observed = net[n].observed
    BY <1>1, <1>4 DEF NetworkChanged, NetworkType
  <2> QED
    BY <2>1, <2>2 DEF Seen
<1>5. CASE NetworkReported(n)
  <2>1. PICK ok, b \in BOOLEAN :
          /\ net'[n] = [net[n] EXCEPT !.inSync = ok, !.reconciled = b]
          /\ ok /\ CN.type # "other" => sys'.dyn[n] = CN.dyn
    BY <1>5 DEF NetworkReported
  <2>2. /\ net'[n].dyn = net[n].dyn /\ net'[n].gen = net[n].gen
        /\ net'[n].observed = net[n].observed /\ net'[n].inSync = ok
    BY <1>1, <2>1 DEF NetworkType
  <2>3. net'[n] = net[n] \/ ~Fresh("pn", n)'
    BY <1>5 DEF NetworkReported, Fresh, Others
  <2>4. n = N /\ Fresh("pass", n) /\ pass.pc \in Working /\ CN.type = net[n].type
    BY <1>5 DEF NetworkReported, StepInv, CN, Working
  <2> QED
    BY <1>1, <2>1, <2>2, <2>3, <2>4 DEF Seen, InSync
<1> QED
  BY <1>2, <1>3, <1>4, <1>5, NetworkObjectSteps

\* The network that the controller has just fetched: its status was withdrawn if its
\* generation was not recorded, unless none was.
LEMMA FetchedNetwork ==
  ASSUME TypeInv, NetworkInv, FetchNetwork, pn'.pc # "idle"
  PROVE  /\ pn'.name \in Networks
         /\ LET o == net'[pn'.name] IN o.observed = o.gen \/ ~o.reconciled \/ Fixed(pn'.name)
<1>1. pn.pc = "idle"
  BY DEF FetchNetwork
<1>2. PICK m \in queue \cap DOMAIN net :
        /\ net' = [net EXCEPT ![m] = UpdateConfigStatus(UpdateDeploymentScope(net[m]))]
        /\ pn'.name = m
  BY <1>1 DEF FetchNetwork
<1> DEFINE new == UpdateConfigStatus(UpdateDeploymentScope(net[m]))
<1>3. m \in Networks /\ net[m] \in NetworkType(Pools) /\ net \in [Networks -> NetworkType(Pools)]
  BY <1>2 DEF Networks, TypeInv, WorldTyped
<1>4. /\ new.gen = net[m].gen /\ new.observed = net[m].observed
      /\ net[m].observed # net[m].gen /\ net[m].observed # 0 => ~new.reconciled
  BY <1>3, Configured
<1> HIDE DEF new
<1>5. net'[m] = new
  BY <1>2, <1>3 DEF new
<1>6. net[m].observed # 0 \/ Fixed(m)
  BY <1>3 DEF NetworkInv
<1> QED
  BY <1>2, <1>3, <1>4, <1>5, <1>6

LEMMA StepNetwork ==
  ASSUME TypeInv, StepInv, NetworkInv, [Next]_vars
  PROVE  NetworkInv'
<1>1. CASE Next
  <2>1. Pools' = Pools /\ Networks' = Networks
    BY <1>1, StepWorld, WorldStepTyped DEF TypeInv
  <2>2. ASSUME NEW n \in Networks
        PROVE  /\ (net[n].observed <= net[n].gen)'
               /\ (net[n].observed # 0 \/ Fixed(n))'
               /\ (Seen(net[n]) /\ net[n].type # "other" => sys.dyn[n] = net[n].dyn)'
               /\ (pass.pc # "idle" /\ (Fresh("pass", n) \/ Seen(net[n]))
                   => pass.cn[n].dyn = net[n].dyn)'
    <3>1. net'[n].observed <= net'[n].gen /\ net'[n].type = net[n].type
      BY <1>1, NetworkSeen, StepWorld DEF WorldStep
    <3>2. CASE Fixed(n)
      <4>1. Fixed(n)'
        BY <1>1, <3>2, StepFixed
      <4> QED
        BY <3>1, <4>1 DEF Fixed, Seen
    <3>3. CASE ~Fixed(n)
      <4>1. net'[n].observed # 0
        BY <1>1, <3>3, NetworkSeen DEF NetworkInv
      <4>2. ASSUME Seen(net'[n]), net'[n].type # "other" PROVE sys'.dyn[n] = net'[n].dyn
        <5>1. net'[n].dyn = net[n].dyn
          BY <1>1, <4>2, NetworkSeen
        <5>2. CASE Seen(net[n])
          BY <1>1, <3>1, <4>2, <5>1, <5>2, DynSteps DEF NetworkInv
        <5>3. CASE Fresh("pass", n) /\ n = N /\ pass.pc \in Working /\ sys'.dyn[n] = CN.dyn
          BY <5>1, <5>3 DEF NetworkInv, CN, Working
        <5> QED
          BY <1>1, <3>1, <3>3, <4>2, <5>2, <5>3, NetworkSeen
      <4>3. ASSUME pass'.pc # "idle", Fresh("pass", n)' \/ Seen(net'[n])
            PROVE  pass'.cn[n].dyn = net'[n].dyn
        <5>1. net'[n].dyn = net[n].dyn
          BY <1>1, <4>3, NetworkSeen
        <5>2. CASE pass.pc # "idle" /\ pass'.cn = pass.cn
          <6>1. Fresh("pass", n)' => Fresh("pass", n)
            <7>1. CASE NextNetwork
              <8>1. PICK S \in SUBSET Pools : fresh' = fresh \cup {<<"pass", p>> : p \in S}
                BY <2>1, <7>1, NextNetworkMoves
              <8>2. n \notin S
                BY <8>1 DEF NetworkInv
              <8> QED
                BY <8>1, <8>2 DEF Fresh
            <7>2. ~StartPass
              BY <5>2 DEF StartPass
            <7> QED
              BY <1>1, <7>1, <7>2, FreshSteps
          <6>2. Seen(net[n]) \/ Fresh("pass", n)
            BY <1>1, <3>3, <4>3, <6>1, NetworkSeen
          <6> QED
            BY <5>1, <5>2, <6>2 DEF NetworkInv
        <5>3. CASE pass'.cn = [m \in Networks |->
                                [type |-> net[m].type, pools |-> net[m].pools,
                                 dyn |-> net[m].dyn, scope |-> net[m].scope]]
          BY <5>1, <5>3
        <5> QED
          BY <1>1, <4>3, <5>2, <5>3, CopySteps
      <4> QED
        BY <3>1, <4>1, <4>2, <4>3
    <3> QED
      BY <3>2, <3>3
  <2>3. ASSUME pn'.pc \in {"notify", "save"}, <<"pn", pn'.name>> \in fresh'
        PROVE  LET o == net'[pn'.name] IN
               o.observed = o.gen \/ ~o.reconciled \/ \E n \in Networks : n = pn'.name /\ Fixed(n)'
    <3>1. ASSUME NEW n \in Networks, pn'.name = n, pn.name = n, pn.pc \in {"notify", "save"},
                 ~FetchNetwork
          PROVE  net'[n].observed = net'[n].gen \/ ~net'[n].reconciled \/ Fixed(n)'
      <4>1. Fresh("pn", n)' /\ Fresh("pn", n)
        BY <1>1, <2>3, <3>1, FreshSteps DEF Fresh
      <4>2. net[n].observed = net[n].gen \/ ~net[n].reconciled \/ Fixed(n)
        BY <3>1, <4>1 DEF NetworkInv
      <4> QED
        BY <1>1, <4>1, <4>2, NetworkSeen, StepFixed
    <3>2. CASE FetchNetwork
      <4>1. PICK n \in Networks : n = pn'.name
        BY <2>3, <3>2, FetchedNetwork
      <4>2. net'[n].observed = net'[n].gen \/ ~net'[n].reconciled \/ Fixed(n)
        BY <2>3, <3>2, <4>1, FetchedNetwork
      <4> QED
        BY <1>1, <4>1, <4>2, StepFixed
    <3>3. CASE NotifyNetwork
      <4>1. pn \in WorkType(PnPCs, Networks) /\ pn.pc = "notify"
        BY <3>3 DEF NotifyNetwork, TypeInv, WorkersTyped, NoWork
      <4>2. \E c : pn' = [pn EXCEPT !.pc = c]
        BY <3>3 DEF NotifyNetwork
      <4>3. pn'.name = pn.name /\ pn.name \in Networks
        BY <4>1, <4>2 DEF WorkType
      <4>4. ~FetchNetwork
        BY <4>1 DEF FetchNetwork
      <4> QED
        BY <3>1, <4>1, <4>3, <4>4
    <3>4. CASE SaveNetwork
      BY <2>3, <3>4 DEF SaveNetwork, NoWork
    <3>5. CASE UNCHANGED pn /\ ~NetworkController
      <4>1. pn.name \in Networks
        BY <2>3, <3>5 DEF TypeInv, WorkersTyped, NoWork, WorkType
      <4> QED
        BY <2>3, <3>1, <3>5, <4>1 DEF NetworkController
    <3>6. NetworkController \/ UNCHANGED pn
      BY <1>1, NextCases
         DEF PoolController, FetchPool, ResetPool, NotifyPool, SavePool, Elsewhere,
             EnsurePoolsComplete, VimLocks, VimUnlocks, UserActs, ReconcilePlatformNetworks,
             StartPass, NextNetwork, SkipPool, LockHostRequest, ReconcileAddrPoolResource,
             ReconcileNetworkResource, UpdateNetworkAddrPools, EndPass
    <3> QED
      BY <3>2, <3>3, <3>4, <3>5, <3>6 DEF NetworkController
  <2>4. (pn.pc \in {"notify", "save"} /\ Fresh("pn", pn.name)
         => \/ net[pn.name].observed = net[pn.name].gen \/ ~net[pn.name].reconciled
            \/ Fixed(pn.name))'
    BY <2>3 DEF Fresh, Fixed
  <2> QED
    BY <2>1, <2>2, <2>4 DEF NetworkInv
<1>2. CASE UNCHANGED vars
  BY <1>2 DEF vars, objVars, NetworkInv, Fixed, Networks, Pools, Fresh, Seen, InSync
<1> QED
  BY <1>1, <1>2

\* A network that the user changes was observed before, or is not changed.
Known ==
  \A c \in Cases : \A n \in DOMAIN c.net :
    \/ c.net[n].observed # 0
    \/ /\ ~InSync(c.net[n])
       /\ \A i \in DOMAIN c.later : c.later[i].kind = "dyn" => c.later[i].name # n

\* The status of pools and of networks tells the truth, provided that a network the user
\* changes had its generation recorded before: the status of a network without is taken
\* for that of an earlier deployment manager and not withdrawn.
THEOREM StatusKept ==
  ASSUME Known
  PROVE  Spec => []StatusHolds
<1> DEFINE Inv == TypeInv /\ LinksInv /\ StepInv /\ NetworkInv
<1>1. Init => Inv
  <2> SUFFICES ASSUME Init PROVE Inv
    OBVIOUS
  <2>1. /\ TypeInv /\ LinksInv /\ StepInv /\ pass.pc = "idle" /\ pn = NoWork
        /\ Networks \cap Pools = {}
    BY InitCases DEF LinksInv, StepInv
  <2>2. \A n \in Networks : /\ net[n].observed <= net[n].gen
                            /\ Seen(net[n]) /\ net[n].type # "other" => sys.dyn[n] = net[n].dyn
    BY InitCases
  <2>3. PICK c \in Cases : net = c.net /\ later = c.later
    BY DEF Init
  <2>4. \A n \in Networks : net[n].observed # 0 \/ Fixed(n)
    BY <2>1, <2>3 DEF Networks, Known, Fixed
  <2> QED
    BY <2>1, <2>2, <2>4 DEF NetworkInv, NoWork
<1>2. Inv /\ [Next]_vars => Inv'
  BY StepTyped, StepLinks, StepSteps, StepNetwork
<1>3. Inv => NetworkStatusHolds
  BY DEF NetworkInv, NetworkStatusHolds, Live, TypeInv, WorldTyped
<1>4. Spec => []NetworkStatusHolds
  BY <1>1, <1>2, <1>3, PTL DEF Spec
<1> QED
  BY <1>4, PoolStatusKept, PTL DEF StatusHolds
===============================================================================
