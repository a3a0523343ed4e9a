---------------------------- MODULE HostNetworking ----------------------------
(***************************************************************************)
(* The network configuration of a host (internal/controller/host/          *)
(* networking.go).  Ethernet interfaces belong to ports and only change    *)
(* their attributes; bonds, VLANs and VFs use other interfaces and are     *)
(* created and deleted; networks are assigned to interfaces, and addresses *)
(* and routes lie on them.  The system refuses what would leave one of     *)
(* them without what it needs.                                             *)
(*                                                                         *)
(* Simplifications.  The attributes an update sends (class, MTU, rates,    *)
(* address modes, VF count, OVS access, bond mode) are one value.          *)
(* Platform networks, data networks and PTP interfaces of an interface are *)
(* one set of networks, each on at most one interface of the host; those a *)
(* profile names exist.  The addresses are static ones.  Ethernet          *)
(* interfaces over Ethernet interfaces are left out.                       *)
(***************************************************************************)
EXTENDS SubReconciler

CONSTANTS
  Ports,   \* identifiers of the Ethernet interfaces
  Spare    \* identifiers of other interfaces

ASSUME IdentifiersAssumption == Ports \cap Spare = {}

VARIABLES
  net,      \* the system: interfaces, assigned networks, addresses, routes
  seen,     \* hostInfo: the same, as listed
  asked,    \* the profile
  defaults  \* Status.Defaults is set

netVars == <<net, seen, asked, defaults>>

\* An interface that was asked for; nets is {} if the profile does not say, and
\* otherwise {the set of networks}.
Common(i) == [name |-> i.name, attr |-> i.attr, nets |-> i.nets]

Named(n, name) == {i \in DOMAIN n.ifs : n.ifs[i].name = name}

-----------------------------------------------------------------------------
(* What the system lists.                                                  *)

ListInterfaces ==
  {[id |-> i, kind |-> net.ifs[i].kind, name |-> net.ifs[i].name, vid |-> net.ifs[i].vid,
    attr |-> net.ifs[i].attr, uses |-> {net.ifs[u].name : u \in net.ifs[i].uses}] :
     i \in DOMAIN net.ifs}
ListAddresses == {[addr |-> a.addr, name |-> net.ifs[a.on].name] : a \in net.addrs}
ListRoutes == {[dest |-> r.dest, metric |-> r.metric, name |-> net.ifs[r.on].name] :
                 r \in net.routes}

PopulateNetworking ==
  seen' = [ifs |-> ListInterfaces, nets |-> net.nets, addrs |-> ListAddresses,
           routes |-> ListRoutes]
RefreshInterfaces == seen' = [seen EXCEPT !.ifs = ListInterfaces, !.nets = net.nets]

-----------------------------------------------------------------------------
(* findConfigured...: the configuration that an interface in the list has. *)

findConfiguredEthernetInterface(i) == {Common(asked.eth[p]) : p \in {i.id} \cap Ports}

\* A bond is the one that has a member in common, by the members' new names.
findConfiguredBondInterface(i) ==
  {Common(w) : w \in {w \in asked.upper :
     /\ w.kind = "bond"
     /\ \E l \in seen.ifs : /\ l.name \in i.uses
                            /\ \E c \in findConfiguredEthernetInterface(l) : c.name \in w.uses}}

findConfiguredLower(i) ==
  IF i.kind = "bond" THEN findConfiguredBondInterface(i)
  ELSE findConfiguredEthernetInterface(i)

\* A VLAN or VF keeps its name, and what it uses is still configured as what the
\* profile names; a VLAN keeps its identifier.
findConfiguredVLANInterface(i) ==
  {Common(w) : w \in {w \in asked.upper :
     /\ w.kind = i.kind /\ w.name = i.name /\ w.vid = i.vid
     /\ \E l \in seen.ifs : /\ l.name \in i.uses
                            /\ \E c \in findConfiguredLower(l) : w.uses = {c.name}}}

findConfiguredInterface(i) ==
  CASE i.kind = "ethernet" -> findConfiguredEthernetInterface(i)
    [] i.kind = "bond" -> findConfiguredBondInterface(i)
    [] OTHER -> findConfiguredVLANInterface(i)

\* What lies on an interface stays if the interface is still configured and is
\* the one the profile names.
StaysOn(name, wanted) ==
  \E i \in seen.ifs : i.name = name /\ \E c \in findConfiguredInterface(i) : c.name = wanted

-----------------------------------------------------------------------------
(* What the system accepts.                                                *)

Free(i) == /\ \A u \in DOMAIN net.ifs : i \notin net.ifs[u].uses
           /\ \A a \in net.addrs : a.on # i
           /\ \A r \in net.routes : r.on # i
AddressUnused(addr) ==
  \A r \in net.routes : \E a \in net.addrs : a.on = r.on /\ a.addr # addr
NameUnused(name, i) == Named(net, name) \subseteq {i}
\* The interfaces with these names exist, and a bond's are not used by another.
Usable(w, i) ==
  /\ \A n \in w.uses : Named(net, n) # {}
  /\ w.kind = "bond" =>
       \A u \in DOMAIN net.ifs \ {i} : \A l \in net.ifs[u].uses : net.ifs[l].name \notin w.uses

-----------------------------------------------------------------------------
(* Removing what is stale.                                                 *)

\* Mutant of StaleRoute: a profile that leaves the metric open is not understood.
StaleRouteByMetric(r) ==
  ~\E w \in asked.routes : /\ w.dest = r.dest /\ w.name = r.name /\ w.metric = r.metric
                           /\ StaysOn(r.name, w.name)

\* The lists and the profile must name the same interface for a route.
StaleRoute(r) ==
  ~\E w \in asked.routes : /\ w.dest = r.dest /\ w.name = r.name /\ w.metric \in {0, r.metric}
                           /\ StaysOn(r.name, w.name)

\* Mutant of ReconcileStaleRoutes: only routes the profile does not name are stale.
ReconcileUnknownRoutes ==
  /\ stage = "staleRoutes"
  /\ LET Apply(r) == net' = [net EXCEPT !.routes = {x \in @ : x.dest # r.dest}] IN
     Work({r \in seen.routes : ~\E w \in asked.routes : w.dest = r.dest},
          LAMBDA r : TRUE, Apply, net, seen' = [seen EXCEPT !.routes = ListRoutes], seen)
  /\ UNCHANGED <<asked, defaults>>

ReconcileStaleRoutes ==
  /\ stage = "staleRoutes"
  /\ LET Apply(r) == net' = [net EXCEPT !.routes = {x \in @ : x.dest # r.dest}] IN
     Work({r \in seen.routes : StaleRoute(r)}, LAMBDA r : TRUE, Apply, net,
          seen' = [seen EXCEPT !.routes = ListRoutes], seen)
  /\ UNCHANGED <<asked, defaults>>

StaleAddress(a) == ~\E w \in asked.addrs : w.addr = a.addr /\ StaysOn(a.name, w.name)

ReconcileStaleAddresses ==
  /\ stage = "staleAddresses"
  /\ LET Accepted(a) == AddressUnused(a.addr)
         Apply(a) == net' = [net EXCEPT !.addrs = {x \in @ : x.addr # a.addr}] IN
     Work({a \in seen.addrs : StaleAddress(a)}, Accepted, Apply, net,
          seen' = [seen EXCEPT !.addrs = ListAddresses], seen)
  /\ UNCHANGED <<asked, defaults>>

\* In the order in which the system lists them.
ReconcileStaleInterfaces ==
  /\ stage = "staleInterfaces"
  /\ LET stale == {i \in seen.ifs : i.kind # "ethernet" /\ findConfiguredInterface(i) = {}}
         items == {i \in stale :
                     system.uppersFirst => \A u \in stale \ done : i.name \notin u.uses}
         Accepted(i) == Free(i.id)
         Apply(i) == net' = [net EXCEPT
                               !.ifs = [x \in DOMAIN @ \ {i.id} |-> @[x]],
                               !.nets = {x \in @ : x.on # i.id}] IN
     Work(items, Accepted, Apply, net, seen' = [seen EXCEPT !.ifs = ListInterfaces], seen)
  /\ UNCHANGED <<asked, defaults>>

\* Networks of the interface that the profile has elsewhere, or not at all.  The
\* assignment to delete is looked up by the network's name alone.
DroppedNetworks(i) ==
  {x \in seen.nets : /\ [on |-> i.id, net |-> x.net] \in seen.nets
                     /\ \E c \in findConfiguredInterface(i) : \E s \in c.nets : x.net \notin s}

ReconcileStaleInterfaceNetworks ==
  /\ stage = "staleNetworks"
  /\ LET Apply(x) == net' = [net EXCEPT !.nets = @ \ {x}] IN
     Work(UNION {DroppedNetworks(i) : i \in seen.ifs}, LAMBDA x : TRUE, Apply, net,
          seen' = [seen EXCEPT !.nets = net.nets], seen)
  /\ UNCHANGED <<asked, defaults>>

-----------------------------------------------------------------------------
(* Creating and updating interfaces.                                       *)

\* The interface in the list that the profile's entry w means.
FindBondInterfaceUUID(w) == {i \in seen.ifs : i.kind = "bond" /\ i.uses \cap w.uses # {}}
FindVLANInterfaceUUID(w) ==
  {i \in seen.ifs : i.kind = w.kind /\ i.name = w.name /\ i.vid = w.vid}
Found(w) ==
  CASE w.kind = "ethernet" -> {i \in seen.ifs : i.id = w.port}
    [] w.kind = "bond" -> FindBondInterfaceUUID(w)
    [] OTHER -> FindVLANInterfaceUUID(w)

interfaceUpdateRequired(w, i) == w.name # i.name \/ w.attr # i.attr
bondUpdateRequired(w, i) == interfaceUpdateRequired(w, i) \/ w.uses # i.uses
UpdateNeeded(w, i) ==
  IF w.kind = "bond" THEN bondUpdateRequired(w, i) ELSE interfaceUpdateRequired(w, i)

Request(op, w, i, n) == [op |-> op, w |-> w, id |-> i, net |-> n]
AnyOf(ids) == CHOOSE i \in ids : TRUE

\* The networks of the profile that the interface with this identifier lacks.
MissingNetworks(w, id) ==
  {n \in UNION w.nets : [on |-> id, net |-> n] \notin seen.nets}

\* Platform networks, data networks and PTP interfaces are assigned one by one.
AssignNetworks(w, id) == {Request("assign", w, id, n) : n \in MissingNetworks(w, id)}

\* Create or update, then the networks that are missing.
InterfaceItems(ws) ==
  LET creates == {Request("create", w, AnyOf(Spare \ DOMAIN net.ifs), "none") :
                    w \in {w \in ws : Found(w) = {}}}
      updates == UNION {{Request("update", w, i.id, "none") :
                           i \in {i \in Found(w) : UpdateNeeded(w, i)}} : w \in ws}
      made == {x \in done : x.op = "create"}
      todo == {x \in creates : ~\E m \in made : m.w = x.w}
      ready == {w \in ws : \A x \in todo \cup (updates \ done) : x.w # w}
      Id(w) == IF Found(w) = {} THEN (CHOOSE m \in made : m.w = w).id
               ELSE AnyOf(Found(w)).id IN
  made \cup todo \cup updates \cup UNION {AssignNetworks(w, Id(w)) : w \in ready}

\* Identifiers are not given twice; Spare bounds them.
InterfaceAccepted(x) ==
  IF x.op = "assign" THEN \A y \in net.nets : y.net # x.net
  ELSE /\ NameUnused(x.w.name, x.id)
       /\ x.w.kind # "ethernet" => Usable(x.w, x.id)
       /\ x.op = "create" => x.id \in Spare \ DOMAIN net.ifs

InterfaceApply(x) ==
  LET w == x.w
      uses == IF w.kind = "ethernet" THEN {}
              ELSE {i \in DOMAIN net.ifs : net.ifs[i].name \in w.uses}
      vid == IF w.kind = "vlan" THEN w.vid ELSE 0
      rec == [kind |-> w.kind, name |-> w.name, vid |-> vid, attr |-> w.attr, uses |-> uses] IN
  net' = IF x.op = "assign"
         THEN [net EXCEPT !.nets = @ \cup {[on |-> x.id, net |-> x.net]}]
         ELSE [net EXCEPT !.ifs = [i \in DOMAIN @ \cup {x.id} |->
                                     IF i = x.id THEN rec ELSE @[i]]]

Ethernet(sriov) ==
  {[kind |-> "ethernet", port |-> p, name |-> asked.eth[p].name, attr |-> asked.eth[p].attr,
    nets |-> asked.eth[p].nets] : p \in {p \in Ports : asked.eth[p].sriov = sriov}}
Upper(kind) == {w \in asked.upper : w.kind = kind}

Interfaces(name, ws) ==
  /\ stage = name
  /\ Work(InterfaceItems(ws), InterfaceAccepted, InterfaceApply, net, RefreshInterfaces, seen)
  /\ UNCHANGED asked

\* Changed VLANs and VFs make the defaults void.
Invalidating == defaults' = (defaults /\ ~(done # {} /\ stage' = After(stage)))

ReconcileSRIOVInterfaces == Interfaces("sriov", Ethernet(TRUE)) /\ UNCHANGED defaults
ReconcileVFInterfaces == Interfaces("vf", Upper("vf")) /\ Invalidating
ReconcileEthernetInterfaces == Interfaces("ethernet", Ethernet(FALSE)) /\ UNCHANGED defaults
ReconcileBondInterfaces == Interfaces("bond", Upper("bond")) /\ UNCHANGED defaults
ReconcileVLANInterfaces == Interfaces("vlan", Upper("vlan")) /\ Invalidating

-----------------------------------------------------------------------------
(* Addresses and routes.                                                   *)

\* The interface is looked up by its name in the list; if it is not there the pass
\* ends with MissingSystemResource.
Known(name) == \E i \in seen.ifs : i.name = name

ReconcileAddresses ==
  /\ stage = "addresses"
  /\ LET Accepted(w) == Known(w.name) /\ \A a \in net.addrs : a.addr # w.addr
         Apply(w) == net' = [net EXCEPT !.addrs = @ \cup
                               {[addr |-> w.addr, on |-> AnyOf(Named(net, w.name))]}] IN
     Work({w \in asked.addrs : w \notin seen.addrs}, Accepted, Apply, net,
          seen' = [seen EXCEPT !.addrs = ListAddresses], seen)
  /\ UNCHANGED <<asked, defaults>>

\* Without a metric in the profile the default one is requested.
ReconcileRoutes ==
  /\ stage = "routes"
  /\ LET On(w) == AnyOf(Named(net, w.name))
         Accepted(w) == /\ Known(w.name) /\ \A r \in net.routes : r.dest # w.dest
                        /\ \E a \in net.addrs : a.on = On(w)
         Apply(w) == net' = [net EXCEPT !.routes = @ \cup
                               {[dest |-> w.dest, on |-> On(w),
                                 metric |-> IF w.metric = 0 THEN 1 ELSE w.metric]}] IN
     Work({w \in asked.routes : ~\E r \in seen.routes : r.name = w.name /\ r.dest = w.dest},
          Accepted, Apply, net, seen' = [seen EXCEPT !.routes = ListRoutes], seen)
  /\ UNCHANGED <<asked, defaults>>

ReconcileNetworking ==
  \/ ReconcileStaleRoutes \/ ReconcileStaleAddresses \/ ReconcileStaleInterfaces
  \/ ReconcileStaleInterfaceNetworks \/ ReconcileSRIOVInterfaces \/ ReconcileVFInterfaces
  \/ ReconcileEthernetInterfaces \/ ReconcileBondInterfaces \/ ReconcileVLANInterfaces
  \/ ReconcileAddresses \/ ReconcileRoutes
====
