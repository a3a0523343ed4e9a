------------------------------ MODULE HostConfig ------------------------------
(***************************************************************************)
(* Applying a profile to a host: ReconcileDisabledHost brings a locked     *)
(* host to its profile and unlocks it, ReconcileEnabledHost does what is   *)
(* allowed in service.  The rest of the reconciler, which decides when     *)
(* this happens, is HostReconciler.                                        *)
(*                                                                         *)
(* The user may replace the profile, at any point of the way; the pass     *)
(* under way goes on with the one it has read.  A profile that changes     *)
(* more than what is allowed in service takes effect on a locked host.     *)
(*                                                                         *)
(* Simplification.  Host attributes, PTP instances, processors, memory,    *)
(* kernel, labels and power are sets of values under the name of their     *)
(* stage.                                                                  *)
(***************************************************************************)
EXTENDS HostNetworking, HostStorage

\* Histories: each a system and the profiles a user asks for, one after the other.
CONSTANT Histories

\* Bonds have Ethernet members; a VLAN or VF lies on one interface, which is no VLAN or
\* VF itself; a disk has one OSD, whose journal is a path.
WellFormed(P) ==
  LET eth == P.asked.eth
      upper == P.asked.upper IN
  /\ \A p \in Ports : eth[p].sriov \in BOOLEAN
  /\ \A w \in upper :
       /\ w.kind \in {"bond", "vlan", "vf"}
       /\ w.kind = "bond" => w.uses # {} /\ w.uses \subseteq {eth[p].name : p \in Ports}
       /\ w.kind # "bond" => \E n \in w.uses : w.uses = {n}
       /\ \A u \in upper : u.name \in w.uses => u.kind = "bond" /\ w.kind # "bond"
  /\ \A o, q \in UNION P.layout.osds : o.path = q.path => o = q
  /\ \A o \in UNION P.layout.osds : o.journal # "self"

Profiles == UNION {{h.profiles[n] : n \in 1..Len(h.profiles)} : h \in Histories}

ASSUME ProfilesAssumption ==
  /\ \A h \in Histories : h.profiles \in Seq(Profiles) /\ h.profiles # <<>>
  /\ \A P \in Profiles : WellFormed(P)

VARIABLES
  settings,  \* the system: the other settings of the host
  known,     \* hostInfo: the same, as listed
  wanted,    \* the profile
  later      \* the profiles still to come

settingVars == <<settings, known, wanted, later>>
vars == <<system, passVars, netVars, storageVars, settingVars>>

Kinds == {"attributes", "ptpInstances", "processors", "memory", "kernel", "labels", "power"}

\* A host that was just added: what inventory has found.
Init ==
  /\ locked = TRUE /\ stage = "populate" /\ done = {} /\ refused = {} /\ faults = 0
  /\ net = [ifs |-> [p \in Ports |-> [kind |-> "ethernet", name |-> p, vid |-> 0,
                                      attr |-> "none", uses |-> {}]],
            nets |-> {}, addrs |-> {}, routes |-> {}]
  /\ seen = [ifs |-> {}, nets |-> {}, addrs |-> {}, routes |-> {}]
  /\ defaults = TRUE
  /\ \E h \in Histories :
       /\ system = h.system
       /\ disks = [monitor |-> 0,
                   fs |-> [f \in DOMAIN h.profiles[1].layout.fs |->
                             IF f \in FileSystemCreationAllowed THEN 0 ELSE 1],
                   vgs |-> [g \in {"cgts-vg"} |-> "none"],
                   parts |-> {}, pvs |-> {}, osds |-> {}]
       /\ asked = h.profiles[1].asked /\ layout = h.profiles[1].layout
       /\ wanted = h.profiles[1].wanted /\ later = Tail(h.profiles)
  /\ listed = disks /\ group = {} /\ ready = {}
  /\ settings = [k \in Kinds |-> {}] /\ known = settings

\* PopulateHostInfo; without defaults Reconcile first collects them again.
PopulateHostInfo ==
  /\ stage = "populate"
  /\ PopulateNetworking /\ PopulateStorage /\ known' = settings
  /\ defaults' = TRUE /\ group' = {}
  /\ Advance
  /\ UNCHANGED <<faults, net, asked, disks, layout, ready, settings, wanted, later>>

-----------------------------------------------------------------------------
(* The other settings.                                                     *)

SettingStage(k, items, Apply(_)) ==
  /\ stage = k
  /\ Work(items, LAMBDA x : TRUE, Apply, settings,
          known' = [known EXCEPT ![k] = settings[k]], known)

UpdateRequired(k) == ~(wanted[k] \subseteq known[k])

\* One request for all that differs.
UpdateAll(k) ==
  /\ LET Apply(x) == settings' = [settings EXCEPT ![k] = wanted[k]] IN
     SettingStage(k, IF UpdateRequired(k) THEN {"update"} ELSE {}, Apply)
  /\ UNCHANGED <<netVars, storageVars, wanted, later>>

ReconcileAttributes == UpdateAll("attributes")
ReconcileProcessors == UpdateAll("processors")
ReconcileKernel == UpdateAll("kernel")

\* One request for each function of a node.
ReconcileMemory ==
  /\ LET Apply(x) == settings' = [settings EXCEPT !.memory = @ \cup {x}] IN
     SettingStage("memory", wanted.memory \ known.memory, Apply)
  /\ UNCHANGED <<netVars, storageVars, wanted, later>>

\* Stale labels go one by one, then the missing ones are added in one request.
ReconcileLabels ==
  /\ LET stale == known.labels \ wanted.labels
         missing == IF wanted.labels \subseteq known.labels THEN {} ELSE {"create"}
         Apply(x) == settings' = [settings EXCEPT
                       !.labels = IF x = "create" THEN @ \cup wanted.labels ELSE @ \ {x}] IN
     SettingStage("labels", stale \cup (IF stale \subseteq done THEN missing ELSE {}), Apply)
  /\ UNCHANGED <<netVars, storageVars, wanted, later>>

\* Likewise, one request each; an instance that is not there yet is waited for.
ReconcilePTPInstances ==
  /\ stage = "ptpInstances"
  /\ LET stale == known.ptpInstances \ wanted.ptpInstances
         missing == wanted.ptpInstances \ known.ptpInstances
         waits == stale \subseteq done /\ missing \ done # {} /\ "ptp" \notin ready
         Apply(x) == settings' = [settings EXCEPT
                       !.ptpInstances = IF x \in missing THEN @ \cup {x} ELSE @ \ {x}] IN
       \/ waits /\ Waits /\ UNCHANGED <<settings, known>>
       \/ /\ ~waits
          /\ SettingStage("ptpInstances",
                          stale \cup (IF stale \subseteq done THEN missing ELSE {}), Apply)
  /\ UNCHANGED <<netVars, storageVars, wanted, later>>

\* The state is read again by a later Reconcile: the action is sent, the pass ends.
ReconcilePowerState ==
  /\ stage = "power"
  /\ IF wanted.power \subseteq known.power
     THEN NoFault /\ Advance /\ UNCHANGED settings
     ELSE \/ Waits /\ settings' = [settings EXCEPT !.power = wanted.power]
          \/ Fault /\ Abort /\ UNCHANGED <<refused, settings>>
  /\ UNCHANGED <<netVars, storageVars, known, wanted, later>>

\* ReconcileFinalState: the action is sent and the pass ends with a monitor.
ReconcileFinalState ==
  /\ stage = "unlock"
  /\ \/ NoFault /\ locked' = FALSE
     \/ Fault /\ UNCHANGED locked
  /\ stage' = "populate" /\ done' = {}
  /\ UNCHANGED <<refused, netVars, storageVars, settingVars>>

ReconcileSettings ==
  \/ ReconcileAttributes \/ ReconcileProcessors \/ ReconcileKernel \/ ReconcileMemory
  \/ ReconcileLabels \/ ReconcilePTPInstances
  \/ ReconcilePowerState \/ ReconcileFinalState

-----------------------------------------------------------------------------
(* The environment and the specification.                                  *)

PtpInstanceCreated ==
  /\ "ptp" \notin ready /\ ready' = ready \cup {"ptp"}
  /\ UNCHANGED <<passVars, netVars, disks, listed, layout, group, settingVars>>

UserChangesProfile ==
  /\ later # <<>> /\ stage \in {"populate", "end"}
  /\ asked' = Head(later).asked /\ layout' = Head(later).layout /\ wanted' = Head(later).wanted
  /\ later' = Tail(later)
  /\ locked' = (locked \/ ~Head(later).inService)
  /\ stage' = "populate" /\ refused' = {}
  /\ UNCHANGED <<system, done, faults, net, seen, defaults, disks, listed, group, ready,
                 settings, known>>

Reconcile ==
  /\ \/ PopulateHostInfo
     \/ ReconcileSettings
     \/ ReconcileNetworking /\ UNCHANGED <<storageVars, settingVars>>
     \/ ReconcileStorage /\ UNCHANGED <<netVars, settingVars>>
  /\ UNCHANGED system

SystemWorks ==
  /\ \/ PtpInstanceCreated
     \/ (PartitionReady \/ ClusterReady) /\ UNCHANGED <<netVars, settingVars>>
  /\ UNCHANGED system

Next == Reconcile \/ SystemWorks \/ UserChangesProfile

\* A host that is being configured keeps being reconciled, and the system finishes
\* what it has begun.
Spec == Init /\ [][Next]_vars /\ WF_vars(Reconcile) /\ WF_vars(SystemWorks)

-----------------------------------------------------------------------------
(* Properties.                                                             *)

\* The interfaces, networks, addresses and routes are those of the profile.
NetworkApplied ==
  LET Wanted(w, i) == /\ net.ifs[i].kind = w.kind /\ net.ifs[i].name = w.name
                      /\ net.ifs[i].attr = w.attr
                      /\ \A s \in w.nets : {x.net : x \in {x \in net.nets : x.on = i}} = s
      Uses(i) == {net.ifs[u].name : u \in net.ifs[i].uses} IN
  /\ \A w \in Ethernet(TRUE) \cup Ethernet(FALSE) : Wanted(w, w.port)
  /\ \A w \in asked.upper : \E i \in Spare \cap DOMAIN net.ifs :
       Wanted(w, i) /\ Uses(i) = w.uses /\ net.ifs[i].vid = w.vid
  /\ Cardinality(DOMAIN net.ifs \ Ports) = Cardinality(asked.upper)
  /\ ListAddresses = asked.addrs
  /\ {[dest |-> r.dest, name |-> r.name] : r \in ListRoutes}
       = {[dest |-> w.dest, name |-> w.name] : w \in asked.routes}
  /\ \A w \in asked.routes : \A r \in ListRoutes : r.dest = w.dest => w.metric \in {0, r.metric}

\* The OSD is the one that w asks for; a profile does not say that an OSD has its
\* journal on its own disk.
OSDFits(o, w) ==
  /\ o.path = w.path /\ o.function = w.function
  /\ o.journal = w.journal \/ (w.journal = "none" /\ o.journal = "self")

\* The groups, their volumes and the OSDs are those of the profile; file systems are
\* at least as large.  An OSD with a journal on its own disk never gets another.
StorageApplied ==
  /\ layout.monitor \in {0, disks.monitor}
  /\ \A f \in DOMAIN layout.fs : disks.fs[f] >= layout.fs[f]
  /\ DOMAIN disks.vgs = DOMAIN layout.vgs
  /\ \A g \in DOMAIN layout.vgs :
       /\ disks.vgs[g] = layout.vgs[g].cap
       /\ \A v \in layout.vgs[g].pvs : PhysicalVolume(v, g) \in disks.pvs
  /\ layout.osds # {} /\ layout.osdState # "none" =>
       /\ \A o \in disks.osds : \E w \in OSDs :
            o.path = w.path /\ o.function = w.function /\ o.journal \in {w.journal, "self"}
       /\ \A w \in OSDs : \E o \in disks.osds : o.path = w.path

SettingsApplied == \A k \in Kinds : wanted[k] \subseteq settings[k]

\* The order of the sub-reconcilers, and of the requests in them, is one the system
\* accepts: nothing is removed while something lies on it, nothing is created
\* before what it needs, and a request that was served but whose answer was lost,
\* or a profile replaced on the way, does not make the system refuse the next.
\* There are three exceptions.  Stale interfaces and stale OSDs are deleted in the
\* order in which they are listed: if the system does not list a VLAN or VF before
\* its bond, and an OSD before its journal, it may refuse.  An OSD is given a journal
\* by the path, where a new one is given the identifier (osdUpdateRequired,
\* buildOSDOpts).  And for two groups with partitions of one size on a disk the
\* second takes the partition that the first has just used, since the list of
\* partitions is not read again.
TwinPartitions ==
  \E g, h \in DOMAIN layout.vgs : g # h /\ layout.vgs[g].pvs \cap layout.vgs[h].pvs # {}
InOrder ==
  refused \subseteq
    (IF system.uppersFirst THEN {} ELSE {"staleInterfaces", "staleOSDs"})
      \cup (IF system.takesPaths THEN {} ELSE {"osds"})
      \cup (IF TwinPartitions THEN {"physicalVolumes"} ELSE {})

\* The interface is there as the profile describes it, down to the ports.
PortFits(p) == p \in Ports /\ net.ifs[p].name = asked.eth[p].name
UpperFits(i, Fits(_)) ==
  \E w \in asked.upper : /\ w.kind = net.ifs[i].kind /\ w.name = net.ifs[i].name
                         /\ w.vid = net.ifs[i].vid
                         /\ w.uses = {net.ifs[u].name : u \in net.ifs[i].uses}
                         /\ \A u \in net.ifs[i].uses : Fits(u)
LowerFits(i) == PortFits(i) \/ UpperFits(i, PortFits)
InterfaceFits(i) == LowerFits(i) \/ UpperFits(i, LowerFits)

\* What is already as the profile wants it is left alone: an interface whose ports
\* and lower interfaces fit, the addresses and routes the profile has on it, the
\* physical volumes and the OSDs.  The stale-looking are told from the
\* changed by chains of look-ups (findConfigured...) in the host's lists.
FitsStays ==
  [][/\ \A i \in {i \in DOMAIN net.ifs : InterfaceFits(i)} :
          /\ i \in DOMAIN net'.ifs /\ net'.ifs[i].name = net.ifs[i].name
          /\ \A a \in {a \in net.addrs : a.on = i} :
               [addr |-> a.addr, name |-> net.ifs[i].name] \in asked.addrs => a \in net'.addrs
          /\ \A r \in {r \in net.routes : r.on = i} :
               \A w \in {w \in asked.routes : w.dest = r.dest /\ w.name = net.ifs[i].name} :
                 w.metric \in {0, r.metric} => r \in net'.routes
     /\ \A v \in disks.pvs : v.vg \in DOMAIN layout.vgs => v \in disks'.pvs
     /\ \A o \in disks.osds : (\E w \in OSDs : OSDFits(o, w)) => o \in disks'.osds]_<<net, disks>>

\* Whatever fails on the way, the host ends up unlocked with everything the last
\* profile asks for, and stays so; on a system that lists what uses something before
\* what is used, and that takes the path of a journal.  On others a stale bond under
\* a stale VLAN, or an OSD that is to get a journal, may be refused pass after pass.
Converges ==
  system.uppersFirst /\ system.takesPaths =>
    <>[](stage = "end" /\ ~locked /\ NetworkApplied /\ StorageApplied /\ SettingsApplied)
====
