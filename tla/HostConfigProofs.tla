--------------------------- MODULE HostConfigProofs ---------------------------
(***************************************************************************)
(* Proofs about HostConfig, for every host and every sequence of profiles  *)
(* and faults: what is already as the profile wants it is left alone.      *)
(***************************************************************************)
EXTENDS HostConfig, TLAPS

-----------------------------------------------------------------------------
(* Where a pass is.                                                        *)

InterfaceStages == {"sriov", "vf", "ethernet", "bond", "vlan"}
StaleStages == {"staleRoutes", "staleAddresses", "staleInterfaces", "staleNetworks"}
SettingStages == {"attributes", "ptpInstances", "processors", "memory", "kernel", "labels"}
VolumeStages ==
  {"volumeGroups", "partitions", "physicalVolumes", "nextGroup", "journals", "osds"}

LockedStages ==
  {"populate", "addresses", "routes", "monitor", "fileSystemTypes", "staleOSDs", "power", "unlock"}
    \cup SettingStages \cup StaleStages \cup InterfaceStages \cup VolumeStages
EnabledStages ==
  {"populate", "staleRoutes", "routes", "fileSystemSizes", "end"} \cup VolumeStages

\* No interface, address or route has been changed, but for what staleRoutes and
\* staleAddresses remove.
EarlyStages ==
  {"staleRoutes"} \cup (IF locked THEN SettingStages \cup {"staleAddresses"} ELSE VolumeStages)

StageInv == stage \in IF locked THEN LockedStages ELSE EnabledStages

\* The profile is one of the history.
ProfileInv ==
  /\ \E P \in Profiles : asked = P.asked /\ layout = P.layout
  /\ later \in Seq(Profiles)

-----------------------------------------------------------------------------
(* The system.                                                             *)

Bonds(a) == {w \in a.upper : w.kind = "bond"}
\* The ports whose interfaces, as profile a names them, are the members of bond w.
Members(a, w) == {p \in Ports : a.eth[p].name \in w.uses}

\* A bond that some profile asks for is not split: at most one bond of any other
\* profile has a member of it.  FindBondInterfaceUUID tells bonds by their members,
\* and "may not handle all cases".
BondsStayWhole ==
  \A P, Q \in Profiles : \A b \in Bonds(P.asked) : \A c, d \in Bonds(Q.asked) :
    /\ Members(P.asked, b) \cap Members(Q.asked, c) # {}
    /\ Members(P.asked, b) \cap Members(Q.asked, d) # {}
    => c = d

NetShape ==
  /\ net = [ifs |-> net.ifs, nets |-> net.nets, addrs |-> net.addrs, routes |-> net.routes]
  /\ net.ifs = [i \in DOMAIN net.ifs |-> net.ifs[i]]
  /\ seen = [ifs |-> seen.ifs, nets |-> seen.nets, addrs |-> seen.addrs, routes |-> seen.routes]
DiskShape ==
  disks = [monitor |-> disks.monitor, fs |-> disks.fs, vgs |-> disks.vgs, parts |-> disks.parts,
           pvs |-> disks.pvs, osds |-> disks.osds]

\* What the system sees to: the Ethernet interfaces stay, names, addresses and
\* destinations are used once, and what an interface uses is there.
SystemInv ==
  /\ Ports \subseteq DOMAIN net.ifs
  /\ \A i \in DOMAIN net.ifs : /\ net.ifs[i].kind = "ethernet" <=> i \in Ports
                               /\ net.ifs[i].uses \subseteq DOMAIN net.ifs
  /\ \A i, j \in DOMAIN net.ifs : net.ifs[i].name = net.ifs[j].name => i = j
  /\ \A a, b \in net.addrs : a.addr = b.addr => a = b
  /\ \A r, s \in net.routes : r.dest = s.dest => r = s

\* Every bond has the members that some profile gave it.
BondInv ==
  \A i \in DOMAIN net.ifs : net.ifs[i].kind = "bond" =>
    \E P \in Profiles : \E b \in Bonds(P.asked) : net.ifs[i].uses = Members(P.asked, b)

-----------------------------------------------------------------------------
(* The lists.                                                              *)

Names(ids) == {net.ifs[u].name : u \in ids}
Listing(i) ==
  [id |-> i, kind |-> net.ifs[i].kind, name |-> net.ifs[i].name, vid |-> net.ifs[i].vid,
   attr |-> net.ifs[i].attr, uses |-> Names(net.ifs[i].uses)]

\* A sub-reconciler reads the list again if it has changed an interface.
ListInv ==
  /\ stage # "populate" /\ (done = {} \/ stage \notin {"staleInterfaces"} \cup InterfaceStages) =>
       seen.ifs = {Listing(i) : i \in DOMAIN net.ifs}
  /\ stage \in EarlyStages =>
       /\ \A s \in seen.addrs : \A a \in net.addrs :
            a.addr = s.addr => s = [addr |-> a.addr, name |-> net.ifs[a.on].name]
       /\ \A s \in seen.routes : \A r \in net.routes :
            r.dest = s.dest => s = [dest |-> r.dest, metric |-> r.metric, name |-> net.ifs[r.on].name]

\* While interfaces are deleted, the others are listed as they are.
DeleteInv ==
  stage = "staleInterfaces" =>
    /\ \A i \in DOMAIN net.ifs : Listing(i) \in seen.ifs
    /\ \A s \in seen.ifs : s.id \in DOMAIN net.ifs => s = Listing(s.id)

\* While interfaces are created and updated, the list has all the Ethernet
\* interfaces, nothing that is not there, and nothing twice.
UpdateInv ==
  /\ stage \in InterfaceStages =>
       /\ \A p \in Ports : \E s \in seen.ifs : s.id = p
       /\ \A s, t \in seen.ifs : s.id = t.id => s = t
       /\ \A s \in seen.ifs : s.id \in DOMAIN net.ifs /\ s.kind = net.ifs[s.id].kind
  /\ stage \in {"vf", "vlan"} => \A s \in seen.ifs : net.ifs[s.id].name = s.name

\* The Ethernet interfaces have their names before the bonds are looked at.
Ether(p) == [kind |-> "ethernet", port |-> p, name |-> asked.eth[p].name,
             attr |-> asked.eth[p].attr, nets |-> asked.eth[p].nets]
PortInv ==
  /\ stage \in {"sriov", "ethernet"} => \A p \in Ports :
       \/ PortFits(p)
       \/ /\ Request("update", Ether(p), p, "none") \notin done
          /\ \E s \in seen.ifs : s.id = p /\ s.name = net.ifs[p].name
  /\ stage \in {"vf", "ethernet", "bond"} => \A p \in Ports : asked.eth[p].sriov => PortFits(p)
  /\ stage = "bond" => \A p \in Ports : PortFits(p)

\* A bond in the list is one of an earlier profile, and has been left alone or
\* given to a bond of this profile that has a member in common with it.
RenameInv ==
  stage = "bond" => \A s \in seen.ifs : s.kind = "bond" =>
    /\ \E P \in Profiles : \E b \in Bonds(P.asked) :
         s.uses = {asked.eth[p].name : p \in Members(P.asked, b)}
    /\ \/ net.ifs[s.id].name = s.name /\ Names(net.ifs[s.id].uses) = s.uses
       \/ \E w \in Upper("bond") : w.uses \cap s.uses # {} /\ net.ifs[s.id].name = w.name

-----------------------------------------------------------------------------
(* What the steps do.                                                      *)

\* Which sub-reconciler follows.
LEMMA AfterLocked ==
  ASSUME locked
  PROVE  /\ After("populate") = "attributes" /\ After("attributes") = "ptpInstances"
         /\ After("ptpInstances") = "processors" /\ After("processors") = "memory"
         /\ After("memory") = "kernel" /\ After("kernel") = "labels"
         /\ After("labels") = "staleRoutes" /\ After("staleRoutes") = "staleAddresses"
         /\ After("staleAddresses") = "staleInterfaces"
         /\ After("staleInterfaces") = "staleNetworks" /\ After("staleNetworks") = "sriov"
         /\ After("sriov") = "vf" /\ After("vf") = "ethernet" /\ After("ethernet") = "bond"
         /\ After("bond") = "vlan" /\ After("vlan") = "addresses"
         /\ After("addresses") = "routes" /\ After("routes") = "monitor"
         /\ After("monitor") = "fileSystemTypes" /\ After("fileSystemTypes") = "volumeGroups"
         /\ After("volumeGroups") = "partitions" /\ After("partitions") = "physicalVolumes"
         /\ After("physicalVolumes") = "nextGroup" /\ After("nextGroup") = "staleOSDs"
         /\ After("staleOSDs") = "journals" /\ After("journals") = "osds"
         /\ After("osds") = "power" /\ After("power") = "unlock"
<1> DEFINE calls == ReconcileDisabledHost
<1>1. ASSUME NEW n \in 1..28
      PROVE  After(calls[n]) = calls[n + 1]
  <2> DEFINE j == CHOOSE i \in 1..Len(calls) : calls[i] = calls[n]
  <2>1. j \in 1..29 /\ calls[j] = calls[n]
    BY <1>1 DEF ReconcileDisabledHost
  <2>2. j = n
    BY <1>1, <2>1 DEF ReconcileDisabledHost
  <2>3. After(calls[n]) = calls[j + 1]
    BY DEF After
  <2> HIDE DEF j
  <2> QED
    BY <2>2, <2>3
<1> QED
  BY <1>1 DEF ReconcileDisabledHost

\* Likewise on a host in service.
LEMMA AfterEnabled ==
  ASSUME ~locked
  PROVE  /\ After("populate") = "volumeGroups" /\ After("volumeGroups") = "partitions"
         /\ After("partitions") = "physicalVolumes" /\ After("physicalVolumes") = "nextGroup"
         /\ After("nextGroup") = "journals" /\ After("journals") = "osds"
         /\ After("osds") = "staleRoutes" /\ After("staleRoutes") = "routes"
         /\ After("routes") = "fileSystemSizes" /\ After("fileSystemSizes") = "end"
<1> DEFINE calls == ReconcileEnabledHost
<1>1. ASSUME NEW n \in 1..10
      PROVE  After(calls[n]) = calls[n + 1]
  <2> DEFINE j == CHOOSE i \in 1..Len(calls) : calls[i] = calls[n]
  <2>1. j \in 1..11 /\ calls[j] = calls[n]
    BY <1>1 DEF ReconcileEnabledHost
  <2>2. j = n
    BY <1>1, <2>1 DEF ReconcileEnabledHost
  <2>3. After(calls[n]) = calls[j + 1]
    BY DEF After
  <2> HIDE DEF j
  <2> QED
    BY <2>2, <2>3
<1> QED
  BY <1>1 DEF ReconcileEnabledHost

ChangingStages == {"staleInterfaces"} \cup InterfaceStages

\* How a pass goes on in a step that leaves the network alone.
QuietPass ==
  \/ stage' = "populate"
  \/ /\ UNCHANGED <<locked, stage>>
     /\ done' = done \/ stage \notin ChangingStages
  \/ /\ UNCHANGED locked /\ stage # "populate"
     /\ stage \notin ChangingStages /\ stage' \notin ChangingStages
     /\ StageInv' /\ (stage' \in EarlyStages' => stage \in EarlyStages)

\* A sub-reconciler that is done goes on to the next.
LEMMA QuietAdvance ==
  ASSUME StageInv, UNCHANGED locked, stage' = After(stage) \/ stage' = After("nextGroup"),
         stage \notin {"populate", "unlock", "end", "addresses", "routes"}
                        \cup StaleStages \cup InterfaceStages,
         stage' = After(stage) \/ stage \in {"nextGroup", "partitions"}
  PROVE  QuietPass
<1>1. CASE locked
  <2>1. stage' = After(stage) \/ stage \in {"nextGroup", "partitions"}
    OBVIOUS
  <2> QED
    BY <1>1, AfterLocked DEF StageInv, LockedStages, SettingStages, StaleStages, InterfaceStages,
       VolumeStages, QuietPass, ChangingStages, EarlyStages
<1>2. CASE ~locked
  BY <1>2, AfterEnabled DEF StageInv, EnabledStages, SettingStages, StaleStages, InterfaceStages,
     VolumeStages, QuietPass, ChangingStages, EarlyStages
<1> QED
  BY <1>1, <1>2

\* The other settings leave the network and the disks alone.
LEMMA SettingSteps ==
  ASSUME StageInv, ReconcileSettings
  PROVE  UNCHANGED <<net, seen, asked, disks, layout, later>> /\ QuietPass
<1> USE DEF netVars, storageVars, settingVars, passVars, Advance, Abort, Waits
<1>1. ASSUME NEW k \in SettingStages, stage = k,
             \/ stage' = "populate" \/ UNCHANGED <<locked, stage>>
             \/ stage' = After(stage) /\ UNCHANGED locked
      PROVE  QuietPass
  <2>1. CASE stage' = "populate"
    BY <2>1 DEF QuietPass
  <2>2. CASE UNCHANGED <<locked, stage>>
    BY <1>1, <2>2 DEF QuietPass, ChangingStages, InterfaceStages, SettingStages
  <2>3. CASE stage' = After(stage) /\ UNCHANGED locked
    BY <1>1, <2>3, QuietAdvance DEF InterfaceStages, SettingStages, StaleStages
  <2> QED
    BY <1>1, <2>1, <2>2, <2>3
<1>2. ASSUME NEW k \in SettingStages, UpdateAll(k)
      PROVE  UNCHANGED <<net, seen, asked, disks, layout, later>> /\ QuietPass
  BY <1>1, <1>2 DEF UpdateAll, SettingStage, Work
<1>3. CASE ReconcileAttributes \/ ReconcileProcessors \/ ReconcileKernel
  BY <1>2, <1>3 DEF ReconcileAttributes, ReconcileProcessors, ReconcileKernel, SettingStages
<1>4. CASE ReconcileMemory
  <2>1. stage = "memory"
    BY <1>4 DEF ReconcileMemory, SettingStage
  <2> QED
    BY <1>1, <1>4, <2>1 DEF ReconcileMemory, SettingStage, Work, SettingStages
<1>5. CASE ReconcileLabels
  <2>1. stage = "labels"
    BY <1>5 DEF ReconcileLabels, SettingStage
  <2> QED
    BY <1>1, <1>5, <2>1 DEF ReconcileLabels, SettingStage, Work, SettingStages
<1>6. CASE ReconcilePTPInstances
  <2>1. stage = "ptpInstances"
    BY <1>6 DEF ReconcilePTPInstances
  <2> QED
    BY <1>1, <1>6, <2>1 DEF ReconcilePTPInstances, SettingStage, Work, SettingStages
<1>7. CASE ReconcilePowerState
  <2>1. CASE stage' = "populate"
    BY <1>7, <2>1 DEF ReconcilePowerState, QuietPass
  <2>2. CASE stage' # "populate"
    BY <1>7, <2>2, QuietAdvance DEF ReconcilePowerState, InterfaceStages, StaleStages
  <2> QED
    BY <2>1, <2>2
<1>8. CASE ReconcileFinalState
  BY <1>8 DEF ReconcileFinalState, QuietPass
<1> QED
  BY <1>3, <1>4, <1>5, <1>6, <1>7, <1>8 DEF ReconcileSettings

\* What FitsStays says of the storage.
DisksKept ==
  /\ \A v \in disks.pvs : v.vg \in DOMAIN layout.vgs => v \in disks'.pvs
  /\ \A o \in disks.osds : (\E w \in OSDs : OSDFits(o, w)) => o \in disks'.osds

\* OSD o as it is after w has been given its journal.
Updated(w, o) ==
  IF o.path = w.path /\ o.journal = "none" THEN [o EXCEPT !.journal = w.journal] ELSE o

\* What a request of a sub-reconciler does to the volumes and OSDs.
DiskStep ==
  \/ UNCHANGED disks
  \/ /\ disks' = [monitor |-> disks'.monitor, fs |-> disks'.fs, vgs |-> disks'.vgs,
                  parts |-> disks'.parts, pvs |-> disks'.pvs, osds |-> disks'.osds]
     /\ \/ disks'.pvs = disks.pvs
        \/ \E g : g \notin DOMAIN layout.vgs /\ disks'.pvs = {v \in disks.pvs : v.vg # g}
        \/ \E v : disks'.pvs = disks.pvs \cup {v}
     /\ \/ disks'.osds = disks.osds
        \/ \E o : ~(\E w \in OSDs : OSDFits(o, w)) /\ disks'.osds = disks.osds \ {o}
        \/ \E o : disks'.osds = disks.osds \cup {o}
        \/ \E w \in OSDs : w.journal # "none" /\ disks'.osds = {Updated(w, o) : o \in disks.osds}

\* Such a step leaves volumes and OSDs of the profile alone.
LEMMA StorageKept ==
  ASSUME ProfileInv, DiskStep
  PROVE  DisksKept
<1>1. \A o, q \in OSDs : o.path = q.path => o = q
  BY ProfilesAssumption DEF ProfileInv, WellFormed, OSDs
<1>2. \A v \in disks.pvs : v.vg \in DOMAIN layout.vgs => v \in disks'.pvs
  BY DEF DiskStep
<1>3. ASSUME NEW o \in disks.osds, NEW w \in OSDs, OSDFits(o, w)
      PROVE  o \in disks'.osds
  <2>1. ASSUME NEW u \in OSDs, u.journal # "none"
        PROVE  Updated(u, o) = o
    BY <1>1, <1>3, <2>1 DEF Updated, OSDFits
  <2> QED
    BY <1>3, <2>1 DEF DiskStep
<1> QED
  BY <1>2, <1>3 DEF DisksKept

\* Every step of the storage reconcilers and of the system is one.
LEMMA StorageSteps ==
  ASSUME StageInv, DiskShape, ReconcileStorage \/ PartitionReady \/ ClusterReady
  PROVE  UNCHANGED layout /\ QuietPass /\ DiskStep
<1> USE DEF storageVars, passVars, Advance, Abort, Waits
<1> DEFINE St == {"monitor", "fileSystemTypes", "fileSystemSizes", "volumeGroups", "partitions",
                  "physicalVolumes", "nextGroup", "staleOSDs", "journals", "osds"}
<1>1. ASSUME NEW k \in St, stage = k,
             \/ stage' = "populate" \/ UNCHANGED <<locked, stage>>
             \/ stage' = After(stage) /\ UNCHANGED locked
      PROVE  QuietPass
  <2>1. CASE stage' = "populate"
    BY <2>1 DEF QuietPass
  <2>2. CASE UNCHANGED <<locked, stage>>
    BY <1>1, <2>2 DEF QuietPass, ChangingStages, InterfaceStages
  <2>3. CASE stage' = After(stage) /\ UNCHANGED locked
    BY <1>1, <2>3, QuietAdvance DEF InterfaceStages, StaleStages
  <2> QED
    BY <1>1, <2>1, <2>2, <2>3
<1>2. CASE ReconcileMonitor
  <2>1. stage = "monitor" /\ UNCHANGED layout
    BY <1>2 DEF ReconcileMonitor
  <2>2. QuietPass
    BY <1>1, <1>2, <2>1 DEF ReconcileMonitor, Work
  <2>3. UNCHANGED disks \/ disks' = [disks EXCEPT !.monitor = layout.monitor]
    BY <1>2 DEF ReconcileMonitor, Work
  <2>4. DiskStep
    BY <2>3 DEF DiskStep, DiskShape
  <2> QED
    BY <2>1, <2>2, <2>4
<1>3. CASE ReconcileFileSystemTypes
  <2>1. stage = "fileSystemTypes" /\ UNCHANGED layout
    BY <1>3 DEF ReconcileFileSystemTypes
  <2>2. QuietPass
    BY <1>1, <1>3, <2>1 DEF ReconcileFileSystemTypes, Work
  <2>3. UNCHANGED disks \/ \E f : disks' = [disks EXCEPT !.fs[f] = layout.fs[f]]
    BY <1>3 DEF ReconcileFileSystemTypes, Work
  <2>4. DiskStep
    BY <2>3 DEF DiskStep, DiskShape
  <2> QED
    BY <2>1, <2>2, <2>4
<1>4. CASE ReconcileFileSystemSizes
  <2>1. stage = "fileSystemSizes" /\ UNCHANGED layout
    BY <1>4 DEF ReconcileFileSystemSizes
  <2>2. QuietPass
    BY <1>1, <1>4, <2>1 DEF ReconcileFileSystemSizes, Work
  <2>3. UNCHANGED disks \/ \E fs : disks' = [disks EXCEPT !.fs = fs]
    BY <1>4 DEF ReconcileFileSystemSizes, Work
  <2>4. DiskStep
    BY <2>3 DEF DiskStep, DiskShape
  <2> QED
    BY <2>1, <2>2, <2>4
<1>5. CASE ReconcileVolumeGroups
  <2>1. stage = "volumeGroups" /\ UNCHANGED layout
    BY <1>5 DEF ReconcileVolumeGroups
  <2>2. QuietPass
    BY <1>1, <1>5, <2>1 DEF ReconcileVolumeGroups, Work
  <2>3. UNCHANGED disks \/ \E g : VolumeGroupApply(g)
    BY <1>5 DEF ReconcileVolumeGroups, Work
  <2>5. DiskStep
    <3>1. CASE UNCHANGED disks
      BY <3>1 DEF DiskStep
    <3>2. ASSUME NEW g, VolumeGroupApply(g)
          PROVE  DiskStep
      <4> DEFINE P == {v \in disks.pvs : g \in DOMAIN layout.vgs \/ v.vg # g}
      <4>1. \E vgs, parts : disks' = [disks EXCEPT !.vgs = vgs, !.pvs = P, !.parts = parts]
        BY <3>2, Zenon DEF VolumeGroupApply
      <4>2. P = disks.pvs \/ (g \notin DOMAIN layout.vgs /\ P = {v \in disks.pvs : v.vg # g})
        OBVIOUS
      <4> HIDE DEF P
      <4>3. \E vgs, parts : disks' = [monitor |-> disks.monitor, fs |-> disks.fs, vgs |-> vgs,
                                      parts |-> parts, pvs |-> P, osds |-> disks.osds]
        BY <4>1 DEF DiskShape
      <4> QED
        BY <4>2, <4>3 DEF DiskStep
    <3> QED
      BY <2>3, <3>1, <3>2
  <2> QED
    BY <2>1, <2>2, <2>5
<1>6. CASE ReconcilePartitions
  <2>1. stage = "partitions" /\ UNCHANGED layout
    BY <1>6 DEF ReconcilePartitions
  <2>2. QuietPass
    BY <1>1, <1>6, <2>1 DEF ReconcilePartitions, Work
  <2>3. UNCHANGED disks \/ \E parts : disks' = [disks EXCEPT !.parts = parts]
    BY <1>6 DEF ReconcilePartitions, Work
  <2>4. DiskStep
    BY <2>3 DEF DiskStep, DiskShape
  <2> QED
    BY <2>1, <2>2, <2>4
<1>7. CASE ReconcilePhysicalVolumes
  <2>1. stage = "physicalVolumes" /\ UNCHANGED layout
    BY <1>7 DEF ReconcilePhysicalVolumes
  <2>2. QuietPass
    BY <1>1, <1>7, <2>1 DEF ReconcilePhysicalVolumes, Work
  <2>3. UNCHANGED disks \/ \E v, parts :
          disks' = [disks EXCEPT !.pvs = disks.pvs \cup {v}, !.parts = parts]
    BY <1>7 DEF ReconcilePhysicalVolumes, Work
  <2>4. DiskStep
    BY <2>3 DEF DiskStep, DiskShape
  <2> QED
    BY <2>1, <2>2, <2>4
<1>8. CASE NextVolumeGroup
  <2>1. UNCHANGED <<layout, disks, locked>> /\ stage \in {"nextGroup", "partitions"}
    BY <1>8 DEF NextVolumeGroup
  <2>2. CASE stage' = "partitions"
    <3>1. stage \notin ChangingStages /\ stage' \notin ChangingStages /\ stage # "populate"
      BY <2>1, <2>2 DEF ChangingStages, InterfaceStages
    <3>2. stage' \in EarlyStages' => stage \in EarlyStages
      BY <2>1, <2>2 DEF EarlyStages, VolumeStages, SettingStages
    <3>3. StageInv'
      BY <2>1, <2>2 DEF StageInv, LockedStages, EnabledStages, VolumeStages
    <3> QED
      BY <2>1, <3>1, <3>2, <3>3 DEF QuietPass, DiskStep
  <2>3. CASE stage' = After("nextGroup")
    BY <2>1, <2>3, QuietAdvance DEF DiskStep, InterfaceStages, StaleStages
  <2> QED
    BY <1>8, <2>1, <2>2, <2>3 DEF NextVolumeGroup
<1>9. CASE ReconcileStaleOSDs
  <2>1. stage = "staleOSDs" /\ UNCHANGED layout
    BY <1>9 DEF ReconcileStaleOSDs
  <2>2. QuietPass
    BY <1>1, <1>9, <2>1 DEF ReconcileStaleOSDs, Work
  <2>3. UNCHANGED disks \/ \E o : /\ ~(\E w \in OSDs : OSDFits(o, w))
                                 /\ disks' = [disks EXCEPT !.osds = disks.osds \ {o}]
    BY <1>9 DEF ReconcileStaleOSDs, Work, OSDFits
  <2>4. DiskStep
    BY <2>3 DEF DiskStep, DiskShape
  <2> QED
    BY <2>1, <2>2, <2>4
<1>10. ASSUME NEW name \in {"journals", "osds"}, NEW function, ReconcileOSDsByType(name, function)
       PROVE  UNCHANGED layout /\ QuietPass /\ DiskStep
  <2>1. stage = name /\ UNCHANGED layout
    BY <1>10 DEF ReconcileOSDsByType
  <2>2. QuietPass
    BY <1>1, <1>10, <2>1 DEF ReconcileOSDsByType, Work
  <2>3. \/ UNCHANGED disks
        \/ \E o : disks' = [disks EXCEPT !.osds = disks.osds \cup {o}]
        \/ \E w \in OSDs : /\ w.journal # "none"
                           /\ disks' = [disks EXCEPT !.osds = {Updated(w, o) : o \in disks.osds}]
    BY <1>10 DEF ReconcileOSDsByType, Work, Updated, osdUpdateRequired
  <2>4. DiskStep
    BY <2>3 DEF DiskStep, DiskShape
  <2> QED
    BY <2>1, <2>2, <2>4
<1>11. CASE PartitionReady
  <2>1. UNCHANGED <<layout, stage, locked, done>>
    BY <1>11 DEF PartitionReady
  <2>2. QuietPass
    BY <2>1 DEF QuietPass
  <2>3. \E parts : disks' = [disks EXCEPT !.parts = parts]
    BY <1>11 DEF PartitionReady
  <2>4. DiskStep
    BY <2>3 DEF DiskStep, DiskShape
  <2> QED
    BY <2>1, <2>2, <2>4
<1>12. CASE ClusterReady
  BY <1>12 DEF ClusterReady, QuietPass, DiskStep
<1> QED
  BY <1>2, <1>3, <1>4, <1>5, <1>6, <1>7, <1>8, <1>9, <1>10, <1>11, <1>12
     DEF ReconcileStorage, ReconcileOSDs

\* A sub-reconciler that works on the network ends the pass, goes on or is done.
Aborts == stage' = "populate" /\ UNCHANGED seen
Stays == UNCHANGED <<stage, seen>>
Leaves == stage' = After(stage) /\ done' = {} /\ UNCHANGED net

\* What each networking reconciler may do to the system and to the lists.
LEMMA StaleRoutesSteps ==
  ASSUME ReconcileStaleRoutes
  PROVE  /\ stage = "staleRoutes" /\ UNCHANGED <<asked, locked>>
         /\ \/ UNCHANGED net
            \/ \E r \in seen.routes :
                 StaleRoute(r) /\ net' = [net EXCEPT !.routes = {x \in @ : x.dest # r.dest}]
         /\ \/ Aborts \/ Stays
            \/ Leaves /\ (UNCHANGED seen \/ seen' = [seen EXCEPT !.routes = ListRoutes])
BY DEF ReconcileStaleRoutes, Work, Abort, Advance, Aborts, Stays, Leaves

\* It deletes addresses that look stale.
LEMMA StaleAddressesSteps ==
  ASSUME ReconcileStaleAddresses
  PROVE  /\ stage = "staleAddresses" /\ UNCHANGED <<asked, locked>>
         /\ \/ UNCHANGED net
            \/ \E a \in seen.addrs :
                 StaleAddress(a) /\ net' = [net EXCEPT !.addrs = {x \in @ : x.addr # a.addr}]
         /\ \/ Aborts \/ Stays
            \/ Leaves /\ (UNCHANGED seen \/ seen' = [seen EXCEPT !.addrs = ListAddresses])
BY DEF ReconcileStaleAddresses, Work, Abort, Advance, Aborts, Stays, Leaves

\* It deletes interfaces that no profile interface is found for.
LEMMA StaleInterfacesSteps ==
  ASSUME ReconcileStaleInterfaces
  PROVE  /\ stage = "staleInterfaces" /\ UNCHANGED <<asked, locked>>
         /\ \/ UNCHANGED net
            \/ \E s \in seen.ifs :
                 /\ s.kind # "ethernet" /\ findConfiguredInterface(s) = {} /\ Free(s.id)
                 /\ net' = [net EXCEPT !.ifs = [x \in DOMAIN @ \ {s.id} |-> @[x]],
                                       !.nets = {x \in @ : x.on # s.id}]
         /\ \/ Aborts \/ (Stays /\ done' # {})
            \/ Leaves /\ IF done = {} THEN UNCHANGED seen
                         ELSE seen' = [seen EXCEPT !.ifs = ListInterfaces]
BY DEF ReconcileStaleInterfaces, Work, Abort, Advance, Aborts, Stays, Leaves

\* It removes networks from interfaces.
LEMMA StaleNetworksSteps ==
  ASSUME ReconcileStaleInterfaceNetworks
  PROVE  /\ stage = "staleNetworks" /\ UNCHANGED <<asked, locked>>
         /\ UNCHANGED net \/ \E x : net' = [net EXCEPT !.nets = @ \ {x}]
         /\ \/ Aborts \/ Stays
            \/ Leaves /\ (UNCHANGED seen \/ seen' = [seen EXCEPT !.nets = net.nets])
BY DEF ReconcileStaleInterfaceNetworks, Work, Abort, Advance, Aborts, Stays, Leaves

\* It creates and updates interfaces and assigns networks to them.
LEMMA InterfacesSteps ==
  ASSUME NEW name, NEW ws, Interfaces(name, ws)
  PROVE  /\ stage = name /\ UNCHANGED <<asked, locked>>
         /\ \/ Aborts /\ (UNCHANGED net \/ \E x \in InterfaceItems(ws) \ done :
                                              InterfaceAccepted(x) /\ InterfaceApply(x))
            \/ Stays /\ \E x \in InterfaceItems(ws) \ done :
                          InterfaceAccepted(x) /\ InterfaceApply(x) /\ done' = done \cup {x}
            \/ /\ Leaves /\ InterfaceItems(ws) \subseteq done
               /\ IF done = {} THEN UNCHANGED seen ELSE RefreshInterfaces
BY DEF Interfaces, Work, Abort, Advance, Aborts, Stays, Leaves

\* It adds addresses only.
LEMMA AddressesSteps ==
  ASSUME ReconcileAddresses
  PROVE  /\ stage = "addresses" /\ UNCHANGED <<asked, locked>>
         /\ \/ UNCHANGED net
            \/ \E w \in asked.addrs :
                 /\ \A a \in net.addrs : a.addr # w.addr
                 /\ \E i : net' = [net EXCEPT !.addrs = @ \cup {[addr |-> w.addr, on |-> i]}]
         /\ \/ Aborts \/ Stays
            \/ Leaves /\ (UNCHANGED seen \/ seen' = [seen EXCEPT !.addrs = ListAddresses])
BY DEF ReconcileAddresses, Work, Abort, Advance, Aborts, Stays, Leaves

\* It adds routes only.
LEMMA RoutesSteps ==
  ASSUME ReconcileRoutes
  PROVE  /\ stage = "routes" /\ UNCHANGED <<asked, locked>>
         /\ \/ UNCHANGED net
            \/ \E w \in asked.routes :
                 /\ \A r \in net.routes : r.dest # w.dest
                 /\ \E i, m : net' = [net EXCEPT !.routes =
                                        @ \cup {[dest |-> w.dest, on |-> i, metric |-> m]}]
         /\ \/ Aborts \/ Stays
            \/ Leaves /\ (UNCHANGED seen \/ seen' = [seen EXCEPT !.routes = ListRoutes])
BY DEF ReconcileRoutes, Work, Abort, Advance, Aborts, Stays, Leaves

\* A request for an interface, which is not about networks, creates one that no
\* entry in the list stands for, or changes one that does and differs.
LEMMA ItemCases ==
  ASSUME NEW ws, NEW x \in InterfaceItems(ws) \ done, x.op # "assign"
  PROVE  \E w \in ws :
           \/ x = Request("create", w, AnyOf(Spare \ DOMAIN net.ifs), "none") /\ Found(w) = {}
           \/ \E s \in Found(w) : x = Request("update", w, s.id, "none") /\ UpdateNeeded(w, s)
<1> DEFINE creates == {Request("create", w, AnyOf(Spare \ DOMAIN net.ifs), "none") :
                         w \in {w \in ws : Found(w) = {}}}
           updates == UNION {{Request("update", w, i.id, "none") :
                                i \in {i \in Found(w) : UpdateNeeded(w, i)}} : w \in ws}
           made == {y \in done : y.op = "create"}
           todo == {y \in creates : ~\E m \in made : m.w = y.w}
           rest == {w \in ws : \A y \in todo \cup (updates \ done) : y.w # w}
           Id(w) == IF Found(w) = {} THEN (CHOOSE m \in made : m.w = w).id
                    ELSE AnyOf(Found(w)).id
<1>1. x \in made \cup todo \cup updates \cup UNION {AssignNetworks(w, Id(w)) : w \in rest}
  BY DEF InterfaceItems
<1>2. x \notin made
  OBVIOUS
<1>3. ASSUME NEW w, x \in AssignNetworks(w, Id(w)) PROVE FALSE
  BY <1>3 DEF AssignNetworks, Request
<1>4. x \in creates \/ x \in updates
  <2> HIDE DEF creates, updates, rest, Id
  <2> QED
    BY <1>1, <1>2, <1>3
<1> QED
  BY <1>4

\* When nothing is left to do, every update that was needed was requested.
LEMMA ItemsDone ==
  ASSUME NEW ws, InterfaceItems(ws) \subseteq done, NEW w \in ws, NEW s \in Found(w),
         UpdateNeeded(w, s)
  PROVE  Request("update", w, s.id, "none") \in done
BY DEF InterfaceItems

\* The interfaces after w was requested for the one with this identifier.
Entry(w) ==
  [kind |-> w.kind, name |-> w.name, vid |-> IF w.kind = "vlan" THEN w.vid ELSE 0,
   attr |-> w.attr,
   uses |-> IF w.kind = "ethernet" THEN {} ELSE {i \in DOMAIN net.ifs : net.ifs[i].name \in w.uses}]
Put(w, id) == [i \in DOMAIN net.ifs \cup {id} |-> IF i = id THEN Entry(w) ELSE net.ifs[i]]

\* A request gives one interface new values, or assigns a network.
LEMMA ApplyCases ==
  ASSUME NetShape, NEW x, InterfaceApply(x)
  PROVE  /\ net' = [ifs |-> net'.ifs, nets |-> net'.nets, addrs |-> net.addrs,
                    routes |-> net.routes]
         /\ net'.ifs = IF x.op = "assign" THEN net.ifs ELSE Put(x.w, x.id)
<1>1. net' = IF x.op = "assign"
             THEN [net EXCEPT !.nets = @ \cup {[on |-> x.id, net |-> x.net]}]
             ELSE [net EXCEPT !.ifs = Put(x.w, x.id)]
  BY DEF InterfaceApply, Put, Entry
<1> QED
  BY <1>1 DEF NetShape

\* Ethernet interfaces are in the list, so that they are never created.
LEMMA EthernetItem ==
  ASSUME UpdateInv, stage \in InterfaceStages, NEW b, NEW x \in InterfaceItems(Ethernet(b)) \ done,
         x.op # "assign"
  PROVE  \E p \in Ports : asked.eth[p].sriov = b /\ x = Request("update", Ether(p), p, "none")
<1>1. PICK w \in Ethernet(b) :
        \/ x = Request("create", w, AnyOf(Spare \ DOMAIN net.ifs), "none") /\ Found(w) = {}
        \/ \E s \in Found(w) : x = Request("update", w, s.id, "none") /\ UpdateNeeded(w, s)
  BY ItemCases
<1>2. PICK p \in Ports : asked.eth[p].sriov = b /\ w = Ether(p)
  BY DEF Ethernet, Ether
<1>3. Found(w) = {s \in seen.ifs : s.id = p}
  BY <1>2 DEF Found, Ether
<1>4. Found(w) # {}
  BY <1>3 DEF UpdateInv
<1> QED
  BY <1>1, <1>2, <1>3, <1>4

\* A request for an upper interface is for a new identifier or for an entry of the
\* list.
LEMMA UpperItem ==
  ASSUME NEW k, NEW x \in InterfaceItems(Upper(k)) \ done, x.op # "assign", InterfaceAccepted(x)
  PROVE  /\ x.w \in Upper(k) /\ NameUnused(x.w.name, x.id)
         /\ k # "ethernet" => Usable(x.w, x.id)
         /\ \/ x.id \in Spare \ DOMAIN net.ifs
            \/ \E s \in Found(x.w) : x.id = s.id
<1>1. PICK w \in Upper(k) :
        \/ x = Request("create", w, AnyOf(Spare \ DOMAIN net.ifs), "none") /\ Found(w) = {}
        \/ \E s \in Found(w) : x = Request("update", w, s.id, "none") /\ UpdateNeeded(w, s)
  BY ItemCases
<1>2. w.kind = k /\ x.w = w
  BY <1>1 DEF Upper, Request
<1>3. CASE x = Request("create", w, AnyOf(Spare \ DOMAIN net.ifs), "none") /\ Found(w) = {}
  BY <1>2, <1>3 DEF InterfaceAccepted, Request
<1>4. CASE \E s \in Found(w) : x = Request("update", w, s.id, "none") /\ UpdateNeeded(w, s)
  BY <1>2, <1>4 DEF InterfaceAccepted, Request
<1> QED
  BY <1>1, <1>3, <1>4

\* What a request for w may find and leave.
LEMMA PutSystem ==
  ASSUME SystemInv, NEW w, NEW id, NameUnused(w.name, id), w.kind = "ethernet" <=> id \in Ports,
         net'.ifs = Put(w, id), net'.addrs = net.addrs, net'.routes = net.routes
  PROVE  SystemInv'
<1>1. DOMAIN net'.ifs = DOMAIN net.ifs \cup {id}
  BY DEF Put
<1>2. \A i \in DOMAIN net'.ifs : net'.ifs[i] = IF i = id THEN Entry(w) ELSE net.ifs[i]
  BY DEF Put
<1>3. /\ Entry(w).kind = w.kind /\ Entry(w).name = w.name
      /\ Entry(w).uses \subseteq DOMAIN net.ifs
  BY DEF Entry
<1>4. \A i \in DOMAIN net'.ifs : /\ net'.ifs[i].kind = "ethernet" <=> i \in Ports
                                 /\ net'.ifs[i].uses \subseteq DOMAIN net'.ifs
  BY <1>1, <1>2, <1>3 DEF SystemInv
<1>5. \A i, j \in DOMAIN net'.ifs : net'.ifs[i].name = net'.ifs[j].name => i = j
  BY <1>1, <1>2, <1>3 DEF SystemInv, NameUnused, Named
<1> QED
  BY <1>1, <1>4, <1>5 DEF SystemInv

\* The part of the profile that a sub-reconciler for interfaces is about.
Concerns(name, ws) ==
  \/ name = "sriov" /\ ws = Ethernet(TRUE)
  \/ name = "ethernet" /\ ws = Ethernet(FALSE)
  \/ name \in {"vf", "bond", "vlan"} /\ ws = Upper(name)

\* Interface id is given the values of w: a port those the profile has for it, another
\* one those of an entry that was not found in the list or was found as this one.
GivesPort(w, id) ==
  /\ stage \in {"sriov", "ethernet"} /\ id \in Ports /\ w = Ether(id)
  /\ asked.eth[id].sriov = (stage = "sriov")
GivesUpper(w, id) ==
  /\ stage \in {"vf", "bond", "vlan"} /\ w \in Upper(stage) /\ id \notin Ports
  /\ Usable(w, id)
  /\ id \notin DOMAIN net.ifs \/ \E s \in Found(w) : s.id = id
Gives(w, id) ==
  /\ net'.ifs = Put(w, id) /\ NameUnused(w.name, id)
  /\ GivesPort(w, id) \/ GivesUpper(w, id)

\* Every request that is accepted gives a profile's interface to a port or to an
\* entry.
LEMMA RequestGives ==
  ASSUME NetShape, SystemInv, UpdateInv, NEW ws, Concerns(stage, ws),
         NEW x \in InterfaceItems(ws) \ done, InterfaceAccepted(x), InterfaceApply(x)
  PROVE  \/ x.op = "assign" /\ net'.ifs = net.ifs
         \/ /\ x.op # "assign" /\ Gives(x.w, x.id)
            /\ stage \in {"sriov", "ethernet"} => x = Request("update", Ether(x.id), x.id, "none")
<1>1. CASE x.op = "assign"
  BY <1>1, ApplyCases
<1>2. CASE x.op # "assign"
  <2>1. net'.ifs = Put(x.w, x.id) /\ NameUnused(x.w.name, x.id)
    BY <1>2, ApplyCases DEF InterfaceAccepted
  <2>2. CASE stage \in {"sriov", "ethernet"}
    <3>1. PICK b \in BOOLEAN : ws = Ethernet(b) /\ b = (stage = "sriov")
      BY <2>2 DEF Concerns
    <3>2. PICK p \in Ports : asked.eth[p].sriov = b /\ x = Request("update", Ether(p), p, "none")
      BY <1>2, <2>2, <3>1, EthernetItem DEF InterfaceStages
    <3>3. x.w = Ether(p) /\ x.id = p
      BY <3>2 DEF Request
    <3> QED
      BY <1>2, <2>1, <2>2, <3>1, <3>2, <3>3 DEF Gives, GivesPort
  <2>3. CASE stage \in {"vf", "bond", "vlan"}
    <3>1. ws = Upper(stage)
      BY <2>3 DEF Concerns
    <3>2. /\ x.w \in Upper(stage) /\ Usable(x.w, x.id)
          /\ x.id \in Spare \ DOMAIN net.ifs \/ \E s \in Found(x.w) : x.id = s.id
      BY <1>2, <2>3, <3>1, UpperItem
    <3>3. x.id \notin Ports
      <4>1. CASE x.id \in Spare \ DOMAIN net.ifs
        BY <4>1, IdentifiersAssumption
      <4>2. ASSUME NEW s \in Found(x.w), x.id = s.id
            PROVE  x.id \notin Ports
        <5>1. x.w.kind = stage
          BY <3>2 DEF Upper
        <5>2. s \in seen.ifs /\ s.kind # "ethernet"
          BY <2>3, <4>2, <5>1 DEF Found, FindBondInterfaceUUID, FindVLANInterfaceUUID
        <5> QED
          BY <2>3, <4>2, <5>2 DEF UpdateInv, SystemInv, InterfaceStages
      <4> QED
        BY <3>2, <4>1, <4>2
    <3> QED
      BY <1>2, <2>1, <2>3, <3>2, <3>3 DEF Gives, GivesUpper
  <2> QED
    BY <2>2, <2>3 DEF Concerns
<1> QED
  BY <1>1, <1>2

\* What the system sees to is kept.
LEMMA GivesSystem ==
  ASSUME SystemInv, ProfileInv, NEW w, NEW id, Gives(w, id), net'.addrs = net.addrs,
         net'.routes = net.routes
  PROVE  SystemInv'
<1>1. w.kind = "ethernet" <=> id \in Ports
  <2>1. CASE GivesPort(w, id)
    BY <2>1 DEF GivesPort, Ether
  <2>2. CASE GivesUpper(w, id)
    BY <2>2 DEF GivesUpper, Upper
  <2> QED
    BY <2>1, <2>2 DEF Gives
<1> QED
  BY <1>1, PutSystem DEF Gives

\* The members of a bond are those that the profile gives it.
LEMMA GivesBonds ==
  ASSUME SystemInv, ProfileInv, BondInv, PortInv, NEW w, NEW id, Gives(w, id)
  PROVE  BondInv'
<1>1. /\ DOMAIN net'.ifs = DOMAIN net.ifs \cup {id}
      /\ \A i \in DOMAIN net'.ifs : net'.ifs[i] = IF i = id THEN Entry(w) ELSE net.ifs[i]
  BY DEF Gives, Put
<1>2. ASSUME w.kind = "bond"
      PROVE  \E P \in Profiles : \E b \in Bonds(P.asked) : Entry(w).uses = Members(P.asked, b)
  <2>1. GivesUpper(w, id) /\ stage = "bond" /\ w \in Bonds(asked)
    BY <1>2 DEF Gives, GivesPort, GivesUpper, Ether, Upper, Bonds
  <2>2. PICK P \in Profiles : asked = P.asked
    BY DEF ProfileInv
  <2>3. w.uses \subseteq {asked.eth[p].name : p \in Ports}
    BY <2>1, <2>2, ProfilesAssumption DEF WellFormed, Bonds
  <2>4. \A p \in Ports : p \in DOMAIN net.ifs /\ net.ifs[p].name = asked.eth[p].name
    BY <2>1 DEF PortInv, PortFits, SystemInv
  <2>5. Entry(w).uses = {i \in DOMAIN net.ifs : net.ifs[i].name \in w.uses}
    BY <1>2 DEF Entry
  <2>6. Entry(w).uses = Members(asked, w)
    BY <2>3, <2>4, <2>5 DEF Members, SystemInv
  <2> QED
    BY <2>1, <2>2, <2>6
<1>3. Entry(w).kind = w.kind
  BY DEF Entry
<1> QED
  BY <1>1, <1>2, <1>3 DEF BondInv

-----------------------------------------------------------------------------
(* The system and the profile.                                             *)

ReconcileInterfaces(name, ws) == Concerns(name, ws) /\ Interfaces(name, ws)

\* Which reconciler of the network a step belongs to.
LEMMA NetworkingCases ==
  ASSUME ReconcileNetworking
  PROVE  \/ ReconcileStaleRoutes \/ ReconcileStaleAddresses \/ ReconcileStaleInterfaces
         \/ ReconcileStaleInterfaceNetworks \/ ReconcileAddresses \/ ReconcileRoutes
         \/ \E ws : ReconcileInterfaces(stage, ws)
<1>1. ASSUME NEW name, NEW ws, Interfaces(name, ws), Concerns(name, ws)
      PROVE  \E v : ReconcileInterfaces(stage, v)
  BY <1>1 DEF Interfaces, ReconcileInterfaces
<1> QED
  BY <1>1 DEF ReconcileNetworking, ReconcileSRIOVInterfaces, ReconcileVFInterfaces,
     ReconcileEthernetInterfaces, ReconcileBondInterfaces, ReconcileVLANInterfaces, Concerns

\* A step reads the lists, leaves the network alone, replaces the profile or is
\* one of networking.
LEMMA StepCases ==
  ASSUME StageInv, DiskShape, [Next]_vars
  PROVE  \/ PopulateHostInfo
         \/ UNCHANGED <<net, seen, asked, layout, later>> /\ QuietPass /\ DiskStep
         \/ UserChangesProfile
         \/ ReconcileNetworking /\ UNCHANGED <<disks, layout, later>>
<1>1. CASE ReconcileSettings
  BY <1>1, SettingSteps DEF DiskStep
<1>2. CASE (ReconcileStorage \/ PartitionReady \/ ClusterReady) /\ UNCHANGED <<netVars, settingVars>>
  BY <1>2, StorageSteps DEF netVars, settingVars
<1>3. CASE PtpInstanceCreated \/ UNCHANGED vars
  BY <1>3 DEF PtpInstanceCreated, vars, netVars, passVars, settingVars, storageVars, QuietPass,
     DiskStep
<1>4. CASE ReconcileNetworking /\ UNCHANGED <<storageVars, settingVars>>
  BY <1>4 DEF storageVars, settingVars
<1> QED
  BY <1>1, <1>2, <1>3, <1>4 DEF Next, Reconcile, SystemWorks

\* PopulateHostInfo reads all the lists.
LEMMA PopulateSteps ==
  ASSUME PopulateHostInfo
  PROVE  /\ stage = "populate" /\ stage' = After(stage) /\ done' = {}
         /\ UNCHANGED <<locked, net, asked, disks, layout, later>>
         /\ seen' = [ifs |-> ListInterfaces, nets |-> net.nets, addrs |-> ListAddresses,
                     routes |-> ListRoutes]
BY DEF PopulateHostInfo, PopulateNetworking, Advance

\* A new profile is one of the history, and starts a new pass.
LEMMA UserSteps ==
  ASSUME ProfileInv, UserChangesProfile
  PROVE  stage' = "populate" /\ UNCHANGED <<net, seen, disks>> /\ ProfileInv'
<1>1. later # <<>> /\ later \in Seq(Profiles) /\ later' = Tail(later)
  BY DEF UserChangesProfile, ProfileInv
<1>2. Head(later) \in Profiles /\ Tail(later) \in Seq(Profiles)
  BY <1>1
<1> QED
  BY <1>1, <1>2 DEF UserChangesProfile, ProfileInv

\* The profile stays one of the history.
LEMMA StepProfile ==
  ASSUME StageInv, DiskShape, ProfileInv, [Next]_vars
  PROVE  ProfileInv'
<1>1. CASE UserChangesProfile
  BY <1>1, UserSteps
<1>2. CASE PopulateHostInfo
  BY <1>2, PopulateSteps DEF ProfileInv
<1>3. CASE UNCHANGED <<asked, layout, later>>
  BY <1>3 DEF ProfileInv
<1>4. CASE ReconcileNetworking /\ UNCHANGED <<disks, layout, later>>
  <2>1. UNCHANGED asked
    BY <1>4, NetworkingCases, StaleRoutesSteps, StaleAddressesSteps, StaleInterfacesSteps,
       StaleNetworksSteps, AddressesSteps, RoutesSteps, InterfacesSteps DEF ReconcileInterfaces
  <2> QED
    BY <1>4, <2>1 DEF ProfileInv
<1> QED
  BY <1>1, <1>2, <1>3, <1>4, StepCases

\* The disks keep their shape.
LEMMA StepDiskShape ==
  ASSUME StageInv, DiskShape, ProfileInv, [Next]_vars
  PROVE  DiskShape'
<1>1. CASE UNCHANGED disks
  BY <1>1 DEF DiskShape
<1>2. CASE DiskStep
  BY <1>2 DEF DiskStep, DiskShape
<1> QED
  BY <1>1, <1>2, StepCases, PopulateSteps, UserSteps

\* What the system refuses, together with what a list can still tell, keeps it in order.
LEMMA StepSystem ==
  ASSUME StageInv, DiskShape, ProfileInv, NetShape, SystemInv, BondInv, UpdateInv, PortInv,
         DeleteInv, [Next]_vars
  PROVE  NetShape' /\ SystemInv' /\ BondInv'
<1> DEFINE Goal == NetShape' /\ SystemInv' /\ BondInv'
<1>1. CASE UNCHANGED <<net, seen>>
  BY <1>1 DEF NetShape, SystemInv, BondInv
<1>2. CASE PopulateHostInfo
  <2>1. UNCHANGED net /\ seen' = [ifs |-> seen'.ifs, nets |-> seen'.nets, addrs |-> seen'.addrs,
                                  routes |-> seen'.routes]
    BY <1>2, PopulateSteps
  <2> QED
    BY <2>1 DEF NetShape, SystemInv, BondInv
<1>3. CASE ReconcileNetworking
  <2>1. seen' = [ifs |-> seen'.ifs, nets |-> seen'.nets, addrs |-> seen'.addrs,
                 routes |-> seen'.routes]
    <3>1. \/ UNCHANGED seen
          \/ \E v : \/ seen' = [seen EXCEPT !.ifs = v] \/ seen' = [seen EXCEPT !.nets = v]
                    \/ seen' = [seen EXCEPT !.addrs = v] \/ seen' = [seen EXCEPT !.routes = v]
          \/ RefreshInterfaces
      BY <1>3, NetworkingCases, StaleRoutesSteps, StaleAddressesSteps, StaleInterfacesSteps,
         StaleNetworksSteps, AddressesSteps, RoutesSteps, InterfacesSteps
         DEF ReconcileInterfaces, Aborts, Stays
    <3> QED
      BY <3>1 DEF NetShape, RefreshInterfaces
  <2>2. ASSUME net' = [ifs |-> net.ifs, nets |-> net'.nets, addrs |-> net'.addrs,
                       routes |-> net'.routes],
               \A a, b \in net'.addrs : a.addr = b.addr => a = b,
               \A r, s \in net'.routes : r.dest = s.dest => r = s
        PROVE  Goal
    <3>1. net'.ifs = net.ifs
      BY <2>2
    <3> QED
      BY <2>1, <2>2, <3>1 DEF NetShape, SystemInv, BondInv
  <2>3. CASE UNCHANGED net
    BY <2>1, <2>3 DEF NetShape, SystemInv, BondInv
  <2>4. CASE ReconcileStaleRoutes
    <3>1. ASSUME NEW r, net' = [net EXCEPT !.routes = {x \in @ : x.dest # r.dest}]
          PROVE  Goal
      <4>1. net' = [ifs |-> net.ifs, nets |-> net.nets, addrs |-> net.addrs,
                    routes |-> {x \in net.routes : x.dest # r.dest}]
        BY <3>1 DEF NetShape
      <4> QED
        BY <2>2, <4>1 DEF SystemInv
    <3> QED
      BY <2>3, <2>4, <3>1, StaleRoutesSteps
  <2>5. CASE ReconcileStaleAddresses
    <3>1. ASSUME NEW a, net' = [net EXCEPT !.addrs = {x \in @ : x.addr # a.addr}]
          PROVE  Goal
      <4>1. net' = [ifs |-> net.ifs, nets |-> net.nets, routes |-> net.routes,
                    addrs |-> {x \in net.addrs : x.addr # a.addr}]
        BY <3>1 DEF NetShape
      <4> QED
        BY <2>2, <4>1 DEF SystemInv
    <3> QED
      BY <2>3, <2>5, <3>1, StaleAddressesSteps
  <2>6. CASE ReconcileStaleInterfaces
    <3>1. ASSUME NEW s \in seen.ifs, s.kind # "ethernet", Free(s.id), stage = "staleInterfaces",
                 net' = [net EXCEPT !.ifs = [x \in DOMAIN @ \ {s.id} |-> @[x]],
                                    !.nets = {x \in @ : x.on # s.id}]
          PROVE  Goal
      <4>1. net' = [ifs |-> [x \in DOMAIN net.ifs \ {s.id} |-> net.ifs[x]],
                    nets |-> {x \in net.nets : x.on # s.id}, addrs |-> net.addrs,
                    routes |-> net.routes]
        BY <3>1 DEF NetShape
      <4>2. /\ DOMAIN net'.ifs = DOMAIN net.ifs \ {s.id}
            /\ net'.ifs = [i \in DOMAIN net'.ifs |-> net'.ifs[i]]
            /\ \A i \in DOMAIN net'.ifs : net'.ifs[i] = net.ifs[i]
        BY <4>1
      <4>3. s.id \notin Ports
        <5>1. CASE s.id \in DOMAIN net.ifs
          BY <3>1, <5>1 DEF DeleteInv, Listing, SystemInv
        <5> QED
          BY <5>1 DEF SystemInv
      <4>4. \A i \in DOMAIN net'.ifs : net'.ifs[i].uses \subseteq DOMAIN net'.ifs
        BY <3>1, <4>2 DEF SystemInv, Free
      <4>5. SystemInv'
        BY <4>1, <4>2, <4>3, <4>4 DEF SystemInv
      <4>6. BondInv'
        BY <4>2 DEF BondInv
      <4> QED
        BY <2>1, <4>1, <4>2, <4>5, <4>6 DEF NetShape
    <3> QED
      BY <2>3, <2>6, <3>1, StaleInterfacesSteps
  <2>7. CASE ReconcileStaleInterfaceNetworks
    <3>1. ASSUME NEW x, net' = [net EXCEPT !.nets = @ \ {x}]
          PROVE  Goal
      <4>1. net' = [ifs |-> net.ifs, nets |-> net.nets \ {x}, addrs |-> net.addrs,
                    routes |-> net.routes]
        BY <3>1 DEF NetShape
      <4> QED
        BY <2>2, <4>1 DEF SystemInv
    <3> QED
      BY <2>3, <2>7, <3>1, StaleNetworksSteps
  <2>8. CASE ReconcileAddresses
    <3>1. ASSUME NEW w, NEW i, \A a \in net.addrs : a.addr # w.addr,
                 net' = [net EXCEPT !.addrs = @ \cup {[addr |-> w.addr, on |-> i]}]
          PROVE  Goal
      <4>1. net' = [ifs |-> net.ifs, nets |-> net.nets, routes |-> net.routes,
                    addrs |-> net.addrs \cup {[addr |-> w.addr, on |-> i]}]
        BY <3>1 DEF NetShape
      <4>2. \A a, b \in net'.addrs : a.addr = b.addr => a = b
        BY <3>1, <4>1 DEF SystemInv
      <4>3. \A r, s \in net'.routes : r.dest = s.dest => r = s
        BY <4>1 DEF SystemInv
      <4> QED
        BY <2>2, <4>1, <4>2, <4>3
    <3> QED
      BY <2>3, <2>8, <3>1, AddressesSteps
  <2>9. CASE ReconcileRoutes
    <3>1. ASSUME NEW w, NEW i, NEW m, \A r \in net.routes : r.dest # w.dest,
                 net' = [net EXCEPT !.routes =
                           @ \cup {[dest |-> w.dest, on |-> i, metric |-> m]}]
          PROVE  Goal
      <4>1. net' = [ifs |-> net.ifs, nets |-> net.nets, addrs |-> net.addrs,
                    routes |-> net.routes \cup {[dest |-> w.dest, on |-> i, metric |-> m]}]
        BY <3>1 DEF NetShape
      <4>2. \A a, b \in net'.addrs : a.addr = b.addr => a = b
        BY <4>1 DEF SystemInv
      <4>3. \A r, s \in net'.routes : r.dest = s.dest => r = s
        BY <3>1, <4>1 DEF SystemInv
      <4> QED
        BY <2>2, <4>1, <4>2, <4>3
    <3> QED
      BY <2>3, <2>9, <3>1, RoutesSteps
  <2>10. ASSUME NEW ws, ReconcileInterfaces(stage, ws)
         PROVE  Goal
    <3>1. ASSUME NEW x \in InterfaceItems(ws) \ done, InterfaceAccepted(x), InterfaceApply(x)
          PROVE  Goal
      <4>1. net' = [ifs |-> net'.ifs, nets |-> net'.nets, addrs |-> net.addrs,
                    routes |-> net.routes]
        BY <3>1, ApplyCases
      <4>2. CASE net'.ifs = net.ifs
        BY <2>2, <4>1, <4>2 DEF SystemInv
      <4>3. CASE Gives(x.w, x.id)
        <5>1. SystemInv'
          BY <4>1, <4>3, GivesSystem
        <5>2. BondInv'
          BY <4>3, GivesBonds
        <5>3. net'.ifs = [i \in DOMAIN net'.ifs |-> net'.ifs[i]]
          BY <4>3 DEF Gives, Put
        <5> QED
          BY <2>1, <4>1, <5>1, <5>2, <5>3 DEF NetShape
      <4> QED
        BY <2>10, <3>1, <4>2, <4>3, RequestGives DEF ReconcileInterfaces
    <3> QED
      BY <2>3, <2>10, <3>1, InterfacesSteps DEF ReconcileInterfaces, Leaves
  <2> QED
    BY <1>3, <2>4, <2>5, <2>6, <2>7, <2>8, <2>9, <2>10, NetworkingCases
<1> QED
  BY <1>1, <1>2, <1>3, StepCases, UserSteps

-----------------------------------------------------------------------------
(* The lists.                                                              *)

\* Where networking is, and what comes after it.
LEMMA NetworkingStages ==
  ASSUME StageInv, ReconcileNetworking
  PROVE  /\ UNCHANGED <<locked, asked>>
         /\ stage \in {"addresses", "routes"} \cup StaleStages \cup InterfaceStages
         /\ ~locked => stage \in {"staleRoutes", "routes"}
         /\ stage' \in {"populate", stage, After(stage)}
<1>1. /\ UNCHANGED <<locked, asked>> /\ stage' \in {"populate", stage, After(stage)}
      /\ stage \in {"addresses", "routes"} \cup StaleStages \/ \E ws : Concerns(stage, ws)
  BY NetworkingCases, StaleRoutesSteps, StaleAddressesSteps, StaleInterfacesSteps,
     StaleNetworksSteps, AddressesSteps, RoutesSteps, InterfacesSteps
     DEF ReconcileInterfaces, Aborts, Stays, Leaves, StaleStages
<1>2. stage \in {"addresses", "routes"} \cup StaleStages \cup InterfaceStages
  BY <1>1 DEF Concerns, InterfaceStages
<1> QED
  BY <1>1, <1>2 DEF StageInv, EnabledStages, StaleStages, InterfaceStages, VolumeStages

\* The stage stays one of the calls of the host's state.
LEMMA StepStage ==
  ASSUME StageInv, DiskShape, ProfileInv, [Next]_vars
  PROVE  StageInv'
<1>1. CASE stage' = "populate"
  BY <1>1 DEF StageInv, LockedStages, EnabledStages
<1>2. CASE UNCHANGED <<locked, stage>>
  BY <1>2 DEF StageInv
<1>3. CASE PopulateHostInfo
  BY <1>3, PopulateSteps, AfterLocked, AfterEnabled
     DEF StageInv, LockedStages, EnabledStages, SettingStages, VolumeStages
<1>4. CASE ReconcileNetworking /\ stage' = After(stage)
  <2>1. CASE locked
    <3>1. locked' /\ stage \in {"addresses", "routes"} \cup StaleStages \cup InterfaceStages
      BY <1>4, <2>1, NetworkingStages
    <3>2. After(stage) \in {"staleAddresses", "staleInterfaces", "staleNetworks", "sriov", "vf",
                            "ethernet", "bond", "vlan", "addresses", "routes", "monitor"}
      BY <2>1, <3>1, AfterLocked DEF StaleStages, InterfaceStages
    <3> QED
      BY <1>4, <3>1, <3>2 DEF StageInv, LockedStages, StaleStages, InterfaceStages
  <2>2. CASE ~locked
    BY <1>4, <2>2, NetworkingStages, AfterEnabled DEF StageInv, EnabledStages
  <2> QED
    BY <2>1, <2>2
<1> QED
  BY <1>1, <1>2, <1>3, <1>4, StepCases, UserSteps, NetworkingStages DEF QuietPass

\* The list that is read is that of the interfaces as they are.
LEMMA ListedInterfaces == ListInterfaces = {Listing(i) : i \in DOMAIN net.ifs}
BY DEF ListInterfaces, Listing, Names

\* Listings depend on the interfaces only.
LEMMA SameListing ==
  ASSUME net'.ifs = net.ifs
  PROVE  /\ \A i : Listing(i)' = Listing(i)
         /\ \A ids : Names(ids)' = Names(ids)
BY DEF Listing, Names

\* The lists of addresses and of routes that are read are right.
AddressesListed(as) ==
  \A s \in as : \A a \in net.addrs :
    a.addr = s.addr => s = [addr |-> a.addr, name |-> net.ifs[a.on].name]
RoutesListed(rs) ==
  \A s \in rs : \A r \in net.routes :
    r.dest = s.dest => s = [dest |-> r.dest, metric |-> r.metric, name |-> net.ifs[r.on].name]

\* Lists that were just read are right, since an address or a destination is there
\* once.
LEMMA ListedOnce ==
  ASSUME SystemInv
  PROVE  AddressesListed(ListAddresses) /\ RoutesListed(ListRoutes)
<1>1. ASSUME NEW b \in net.addrs, NEW a \in net.addrs, a.addr = b.addr PROVE a = b
  BY <1>1 DEF SystemInv
<1>2. ASSUME NEW q \in net.routes, NEW r \in net.routes, r.dest = q.dest PROVE r = q
  BY <1>2 DEF SystemInv
<1>3. AddressesListed(ListAddresses)
  BY <1>1 DEF AddressesListed, ListAddresses
<1>4. RoutesListed(ListRoutes)
  BY <1>2 DEF RoutesListed, ListRoutes
<1> QED
  BY <1>3, <1>4

AllListed == seen.ifs = {Listing(i) : i \in DOMAIN net.ifs}

\* ListInv in terms of these.
LEMMA ListParts ==
  ListInv <=>
    /\ stage # "populate" /\ (done = {} \/ stage \notin ChangingStages) => AllListed
    /\ stage \in EarlyStages => AddressesListed(seen.addrs) /\ RoutesListed(seen.routes)
BY DEF ListInv, ChangingStages, AllListed, AddressesListed, RoutesListed

\* Lists stay right while addresses and routes only go.
LEMMA SameLists ==
  ASSUME net'.ifs = net.ifs, net'.addrs \subseteq net.addrs, net'.routes \subseteq net.routes
  PROVE  /\ seen'.ifs = seen.ifs /\ AllListed => AllListed'
         /\ seen'.addrs = seen.addrs /\ AddressesListed(seen.addrs) => AddressesListed(seen.addrs)'
         /\ seen'.routes = seen.routes /\ RoutesListed(seen.routes) => RoutesListed(seen.routes)'
<1>1. \A i : Listing(i)' = Listing(i)
  BY SameListing
<1> QED
  BY <1>1 DEF AllListed, AddressesListed, RoutesListed

\* The lists stay right where they have to be.
LEMMA StepList ==
  ASSUME StageInv, DiskShape, ProfileInv, NetShape, SystemInv, ListInv, [Next]_vars
  PROVE  ListInv'
<1> DEFINE First == stage' # "populate" /\ (done' = {} \/ stage' \notin ChangingStages) => AllListed'
           Second == stage' \in EarlyStages' =>
                       AddressesListed(seen.addrs)' /\ RoutesListed(seen.routes)'
<1>0. SUFFICES First /\ Second
  BY DEF ListInv, ChangingStages, AllListed, AddressesListed, RoutesListed
<1>1. CASE stage' = "populate"
  <2>1. stage' \notin EarlyStages'
    BY <1>1 DEF EarlyStages, SettingStages, VolumeStages
  <2> QED
    BY <1>1, <2>1
<1>2. CASE UNCHANGED <<net, seen>> /\ QuietPass
  <2>1. /\ AllListed => AllListed'
        /\ AddressesListed(seen.addrs) => AddressesListed(seen.addrs)'
        /\ RoutesListed(seen.routes) => RoutesListed(seen.routes)'
    BY <1>2, SameLists
  <2>2. CASE UNCHANGED <<locked, stage>>
    <3>1. EarlyStages' = EarlyStages
      BY <2>2 DEF EarlyStages
    <3>2. done' = done \/ stage \notin ChangingStages
      BY <1>2, <2>2 DEF QuietPass, ChangingStages, InterfaceStages
    <3>3. First
      BY <2>1, <2>2, <3>2, ListParts
    <3>4. Second
      BY <2>1, <2>2, <3>1, ListParts
    <3> QED
      BY <3>3, <3>4
  <2>3. CASE stage' # "populate" /\ ~UNCHANGED <<locked, stage>>
    BY <1>2, <2>1, <2>3, ListParts DEF QuietPass
  <2> QED
    BY <1>1, <2>2, <2>3
<1>3. CASE PopulateHostInfo
  <2>1. UNCHANGED net /\ seen'.ifs = ListInterfaces /\ seen'.addrs = ListAddresses
        /\ seen'.routes = ListRoutes
    BY <1>3, PopulateSteps
  <2>2. AllListed'
    BY <2>1, SameListing, ListedInterfaces DEF AllListed
  <2>3. AddressesListed(seen.addrs)' /\ RoutesListed(seen.routes)'
    BY <2>1, ListedOnce DEF AddressesListed, RoutesListed
  <2> QED
    BY <2>2, <2>3
<1>4. CASE ReconcileNetworking
  <2>0. UNCHANGED locked
    BY <1>4, NetworkingStages
  <2>1. CASE ReconcileStaleRoutes
    <3>1. /\ net'.ifs = net.ifs /\ net'.addrs \subseteq net.addrs /\ net'.routes \subseteq net.routes
      BY <2>1, StaleRoutesSteps DEF NetShape
    <3>2. seen'.ifs = seen.ifs /\ seen'.addrs = seen.addrs
          /\ (seen'.routes = seen.routes \/ (UNCHANGED net /\ seen'.routes = ListRoutes))
      BY <2>1, StaleRoutesSteps DEF NetShape, Aborts, Stays, Leaves
    <3>3. AllListed /\ AddressesListed(seen.addrs) /\ RoutesListed(seen.routes)
      BY <2>1, StaleRoutesSteps, ListParts DEF ChangingStages, InterfaceStages, EarlyStages
    <3>4. RoutesListed(seen.routes)'
      <4>1. CASE seen'.routes = seen.routes
        BY <3>1, <3>3, <4>1, SameLists
      <4>2. CASE UNCHANGED net /\ seen'.routes = ListRoutes
        BY <4>2, ListedOnce DEF RoutesListed
      <4> QED
        BY <3>2, <4>1, <4>2
    <3> QED
      BY <3>1, <3>2, <3>3, <3>4, SameLists
  <2>2. CASE ReconcileStaleAddresses
    <3>1. /\ net'.ifs = net.ifs /\ net'.addrs \subseteq net.addrs /\ net'.routes \subseteq net.routes
      BY <2>2, StaleAddressesSteps DEF NetShape
    <3>2. seen'.ifs = seen.ifs /\ seen'.routes = seen.routes
          /\ (seen'.addrs = seen.addrs \/ (UNCHANGED net /\ seen'.addrs = ListAddresses))
      BY <2>2, StaleAddressesSteps DEF NetShape, Aborts, Stays, Leaves
    <3>3. stage = "staleAddresses" /\ locked
      BY <2>2, <1>4, StaleAddressesSteps, NetworkingStages
    <3>4. AllListed /\ AddressesListed(seen.addrs) /\ RoutesListed(seen.routes)
      BY <3>3, ListParts DEF ChangingStages, InterfaceStages, EarlyStages
    <3>5. AddressesListed(seen.addrs)'
      <4>1. CASE seen'.addrs = seen.addrs
        BY <3>1, <3>4, <4>1, SameLists
      <4>2. CASE UNCHANGED net /\ seen'.addrs = ListAddresses
        BY <4>2, ListedOnce DEF AddressesListed
      <4> QED
        BY <3>2, <4>1, <4>2
    <3> QED
      BY <3>1, <3>2, <3>4, <3>5, SameLists
  <2>3. ASSUME stage \notin {"staleRoutes", "staleAddresses"} PROVE Second
    <3>1. locked => stage \in {"addresses", "routes", "staleInterfaces", "staleNetworks"}
                                \cup InterfaceStages
      BY <1>4, <2>3, NetworkingStages DEF StaleStages
    <3>2. locked => stage' \in {"populate", "addresses", "routes", "monitor", "staleInterfaces",
                                "staleNetworks"} \cup InterfaceStages
      BY <1>4, <3>1, NetworkingStages, AfterLocked DEF InterfaceStages
    <3>3. ~locked => stage' \in {"populate", "routes", "fileSystemSizes"}
      BY <1>4, <2>3, NetworkingStages, AfterEnabled
    <3> QED
      BY <2>0, <3>2, <3>3 DEF EarlyStages, SettingStages, VolumeStages, InterfaceStages
  <2>4. CASE ReconcileStaleInterfaces
    <3>1. stage = "staleInterfaces" /\ stage \in ChangingStages
      BY <2>4, StaleInterfacesSteps DEF ChangingStages
    <3>2. ASSUME Stays, done' # {} PROVE First
      BY <3>1, <3>2 DEF Stays
    <3>3. ASSUME Leaves, done = {}, UNCHANGED seen PROVE First
      BY <3>1, <3>3, SameLists, ListParts DEF Leaves
    <3>4. ASSUME Leaves, seen' = [seen EXCEPT !.ifs = ListInterfaces] PROVE First
      <4>1. UNCHANGED net /\ seen'.ifs = ListInterfaces
        BY <3>4 DEF Leaves, NetShape
      <4> QED
        BY <4>1, SameListing, ListedInterfaces DEF AllListed
    <3>5. First
      BY <1>1, <2>4, <3>2, <3>3, <3>4, StaleInterfacesSteps DEF Aborts
    <3> QED
      BY <2>3, <3>1, <3>5
  <2>5. CASE ReconcileStaleInterfaceNetworks \/ ReconcileAddresses \/ ReconcileRoutes
    <3>1. stage \in {"staleNetworks", "addresses", "routes"} /\ stage \notin ChangingStages
      BY <2>5, StaleNetworksSteps, AddressesSteps, RoutesSteps DEF ChangingStages, InterfaceStages
    <3>2. net'.ifs = net.ifs /\ seen'.ifs = seen.ifs
      BY <2>5, StaleNetworksSteps, AddressesSteps, RoutesSteps DEF NetShape, Aborts, Stays
    <3>3. AllListed
      BY <3>1, ListParts
    <3>4. AllListed'
      BY <3>2, <3>3, SameListing DEF AllListed
    <3> QED
      BY <2>3, <3>1, <3>4
  <2>6. ASSUME NEW ws, ReconcileInterfaces(stage, ws)
        PROVE  First /\ Second
    <3>1. stage \in InterfaceStages
      BY <2>6 DEF ReconcileInterfaces, Concerns, InterfaceStages
    <3>2. ASSUME Stays, done' # {} PROVE First
      BY <3>1, <3>2 DEF Stays, ChangingStages
    <3>3. ASSUME Leaves, done = {}, UNCHANGED seen PROVE First
      BY <3>1, <3>3, SameLists, ListParts DEF Leaves, InterfaceStages
    <3>4. ASSUME Leaves, RefreshInterfaces PROVE First
      <4>1. UNCHANGED net /\ seen'.ifs = ListInterfaces
        BY <3>4 DEF Leaves, NetShape, RefreshInterfaces
      <4> QED
        BY <4>1, SameListing, ListedInterfaces DEF AllListed
    <3>5. First
      BY <1>1, <2>6, <3>2, <3>3, <3>4, InterfacesSteps DEF Aborts, ReconcileInterfaces
    <3> QED
      BY <2>3, <3>1, <3>5 DEF InterfaceStages
  <2> QED
    BY <1>4, <2>1, <2>2, <2>4, <2>5, <2>6, NetworkingCases
<1> QED
  BY <1>1, <1>2, <1>3, <1>4, StepCases, UserSteps

\* A pass enters a sub-reconciler for interfaces from the one before it, with what
\* the network was; in it the network changes by a request only.
InterfaceMoves(to) ==
  \/ /\ done' = {} /\ UNCHANGED net /\ locked /\ ReconcileNetworking
     /\ stage \in {"addresses", "routes"} \cup StaleStages \cup InterfaceStages
     /\ stage' = After(stage)
  \/ stage = to /\ UNCHANGED <<net, seen, done>>
  \/ stage = to /\ UNCHANGED seen /\ ReconcileNetworking

\* A step into or in a stage that changes interfaces enters it, is none of its
\* own, or is networking.
LEMMA InterfaceMove ==
  ASSUME StageInv, DiskShape, ProfileInv, NEW to \in ChangingStages, stage' = to, [Next]_vars
  PROVE  UNCHANGED asked /\ InterfaceMoves(to)
<1>1. to # "populate" /\ to \notin EnabledStages
  BY DEF ChangingStages, InterfaceStages, EnabledStages, VolumeStages
<1>2. CASE UNCHANGED <<net, seen, asked, layout, later>> /\ QuietPass
  <2>1. stage = to /\ done' = done
    BY <1>1, <1>2 DEF QuietPass
  <2> QED
    BY <1>2, <2>1 DEF InterfaceMoves
<1>3. CASE PopulateHostInfo
  <2>1. stage' \in {"attributes", "volumeGroups"}
    BY <1>3, PopulateSteps, AfterLocked, AfterEnabled
  <2> QED
    BY <2>1 DEF ChangingStages, InterfaceStages
<1>4. CASE ReconcileNetworking
  <2>1. /\ UNCHANGED <<locked, asked>>
        /\ stage \in {"addresses", "routes"} \cup StaleStages \cup InterfaceStages
    BY <1>4, NetworkingStages
  <2>2. locked
    BY <1>1, StepStage, <2>1 DEF StageInv
  <2>3. Aborts \/ Stays \/ Leaves
    BY <1>4, NetworkingCases, StaleRoutesSteps, StaleAddressesSteps, StaleInterfacesSteps,
       StaleNetworksSteps, AddressesSteps, RoutesSteps, InterfacesSteps DEF ReconcileInterfaces
  <2> QED
    BY <1>1, <1>4, <2>1, <2>2, <2>3 DEF InterfaceMoves, Aborts, Stays, Leaves
<1> QED
  BY <1>1, <1>2, <1>3, <1>4, StepCases, UserSteps

\* While interfaces go, the entries of the others stay right.
LEMMA StepDelete ==
  ASSUME StageInv, DiskShape, ProfileInv, NetShape, DeleteInv, [Next]_vars, ListInv', SystemInv'
  PROVE  DeleteInv'
<1> SUFFICES ASSUME stage' = "staleInterfaces"
             PROVE  /\ \A i \in DOMAIN net'.ifs : Listing(i)' \in seen'.ifs
                    /\ \A s \in seen'.ifs : s.id \in DOMAIN net'.ifs => s = Listing(s.id)'
  BY DEF DeleteInv
<1>1. InterfaceMoves("staleInterfaces")
  BY InterfaceMove DEF ChangingStages
<1>2. CASE done' = {}
  <2>1. seen'.ifs = {Listing(i)' : i \in DOMAIN net'.ifs}
    BY <1>2 DEF ListInv
  <2>2. \A i : Listing(i)'.id = i
    BY DEF Listing
  <2> QED
    BY <2>1, <2>2
<1>3. CASE stage = "staleInterfaces" /\ UNCHANGED <<net, seen>>
  BY <1>3, SameListing DEF DeleteInv
<1>4. CASE stage = "staleInterfaces" /\ UNCHANGED seen /\ ReconcileNetworking
  <2>1. ReconcileStaleInterfaces
    BY <1>4, NetworkingCases, StaleRoutesSteps, StaleAddressesSteps, StaleNetworksSteps,
       AddressesSteps, RoutesSteps DEF ReconcileInterfaces, Concerns
  <2>2. CASE UNCHANGED net
    BY <1>3, <1>4, <2>2
  <2>3. ASSUME NEW t, net' = [net EXCEPT !.ifs = [x \in DOMAIN @ \ {t.id} |-> @[x]],
                                         !.nets = {x \in @ : x.on # t.id}]
        PROVE  /\ DOMAIN net'.ifs \subseteq DOMAIN net.ifs
               /\ \A i \in DOMAIN net'.ifs : Listing(i)' = Listing(i)
    <3>1. net'.ifs = [x \in DOMAIN net.ifs \ {t.id} |-> net.ifs[x]]
      BY <2>3 DEF NetShape
    <3>2. DOMAIN net'.ifs \subseteq DOMAIN net.ifs
          /\ \A i \in DOMAIN net'.ifs : net'.ifs[i] = net.ifs[i]
      BY <3>1
    <3>3. ASSUME NEW i \in DOMAIN net'.ifs PROVE Listing(i)' = Listing(i)
      <4>1. net'.ifs[i] = net.ifs[i] /\ net'.ifs[i].uses \subseteq DOMAIN net'.ifs
        BY <3>2 DEF SystemInv
      <4>2. Names(net.ifs[i].uses)' = Names(net.ifs[i].uses)
        BY <3>2, <4>1 DEF Names
      <4> QED
        BY <4>1, <4>2 DEF Listing
    <3> QED
      BY <3>2, <3>3
  <2>4. \/ UNCHANGED net
        \/ \E t \in seen.ifs : net' = [net EXCEPT !.ifs = [x \in DOMAIN @ \ {t.id} |-> @[x]],
                                                 !.nets = {x \in @ : x.on # t.id}]
    BY <2>1, StaleInterfacesSteps
  <2>5. CASE /\ DOMAIN net'.ifs \subseteq DOMAIN net.ifs
             /\ \A i \in DOMAIN net'.ifs : Listing(i)' = Listing(i)
    BY <1>4, <2>5 DEF DeleteInv
  <2> QED
    BY <2>2, <2>3, <2>4, <2>5
<1> QED
  BY <1>1, <1>2, <1>3, <1>4 DEF InterfaceMoves

\* A sub-reconciler for interfaces that goes on has made one request.
LEMMA InterfaceRequest ==
  ASSUME StageInv, NetShape, SystemInv, UpdateInv, stage \in InterfaceStages, stage' = stage,
         ReconcileNetworking
  PROVE  \/ UNCHANGED net /\ done' = {}
         \/ \E x : /\ done' = done \cup {x}
                   /\ \/ x.op = "assign" /\ net'.ifs = net.ifs
                      \/ /\ x.op # "assign" /\ Gives(x.w, x.id)
                         /\ stage \in {"sriov", "ethernet"} =>
                              x = Request("update", Ether(x.id), x.id, "none")
<1>1. PICK ws : ReconcileInterfaces(stage, ws)
  BY NetworkingCases, StaleRoutesSteps, StaleAddressesSteps, StaleInterfacesSteps,
     StaleNetworksSteps, AddressesSteps, RoutesSteps DEF InterfaceStages
<1>2. stage' # "populate"
  BY DEF InterfaceStages
<1>3. \/ Leaves
      \/ \E x \in InterfaceItems(ws) \ done :
           InterfaceAccepted(x) /\ InterfaceApply(x) /\ done' = done \cup {x}
  BY <1>1, <1>2, InterfacesSteps DEF ReconcileInterfaces, Aborts
<1> QED
  BY <1>1, <1>3, RequestGives DEF Leaves, ReconcileInterfaces

\* The values after a request.
LEMMA PutValues ==
  ASSUME NEW w, NEW id, net'.ifs = Put(w, id)
  PROVE  /\ DOMAIN net'.ifs = DOMAIN net.ifs \cup {id}
         /\ \A i \in DOMAIN net'.ifs : i # id => net'.ifs[i] = net.ifs[i]
         /\ net'.ifs[id].kind = w.kind /\ net'.ifs[id].name = w.name
BY DEF Put, Entry

\* The entry that w was found as is of its kind, and has its name if it is no bond.
LEMMA FoundUpper ==
  ASSUME NEW w, NEW s \in Found(w), w \in Upper(stage), stage \in {"vf", "bond", "vlan"}
  PROVE  /\ s \in seen.ifs /\ s.kind = w.kind
         /\ stage # "bond" => s.name = w.name
         /\ stage = "bond" => s.uses \cap w.uses # {}
BY DEF Found, FindBondInterfaceUUID, FindVLANInterfaceUUID, Upper

\* While interfaces are created and updated, entries stay those of interfaces that
\* are there.
LEMMA StepUpdate ==
  ASSUME StageInv, DiskShape, ProfileInv, NetShape, SystemInv, UpdateInv, [Next]_vars, ListInv',
         SystemInv'
  PROVE  UpdateInv'
<1> SUFFICES ASSUME stage' \in InterfaceStages
             PROVE  /\ \A p \in Ports : \E s \in seen'.ifs : s.id = p
                    /\ \A s, t \in seen'.ifs : s.id = t.id => s = t
                    /\ \A s \in seen'.ifs : /\ s.id \in DOMAIN net'.ifs
                                            /\ s.kind = net'.ifs[s.id].kind
                    /\ stage' \in {"vf", "vlan"} => \A s \in seen'.ifs : net'.ifs[s.id].name = s.name
  BY DEF UpdateInv, InterfaceStages
<1>1. InterfaceMoves(stage')
  BY InterfaceMove DEF ChangingStages
<1>2. CASE done' = {}
  <2>1. seen'.ifs = {Listing(i)' : i \in DOMAIN net'.ifs}
    BY <1>2 DEF ListInv, InterfaceStages
  <2>2. \A i : Listing(i)'.id = i /\ Listing(i)'.kind = net'.ifs[i].kind
               /\ Listing(i)'.name = net'.ifs[i].name
    BY DEF Listing
  <2>3. Ports \subseteq DOMAIN net'.ifs
    BY DEF SystemInv
  <2> QED
    BY <2>1, <2>2, <2>3
<1>3. CASE stage = stage' /\ UNCHANGED seen /\ net'.ifs = net.ifs
  BY <1>3 DEF UpdateInv
<1>4. ASSUME stage = stage', UNCHANGED seen, NEW w, NEW id, Gives(w, id)
      PROVE  /\ \A p \in Ports : \E s \in seen'.ifs : s.id = p
             /\ \A s, t \in seen'.ifs : s.id = t.id => s = t
             /\ \A s \in seen'.ifs : s.id \in DOMAIN net'.ifs /\ s.kind = net'.ifs[s.id].kind
             /\ stage' \in {"vf", "vlan"} => \A s \in seen'.ifs : net'.ifs[s.id].name = s.name
  <2>1. /\ DOMAIN net'.ifs = DOMAIN net.ifs \cup {id}
        /\ \A i \in DOMAIN net'.ifs : i # id => net'.ifs[i] = net.ifs[i]
        /\ net'.ifs[id].kind = w.kind /\ net'.ifs[id].name = w.name
    BY <1>4, PutValues DEF Gives
  <2>2. /\ \A p \in Ports : \E s \in seen'.ifs : s.id = p
        /\ \A s, t \in seen'.ifs : s.id = t.id => s = t
    BY <1>4 DEF UpdateInv
  <2>3. \A s \in seen.ifs : s.id \in DOMAIN net.ifs /\ s.kind = net.ifs[s.id].kind
    BY <1>4 DEF UpdateInv
  <2>4. ASSUME NEW s \in seen.ifs, s.id = id
        PROVE  s.kind = w.kind /\ (stage' \in {"vf", "vlan"} => s.name = w.name)
    <3>1. CASE GivesPort(w, id)
      BY <1>4, <2>3, <2>4, <3>1 DEF GivesPort, Ether, SystemInv
    <3>2. CASE GivesUpper(w, id)
      <4>1. PICK t \in Found(w) : t.id = id
        BY <2>3, <2>4, <3>2 DEF GivesUpper
      <4>2. t \in seen.ifs /\ t.kind = w.kind /\ (stage # "bond" => t.name = w.name)
        BY <3>2, FoundUpper DEF GivesUpper
      <4>3. t = s
        BY <1>4, <2>4, <4>1, <4>2 DEF UpdateInv
      <4> QED
        BY <1>4, <4>2, <4>3
    <3> QED
      BY <1>4, <3>1, <3>2 DEF Gives
  <2>5. \A s \in seen'.ifs : s.id \in DOMAIN net'.ifs /\ s.kind = net'.ifs[s.id].kind
    BY <1>4, <2>1, <2>3, <2>4
  <2>6. ASSUME stage' \in {"vf", "vlan"}, NEW s \in seen'.ifs
        PROVE  net'.ifs[s.id].name = s.name
    <3>1. net.ifs[s.id].name = s.name
      BY <1>4, <2>6 DEF UpdateInv
    <3> QED
      BY <1>4, <2>1, <2>3, <2>4, <2>6, <3>1
  <2> QED
    BY <2>2, <2>5, <2>6
<1>5. CASE stage = stage' /\ UNCHANGED seen /\ ReconcileNetworking
  BY <1>2, <1>3, <1>4, <1>5, InterfaceRequest
<1> QED
  BY <1>1, <1>2, <1>3, <1>5 DEF InterfaceMoves

\* When the sub-reconciler for one sort of Ethernet interfaces is done, they fit.
LEMMA EthernetDone ==
  ASSUME PortInv, stage \in {"sriov", "ethernet"}, NEW b, InterfaceItems(Ethernet(b)) \subseteq done,
         NEW p \in Ports, asked.eth[p].sriov = b
  PROVE  PortFits(p)
<1> SUFFICES ASSUME ~PortFits(p) PROVE FALSE
  OBVIOUS
<1>1. PICK s \in seen.ifs : s.id = p /\ s.name = net.ifs[p].name
  BY DEF PortInv
<1>2. Request("update", Ether(p), p, "none") \notin done
  BY DEF PortInv
<1>3. Ether(p) \in Ethernet(b) /\ Ether(p).kind = "ethernet" /\ Ether(p).port = p
      /\ Ether(p).name = asked.eth[p].name
  BY DEF Ethernet, Ether
<1>4. s \in Found(Ether(p))
  BY <1>1, <1>3 DEF Found
<1>5. UpdateNeeded(Ether(p), s)
  BY <1>1, <1>3 DEF UpdateNeeded, interfaceUpdateRequired, PortFits
<1> QED
  BY <1>1, <1>2, <1>3, <1>4, <1>5, ItemsDone

\* The three parts of PortInv.
AwaitsName(p) ==
  /\ Request("update", Ether(p), p, "none") \notin done
  /\ \E s \in seen.ifs : s.id = p /\ s.name = net.ifs[p].name

\* Ethernet interfaces get their names, SR-IOV before VF and all before the bonds.
LEMMA StepPorts ==
  ASSUME StageInv, DiskShape, ProfileInv, NetShape, SystemInv, UpdateInv, PortInv, [Next]_vars,
         ListInv', SystemInv'
  PROVE  PortInv'
<1> SUFFICES ASSUME stage' \in InterfaceStages
             PROVE  PortInv'
  BY DEF PortInv, InterfaceStages
<1> DEFINE First == stage' \in {"sriov", "ethernet"} =>
                      \A p \in Ports : PortFits(p)' \/ AwaitsName(p)'
           Second == stage' \in {"vf", "ethernet", "bond"} =>
                       \A p \in Ports : asked'.eth[p].sriov => PortFits(p)'
           Third == stage' = "bond" => \A p \in Ports : PortFits(p)'
<1>0. SUFFICES First /\ Second /\ Third
  BY DEF PortInv, AwaitsName
<1>1. UNCHANGED asked /\ InterfaceMoves(stage')
  BY InterfaceMove DEF ChangingStages
<1>2. ASSUME done' = {} PROVE First
  <2>1. seen'.ifs = {Listing(i)' : i \in DOMAIN net'.ifs}
    BY <1>2 DEF ListInv, InterfaceStages
  <2>2. \A i : Listing(i)'.id = i /\ Listing(i)'.name = net'.ifs[i].name
    BY DEF Listing
  <2>3. Ports \subseteq DOMAIN net'.ifs
    BY DEF SystemInv
  <2> QED
    BY <1>2, <2>1, <2>2, <2>3 DEF AwaitsName
<1>3. ASSUME UNCHANGED net, NEW p, PortFits(p) PROVE PortFits(p)'
  BY <1>1, <1>3 DEF PortFits
<1>4. CASE /\ done' = {} /\ UNCHANGED net /\ locked /\ ReconcileNetworking
           /\ stage \in {"addresses", "routes"} \cup StaleStages \cup InterfaceStages
           /\ stage' = After(stage)
  <2>1. /\ stage' = "vf" => stage = "sriov"
        /\ stage' = "ethernet" => stage = "vf"
        /\ stage' = "bond" => stage = "ethernet"
    BY <1>4, AfterLocked DEF StaleStages, InterfaceStages
  <2>2. ASSUME stage \in {"sriov", "ethernet"}
        PROVE  \E b \in BOOLEAN : b = (stage = "sriov") /\ InterfaceItems(Ethernet(b)) \subseteq done
    <3>1. PICK ws : ReconcileInterfaces(stage, ws)
      BY <1>4, <2>2, NetworkingCases, StaleRoutesSteps, StaleAddressesSteps, StaleInterfacesSteps,
         StaleNetworksSteps, AddressesSteps, RoutesSteps
    <3>2. PICK b \in BOOLEAN : b = (stage = "sriov") /\ ws = Ethernet(b)
      BY <2>2, <3>1 DEF ReconcileInterfaces, Concerns
    <3>3. stage' # "populate" /\ stage' # stage
      BY <1>4, <2>2, AfterLocked
    <3>4. InterfaceItems(ws) \subseteq done
      BY <3>1, <3>3, InterfacesSteps DEF ReconcileInterfaces, Aborts, Stays
    <3> QED
      BY <3>2, <3>4
  <2>3. Second
    <3>1. ASSUME stage' = "vf", NEW p \in Ports, asked.eth[p].sriov
          PROVE  PortFits(p)
      <4>1. asked.eth[p].sriov = TRUE
        BY <3>1, ProfilesAssumption DEF ProfileInv, WellFormed
      <4> QED
        BY <2>1, <2>2, <3>1, <4>1, EthernetDone
    <3>2. ASSUME stage' \in {"ethernet", "bond"}, NEW p \in Ports, asked.eth[p].sriov
          PROVE  PortFits(p)
      BY <2>1, <3>2 DEF PortInv
    <3> QED
      BY <1>1, <1>3, <1>4, <3>1, <3>2
  <2>4. Third
    <3>1. ASSUME stage' = "bond", NEW p \in Ports
          PROVE  PortFits(p)
      <4>1. CASE asked.eth[p].sriov = TRUE
        BY <2>1, <3>1, <4>1 DEF PortInv
      <4>2. CASE asked.eth[p].sriov = FALSE
        BY <2>1, <2>2, <3>1, <4>2, EthernetDone
      <4> QED
        BY <4>1, <4>2, ProfilesAssumption DEF ProfileInv, WellFormed
    <3> QED
      BY <1>3, <1>4, <3>1
  <2> QED
    BY <1>2, <1>4, <2>3, <2>4
<1>5. CASE stage = stage' /\ UNCHANGED <<seen, done>> /\ net'.ifs = net.ifs
  <2>1. \A p \in Ports : PortFits(p)' = PortFits(p) /\ AwaitsName(p)' = AwaitsName(p)
    BY <1>1, <1>5 DEF PortFits, AwaitsName, Ether
  <2> QED
    BY <1>1, <1>5, <2>1 DEF PortInv, AwaitsName
<1>6. ASSUME stage = stage', UNCHANGED seen, NEW x, x.op = "assign", done' = done \cup {x},
             net'.ifs = net.ifs
      PROVE  First /\ Second /\ Third
  <2>1. \A p \in Ports : PortFits(p) => PortFits(p)'
    BY <1>1, <1>6 DEF PortFits
  <2>2. \A p \in Ports : AwaitsName(p) => AwaitsName(p)'
    <3>1. \A p \in Ports : Ether(p)' = Ether(p) /\ Request("update", Ether(p), p, "none") # x
      BY <1>1, <1>6 DEF Request, Ether
    <3> QED
      BY <1>6, <3>1 DEF AwaitsName
  <2> QED
    BY <1>1, <1>6, <2>1, <2>2 DEF PortInv, AwaitsName
<1>7. ASSUME stage = stage', UNCHANGED seen, NEW x, x.op # "assign", done' = done \cup {x},
             Gives(x.w, x.id),
             stage \in {"sriov", "ethernet"} => x = Request("update", Ether(x.id), x.id, "none")
      PROVE  First /\ Second /\ Third
  <2>0. net'.ifs = Put(x.w, x.id)
    BY <1>7 DEF Gives
  <2>1. /\ DOMAIN net'.ifs = DOMAIN net.ifs \cup {x.id}
        /\ \A i \in DOMAIN net'.ifs : i # x.id => net'.ifs[i] = net.ifs[i]
        /\ net'.ifs[x.id].name = x.w.name
    BY <2>0 DEF Put, Entry
  <2>2. ASSUME NEW p \in Ports, p = x.id PROVE PortFits(p)'
    <3>1. x.w = Ether(p)
      BY <1>7, <2>2 DEF Gives, GivesPort, GivesUpper
    <3>2. net'.ifs[p].name = asked'.eth[p].name
      BY <1>1, <2>1, <2>2, <3>1 DEF Ether
    <3> QED
      BY <3>2 DEF PortFits
  <2>3. ASSUME NEW p \in Ports, p # x.id PROVE net'.ifs[p] = net.ifs[p]
    BY <2>1, <2>3 DEF SystemInv
  <2>4. \A p \in Ports : PortFits(p) => PortFits(p)'
    BY <1>1, <2>2, <2>3 DEF PortFits
  <2>5. ASSUME stage \in {"sriov", "ethernet"}, NEW p \in Ports, AwaitsName(p)
        PROVE  PortFits(p)' \/ AwaitsName(p)'
    <3>1. CASE p = x.id
      BY <2>2, <3>1
    <3>2. CASE p # x.id
      <4>1. Ether(p)' = Ether(p) /\ Request("update", Ether(p), p, "none") # x
        BY <1>1, <3>2 DEF Request, Ether
      <4> QED
        BY <1>7, <2>3, <2>5, <3>2, <4>1 DEF AwaitsName
    <3> QED
      BY <3>1, <3>2
  <2> QED
    BY <1>1, <1>7, <2>4, <2>5 DEF PortInv, AwaitsName
<1>8. CASE stage = stage' /\ UNCHANGED seen /\ ReconcileNetworking
  <2>1. CASE UNCHANGED net /\ done' = {}
    BY <1>1, <1>2, <1>3, <1>8, <2>1 DEF PortInv
  <2> QED
    BY <1>6, <1>7, <1>8, <2>1, InterfaceRequest
<1> QED
  BY <1>1, <1>4, <1>5, <1>8 DEF InterfaceMoves

\* A bond keeps its name and members, or is given to one of this profile that
\* shares a member.
LEMMA StepRename ==
  ASSUME StageInv, DiskShape, ProfileInv, NetShape, SystemInv, BondInv, UpdateInv, RenameInv,
         [Next]_vars, ListInv', SystemInv', BondInv', PortInv'
  PROVE  RenameInv'
<1> DEFINE Origin(s) == \E P \in Profiles : \E b \in Bonds(P.asked) :
                          s.uses = {asked.eth[p].name : p \in Members(P.asked, b)}
           Alone(s) == net.ifs[s.id].name = s.name /\ Names(net.ifs[s.id].uses) = s.uses
           Given(s) == \E w \in Upper("bond") :
                         w.uses \cap s.uses # {} /\ net.ifs[s.id].name = w.name
<1> SUFFICES ASSUME stage' = "bond"
             PROVE  \A s \in seen'.ifs : s.kind = "bond" => Origin(s)' /\ (Alone(s)' \/ Given(s)')
  BY DEF RenameInv
<1>1. UNCHANGED asked /\ InterfaceMoves("bond")
  BY InterfaceMove DEF ChangingStages, InterfaceStages
<1>2. CASE done' = {}
  <2>1. seen'.ifs = {Listing(i)' : i \in DOMAIN net'.ifs}
    BY <1>2 DEF ListInv
  <2>2. ASSUME NEW i \in DOMAIN net'.ifs, Listing(i)'.kind = "bond"
        PROVE  Origin(Listing(i))' /\ Alone(Listing(i))'
    <3>1. /\ Listing(i)'.id = i /\ net'.ifs[i].kind = "bond"
          /\ Listing(i)'.name = net'.ifs[i].name
          /\ Listing(i)'.uses = Names(net.ifs[i].uses)'
      BY <2>2 DEF Listing
    <3>2. PICK P \in Profiles : \E b \in Bonds(P.asked) : net'.ifs[i].uses = Members(P.asked, b)
      BY <2>2, <3>1 DEF BondInv
    <3>3. PICK b \in Bonds(P.asked) : net'.ifs[i].uses = Members(P.asked, b)
      BY <3>2
    <3>4. \A p \in Members(P.asked, b) : net'.ifs[p].name = asked'.eth[p].name
      BY DEF PortInv, PortFits, Members
    <3>5. Listing(i)'.uses = {asked'.eth[p].name : p \in Members(P.asked, b)}
      BY <3>1, <3>3, <3>4 DEF Names
    <3>6. Origin(Listing(i))'
      BY <3>5
    <3>7. Alone(Listing(i))'
      BY <3>1
    <3> QED
      BY <3>6, <3>7
  <2> QED
    BY <2>1, <2>2
<1>3. CASE stage = "bond" /\ UNCHANGED seen /\ net'.ifs = net.ifs
  BY <1>1, <1>3 DEF RenameInv, Names, Upper
<1>4. ASSUME stage = "bond", UNCHANGED seen, NEW w, NEW id, Gives(w, id),
             NEW s \in seen.ifs, s.kind = "bond"
      PROVE  Origin(s)' /\ (Alone(s)' \/ Given(s)')
  <2>1. /\ DOMAIN net'.ifs = DOMAIN net.ifs \cup {id}
        /\ \A i \in DOMAIN net'.ifs : i # id => net'.ifs[i] = net.ifs[i]
        /\ net'.ifs[id].name = w.name
    BY <1>4 DEF Gives, Put, Entry
  <2>2. /\ GivesUpper(w, id) /\ w \in Upper("bond") /\ id \notin Ports
    BY <1>4 DEF Gives, GivesPort, GivesUpper
  <2>3. s.id \in DOMAIN net.ifs /\ net.ifs[s.id].kind = "bond"
    BY <1>4 DEF UpdateInv, InterfaceStages
  <2>4. Origin(s) /\ (Alone(s) \/ Given(s))
    BY <1>4 DEF RenameInv
  <2>5. Origin(s)'
    BY <1>1, <2>4
  <2>6. CASE s.id = id
    <3>1. PICK t \in Found(w) : t.id = id
      BY <2>2, <2>3, <2>6 DEF GivesUpper
    <3>2. t \in seen.ifs /\ t.uses \cap w.uses # {}
      BY <1>4, <2>2, <3>1, FoundUpper
    <3>3. t = s
      BY <1>4, <2>6, <3>1, <3>2 DEF UpdateInv, InterfaceStages
    <3>4. Given(s)'
      BY <1>1, <2>1, <2>2, <2>6, <3>2, <3>3 DEF Upper
    <3> QED
      BY <2>5, <3>4
  <2>7. CASE s.id # id
    <3>1. net'.ifs[s.id] = net.ifs[s.id]
      BY <2>1, <2>3, <2>7
    <3>2. net.ifs[s.id].uses \subseteq Ports
      BY <2>3 DEF BondInv, Members
    <3>3. Names(net.ifs[s.id].uses)' = Names(net.ifs[s.id].uses)
      BY <2>1, <2>2, <3>1, <3>2 DEF Names, SystemInv
    <3>4. Alone(s) => Alone(s)'
      BY <3>1, <3>3
    <3>5. Given(s) => Given(s)'
      BY <1>1, <3>1 DEF Upper
    <3> QED
      BY <2>4, <2>5, <3>4, <3>5
  <2> QED
    BY <2>6, <2>7
<1>5. CASE stage = "bond" /\ UNCHANGED seen /\ ReconcileNetworking
  <2>1. \/ done' = {} \/ net'.ifs = net.ifs
        \/ \E w, id : Gives(w, id)
    BY <1>5, InterfaceRequest DEF InterfaceStages
  <2> HIDE DEF Origin, Alone, Given
  <2> QED
    BY <1>2, <1>3, <1>4, <1>5, <2>1
<1> QED
  BY <1>1, <1>2, <1>3, <1>5 DEF InterfaceMoves

-----------------------------------------------------------------------------
(* What fits is found in the profile.                                      *)

\* A list that has an interface which fits, and those that it uses, tells that it is
\* configured, by its name.
LEMMA FindsConfigured ==
  ASSUME SystemInv, ProfileInv, \A j \in DOMAIN net.ifs : Listing(j) \in seen.ifs,
         NEW i \in DOMAIN net.ifs, InterfaceFits(i)
  PROVE  \E c \in findConfiguredInterface(Listing(i)) : c.name = net.ifs[i].name
<1>1. PICK P \in Profiles : asked = P.asked
  BY DEF ProfileInv
<1>2. \A w \in asked.upper :
       /\ w.kind \in {"bond", "vlan", "vf"}
       /\ w.kind = "bond" => w.uses # {}
       /\ w.kind # "bond" => \E n \in w.uses : w.uses = {n}
       /\ \A u \in asked.upper : u.name \in w.uses => u.kind = "bond" /\ w.kind # "bond"
  BY <1>1, ProfilesAssumption DEF WellFormed
<1>3. ASSUME NEW j
      PROVE  /\ Listing(j).id = j /\ Listing(j).kind = net.ifs[j].kind
             /\ Listing(j).name = net.ifs[j].name /\ Listing(j).vid = net.ifs[j].vid
             /\ Listing(j).uses = Names(net.ifs[j].uses)
  BY DEF Listing
<1>4. \A w : Common(w).name = w.name
  BY DEF Common
<1>5. ASSUME NEW j, PortFits(j)
      PROVE  /\ net.ifs[j].kind = "ethernet" /\ j \in Ports
             /\ \E c \in findConfiguredEthernetInterface(Listing(j)) : c.name = net.ifs[j].name
  <2>1. j \in Ports /\ net.ifs[j].name = asked.eth[j].name
    BY <1>5 DEF PortFits
  <2>2. Common(asked.eth[j]) \in findConfiguredEthernetInterface(Listing(j))
    BY <1>3, <2>1 DEF findConfiguredEthernetInterface
  <2> QED
    BY <1>4, <2>1, <2>2 DEF SystemInv
<1>6. ASSUME NEW j \in DOMAIN net.ifs, UpperFits(j, PortFits), net.ifs[j].kind = "bond"
      PROVE  \E c \in findConfiguredBondInterface(Listing(j)) : c.name = net.ifs[j].name
  <2>1. PICK w \in asked.upper : /\ w.kind = "bond" /\ w.name = net.ifs[j].name
                                 /\ w.uses = Names(net.ifs[j].uses)
                                 /\ \A u \in net.ifs[j].uses : PortFits(u)
    BY <1>6 DEF UpperFits, Names
  <2>2. PICK u \in net.ifs[j].uses : u \in DOMAIN net.ifs
    BY <1>2, <2>1 DEF Names, SystemInv
  <2>3. PICK c \in findConfiguredEthernetInterface(Listing(u)) : c.name = net.ifs[u].name
    BY <1>5, <2>1, <2>2
  <2>4. /\ Listing(u) \in seen.ifs /\ Listing(u).name \in Listing(j).uses
        /\ c.name \in w.uses
    BY <1>3, <2>1, <2>2, <2>3 DEF Names
  <2>5. Common(w) \in findConfiguredBondInterface(Listing(j))
    BY <2>1, <2>3, <2>4 DEF findConfiguredBondInterface
  <2> QED
    BY <1>4, <2>1, <2>5
<1>7. ASSUME NEW w \in asked.upper, w.kind # "bond", w.kind = net.ifs[i].kind,
             w.name = net.ifs[i].name, w.vid = net.ifs[i].vid, w.uses = Names(net.ifs[i].uses),
             NEW u \in net.ifs[i].uses,
             NEW c \in findConfiguredLower(Listing(u)), c.name = net.ifs[u].name
      PROVE  \E d \in findConfiguredInterface(Listing(i)) : d.name = net.ifs[i].name
  <2>1. u \in DOMAIN net.ifs /\ Listing(u) \in seen.ifs /\ Listing(u).name \in Listing(i).uses
    BY <1>3 DEF SystemInv, Names
  <2>2. w.uses = {c.name}
    BY <1>2, <1>7 DEF Names
  <2>3. Common(w) \in findConfiguredVLANInterface(Listing(i))
    BY <1>3, <1>7, <2>1, <2>2 DEF findConfiguredVLANInterface
  <2>4. findConfiguredInterface(Listing(i)) = findConfiguredVLANInterface(Listing(i))
    BY <1>2, <1>3, <1>7 DEF findConfiguredInterface
  <2> QED
    BY <1>4, <1>7, <2>3, <2>4
<1>8. CASE PortFits(i)
  BY <1>3, <1>5, <1>8 DEF findConfiguredInterface
<1>9. CASE UpperFits(i, LowerFits) \/ UpperFits(i, PortFits)
  <2>1. PICK w \in asked.upper : /\ w.kind = net.ifs[i].kind /\ w.name = net.ifs[i].name
                                 /\ w.vid = net.ifs[i].vid
                                 /\ w.uses = Names(net.ifs[i].uses)
                                 /\ \A u \in net.ifs[i].uses : PortFits(u) \/ UpperFits(u, PortFits)
    BY <1>9 DEF UpperFits, LowerFits, Names
  <2>2. ASSUME NEW u \in net.ifs[i].uses, UpperFits(u, PortFits)
        PROVE  w.kind # "bond" /\ net.ifs[u].kind = "bond" /\ u \in DOMAIN net.ifs
    <3>1. PICK v \in asked.upper : v.kind = net.ifs[u].kind /\ v.name = net.ifs[u].name
      BY <2>2 DEF UpperFits
    <3>2. v.name \in w.uses
      BY <2>1, <3>1 DEF Names
    <3> QED
      BY <1>2, <2>1, <3>1, <3>2 DEF SystemInv
  <2>3. CASE w.kind = "bond"
    <3>1. UpperFits(i, PortFits)
      BY <2>1, <2>2, <2>3 DEF UpperFits, Names
    <3> QED
      BY <1>3, <1>6, <2>1, <2>3, <3>1 DEF findConfiguredInterface
  <2>4. CASE w.kind # "bond"
    <3>1. PICK u \in net.ifs[i].uses : TRUE
      BY <1>2, <2>1, <2>4 DEF Names
    <3>2. \E c \in findConfiguredLower(Listing(u)) : c.name = net.ifs[u].name
      <4>1. CASE PortFits(u)
        BY <1>3, <1>5, <4>1 DEF findConfiguredLower
      <4>2. CASE UpperFits(u, PortFits)
        BY <1>3, <1>6, <2>2, <3>1, <4>2 DEF findConfiguredLower
      <4> QED
        BY <2>1, <3>1, <4>1, <4>2
    <3> QED
      BY <1>7, <2>1, <2>4, <3>1, <3>2
  <2> QED
    BY <2>3, <2>4
<1> QED
  BY <1>8, <1>9 DEF InterfaceFits, LowerFits

-----------------------------------------------------------------------------
(* What fits stays.                                                        *)

Inv ==
  /\ StageInv /\ ProfileInv /\ NetShape /\ DiskShape /\ SystemInv /\ BondInv
  /\ ListInv /\ DeleteInv /\ UpdateInv /\ PortInv /\ RenameInv

\* A pass starts on a host as it was installed.
LEMMA InitInv == Init => Inv
<1> SUFFICES ASSUME Init PROVE Inv
  OBVIOUS
<1>1. stage = "populate" /\ locked
  BY DEF Init
<1>2. StageInv
  BY <1>1 DEF StageInv, LockedStages
<1>3. ProfileInv
  <2>1. PICK h \in Histories : /\ asked = h.profiles[1].asked /\ layout = h.profiles[1].layout
                               /\ later = Tail(h.profiles)
    BY DEF Init
  <2>2. h.profiles \in Seq(Profiles) /\ h.profiles # <<>>
    BY ProfilesAssumption
  <2>3. h.profiles[1] \in Profiles /\ Tail(h.profiles) \in Seq(Profiles)
    BY <2>2
  <2> QED
    BY <2>1, <2>3 DEF ProfileInv
<1>4. NetShape /\ SystemInv
  <2>1. /\ net = [ifs |-> [p \in Ports |-> [kind |-> "ethernet", name |-> p, vid |-> 0,
                                            attr |-> "none", uses |-> {}]],
                  nets |-> {}, addrs |-> {}, routes |-> {}]
        /\ seen = [ifs |-> {}, nets |-> {}, addrs |-> {}, routes |-> {}]
    BY DEF Init
  <2>2. /\ DOMAIN net.ifs = Ports
        /\ net.ifs = [i \in DOMAIN net.ifs |-> net.ifs[i]]
        /\ \A p \in Ports : net.ifs[p].kind = "ethernet" /\ net.ifs[p].name = p
                            /\ net.ifs[p].uses = {}
    BY <2>1
  <2> QED
    BY <2>1, <2>2 DEF NetShape, SystemInv
<1>5. DiskShape
  BY DEF Init, DiskShape
<1>6. BondInv
  BY DEF Init, BondInv
<1>7. ListInv /\ DeleteInv /\ UpdateInv /\ PortInv /\ RenameInv
  BY <1>1 DEF ListInv, DeleteInv, UpdateInv, PortInv, RenameInv, EarlyStages, SettingStages,
     VolumeStages, InterfaceStages
<1> QED
  BY <1>2, <1>3, <1>4, <1>5, <1>6, <1>7 DEF Inv

\* Every step keeps the invariants.
LEMMA StepInv == Inv /\ [Next]_vars => Inv'
<1> SUFFICES ASSUME Inv, [Next]_vars PROVE Inv'
  OBVIOUS
<1>1. StageInv' /\ ProfileInv' /\ DiskShape'
  BY StepStage, StepProfile, StepDiskShape DEF Inv
<1>2. NetShape' /\ SystemInv' /\ BondInv'
  BY StepSystem DEF Inv
<1>3. ListInv'
  BY StepList DEF Inv
<1>4. DeleteInv' /\ UpdateInv' /\ PortInv'
  BY <1>2, <1>3, StepDelete, StepUpdate, StepPorts DEF Inv
<1>5. RenameInv'
  BY <1>2, <1>3, <1>4, StepRename DEF Inv
<1> QED
  BY <1>1, <1>2, <1>3, <1>4, <1>5 DEF Inv

\* What FitsStays says of the network, for one interface.
KeptOn(i) ==
  /\ i \in DOMAIN net'.ifs /\ net'.ifs[i].name = net.ifs[i].name
  /\ \A a \in {a \in net.addrs : a.on = i} :
       [addr |-> a.addr, name |-> net.ifs[i].name] \in asked.addrs => a \in net'.addrs
  /\ \A r \in {r \in net.routes : r.on = i} :
       \A w \in {w \in asked.routes : w.dest = r.dest /\ w.name = net.ifs[i].name} :
         w.metric \in {0, r.metric} => r \in net'.routes

\* An interface that fits and is in the lists keeps what lies on it.
LEMMA FitsStaysOn ==
  ASSUME SystemInv, ProfileInv, AllListed, NEW i \in DOMAIN net.ifs, InterfaceFits(i)
  PROVE  StaysOn(net.ifs[i].name, net.ifs[i].name)
<1>1. \A j \in DOMAIN net.ifs : Listing(j) \in seen.ifs
  BY DEF AllListed
<1>2. Listing(i).name = net.ifs[i].name
  BY DEF Listing
<1> QED
  BY <1>1, <1>2, FindsConfigured DEF StaysOn

\* An interface that fits is not given another name: the bond it is taken for has a
\* member in common with it.
LEMMA FitsNamed ==
  ASSUME BondsStayWhole, Inv, NEW w, NEW i \in DOMAIN net.ifs, Gives(w, i), InterfaceFits(i)
  PROVE  w.name = net.ifs[i].name
<1>1. \A v \in asked.upper : v.kind \in {"bond", "vlan", "vf"} /\ (v.kind = "bond" => v.uses # {})
  BY ProfilesAssumption DEF Inv, ProfileInv, WellFormed
<1>2. \/ PortFits(i)
      \/ \E v \in asked.upper : /\ v.kind = net.ifs[i].kind /\ v.name = net.ifs[i].name
                                /\ v.uses = Names(net.ifs[i].uses)
  BY DEF InterfaceFits, LowerFits, UpperFits, Names
<1>3. CASE GivesPort(w, i)
  <2>1. i \in Ports /\ w.name = asked.eth[i].name /\ net.ifs[i].kind = "ethernet"
    BY <1>3 DEF GivesPort, Ether, Inv, SystemInv
  <2> QED
    BY <1>1, <1>2, <2>1 DEF PortFits
<1>4. CASE GivesUpper(w, i)
  <2>1. w \in Upper(stage) /\ stage \in {"vf", "bond", "vlan"} /\ i \notin Ports
    BY <1>4 DEF GivesUpper
  <2>2. PICK s \in Found(w) : s.id = i
    BY <1>4 DEF GivesUpper
  <2>3. /\ s \in seen.ifs /\ s.kind = w.kind /\ (stage # "bond" => s.name = w.name)
        /\ stage = "bond" => s.uses \cap w.uses # {}
    BY <2>1, <2>2, FoundUpper
  <2>4. CASE stage \in {"vf", "vlan"}
    BY <2>2, <2>3, <2>4 DEF Inv, UpdateInv
  <2>5. CASE stage = "bond"
    <3>1. w.kind = "bond" /\ w \in Bonds(asked)
      BY <2>1, <2>5 DEF Upper, Bonds
    <3>2. PICK P \in Profiles : \E b \in Bonds(P.asked) :
            s.uses = {asked.eth[p].name : p \in Members(P.asked, b)}
      BY <2>3, <2>5, <3>1 DEF Inv, RenameInv
    <3>3. PICK b \in Bonds(P.asked) : s.uses = {asked.eth[p].name : p \in Members(P.asked, b)}
      BY <3>2
    <3>4. PICK Q \in Profiles : asked = Q.asked
      BY DEF Inv, ProfileInv
    <3>5. ASSUME NEW c \in Bonds(asked), c.uses \cap s.uses # {}
          PROVE  Members(P.asked, b) \cap Members(Q.asked, c) # {}
      BY <3>3, <3>4, <3>5 DEF Members
    <3>6. ASSUME NEW c \in Bonds(asked), c.uses \cap s.uses # {}
          PROVE  c = w
      BY <2>3, <2>5, <3>1, <3>4, <3>5, <3>6 DEF BondsStayWhole
    <3>7. CASE net.ifs[i].name = s.name /\ Names(net.ifs[i].uses) = s.uses
      <4>1. net.ifs[i].kind = "bond"
        BY <2>2, <2>3, <2>5, <3>1 DEF Inv, UpdateInv, InterfaceStages
      <4>2. PICK v \in asked.upper : /\ v.kind = "bond" /\ v.name = net.ifs[i].name
                                     /\ v.uses = s.uses
        BY <1>2, <2>1, <3>7, <4>1 DEF PortFits
      <4>3. v \in Bonds(asked) /\ v.uses \cap s.uses # {}
        BY <1>1, <4>2 DEF Bonds
      <4> QED
        BY <3>6, <4>2, <4>3
    <3>8. CASE \E v \in Upper("bond") : v.uses \cap s.uses # {} /\ net.ifs[i].name = v.name
      BY <3>6, <3>8 DEF Upper, Bonds
    <3> QED
      BY <2>2, <2>3, <2>5, <3>1, <3>7, <3>8 DEF Inv, RenameInv
  <2> QED
    BY <2>1, <2>4, <2>5
<1> QED
  BY <1>3, <1>4 DEF Gives

\* No step of the networking reconcilers disturbs an interface that fits.
LEMMA NetworkKept ==
  ASSUME BondsStayWhole, Inv, ReconcileNetworking, NEW i \in DOMAIN net.ifs, InterfaceFits(i)
  PROVE  KeptOn(i)
<1> USE DEF Inv
<1>1. CASE UNCHANGED net
  BY <1>1 DEF KeptOn
<1>2. CASE ReconcileStaleRoutes
  <2>1. ASSUME NEW r \in seen.routes, StaleRoute(r),
               net' = [net EXCEPT !.routes = {x \in @ : x.dest # r.dest}]
        PROVE  KeptOn(i)
    <3>1. net'.ifs = net.ifs /\ net'.addrs = net.addrs
          /\ net'.routes = {x \in net.routes : x.dest # r.dest}
      BY <2>1 DEF NetShape
    <3>2. AllListed /\ RoutesListed(seen.routes)
      BY <1>2, StaleRoutesSteps, ListParts DEF ChangingStages, InterfaceStages, EarlyStages
    <3>3. ASSUME NEW x \in net.routes, x.on = i, NEW w \in asked.routes, w.dest = x.dest,
                 w.name = net.ifs[i].name, w.metric \in {0, x.metric}, x.dest = r.dest
          PROVE  FALSE
      <4>1. r = [dest |-> x.dest, metric |-> x.metric, name |-> net.ifs[i].name]
        BY <3>2, <3>3 DEF RoutesListed
      <4>2. r.dest = x.dest /\ r.metric = x.metric /\ r.name = net.ifs[i].name
        BY <4>1
      <4>3. StaysOn(r.name, w.name)
        BY <3>2, <3>3, <4>2, FitsStaysOn
      <4> QED
        BY <2>1, <3>3, <4>2, <4>3 DEF StaleRoute
    <3> QED
      BY <3>1, <3>3 DEF KeptOn
  <2> QED
    BY <1>1, <1>2, <2>1, StaleRoutesSteps
<1>3. CASE ReconcileStaleAddresses
  <2>1. ASSUME NEW b \in seen.addrs, StaleAddress(b),
               net' = [net EXCEPT !.addrs = {x \in @ : x.addr # b.addr}]
        PROVE  KeptOn(i)
    <3>1. net'.ifs = net.ifs /\ net'.routes = net.routes
          /\ net'.addrs = {x \in net.addrs : x.addr # b.addr}
      BY <2>1 DEF NetShape
    <3>2. stage = "staleAddresses" /\ locked
      BY <1>3, StaleAddressesSteps, NetworkingStages
    <3>3. AllListed /\ AddressesListed(seen.addrs)
      BY <3>2, ListParts DEF ChangingStages, InterfaceStages, EarlyStages
    <3>4. ASSUME NEW x \in net.addrs, x.on = i,
                 [addr |-> x.addr, name |-> net.ifs[i].name] \in asked.addrs, x.addr = b.addr
          PROVE  FALSE
      <4>1. b = [addr |-> x.addr, name |-> net.ifs[i].name]
        BY <3>3, <3>4 DEF AddressesListed
      <4>2. StaysOn(b.name, b.name)
        BY <3>3, <4>1, FitsStaysOn
      <4> QED
        BY <2>1, <3>4, <4>1, <4>2 DEF StaleAddress
    <3> QED
      BY <3>1, <3>4 DEF KeptOn
  <2> QED
    BY <1>1, <1>3, <2>1, StaleAddressesSteps
<1>4. CASE ReconcileStaleInterfaces
  <2>1. ASSUME NEW s \in seen.ifs, findConfiguredInterface(s) = {}, stage = "staleInterfaces",
               net' = [net EXCEPT !.ifs = [x \in DOMAIN @ \ {s.id} |-> @[x]],
                                  !.nets = {x \in @ : x.on # s.id}]
        PROVE  KeptOn(i)
    <3>1. net'.ifs = [x \in DOMAIN net.ifs \ {s.id} |-> net.ifs[x]] /\ net'.addrs = net.addrs
          /\ net'.routes = net.routes
      BY <2>1 DEF NetShape
    <3>2. i # s.id
      <4>1. SUFFICES ASSUME i = s.id PROVE FALSE
        OBVIOUS
      <4>2. s = Listing(i) /\ \A j \in DOMAIN net.ifs : Listing(j) \in seen.ifs
        BY <2>1, <4>1 DEF DeleteInv
      <4> QED
        BY <2>1, <4>2, FindsConfigured
    <3> QED
      BY <3>1, <3>2 DEF KeptOn
  <2> QED
    BY <1>1, <1>4, <2>1, StaleInterfacesSteps
<1>5. CASE ReconcileStaleInterfaceNetworks \/ ReconcileAddresses \/ ReconcileRoutes
  <2>1. net'.ifs = net.ifs /\ net.addrs \subseteq net'.addrs /\ net.routes \subseteq net'.routes
    BY <1>5, StaleNetworksSteps, AddressesSteps, RoutesSteps DEF NetShape
  <2> QED
    BY <2>1 DEF KeptOn
<1>6. ASSUME NEW ws, ReconcileInterfaces(stage, ws)
      PROVE  KeptOn(i)
  <2>1. ASSUME NEW x \in InterfaceItems(ws) \ done, InterfaceAccepted(x), InterfaceApply(x)
        PROVE  KeptOn(i)
    <3>1. net'.addrs = net.addrs /\ net'.routes = net.routes
      BY <2>1, ApplyCases
    <3>2. CASE net'.ifs = net.ifs
      BY <3>1, <3>2 DEF KeptOn
    <3>3. CASE Gives(x.w, x.id)
      <4>1. net'.ifs = Put(x.w, x.id)
        BY <3>3 DEF Gives
      <4>2. /\ i \in DOMAIN net'.ifs
            /\ i # x.id => net'.ifs[i] = net.ifs[i]
            /\ i = x.id => net'.ifs[i].name = x.w.name
        BY <4>1 DEF Put, Entry
      <4>3. i = x.id => x.w.name = net.ifs[i].name
        BY <3>3, FitsNamed
      <4> QED
        BY <3>1, <4>2, <4>3 DEF KeptOn
    <3> QED
      BY <1>6, <2>1, <3>2, <3>3, RequestGives DEF ReconcileInterfaces
  <2> QED
    BY <1>1, <1>6, <2>1, InterfacesSteps DEF ReconcileInterfaces, Leaves
<1> QED
  BY <1>2, <1>3, <1>4, <1>5, <1>6, NetworkingCases

\* Whatever the profiles, the faults and the lists are, an interface that is as the
\* profile describes it keeps its name and what the profile has on it, and volumes
\* and OSDs of the profile stay (FitsStays), for profiles that do not split a bond.
\* Reconcile takes the members of a bond for its identity; when two bonds of a
\* profile share the members of one the host has, each is given that one in turn.
THEOREM FittingKept == Spec /\ BondsStayWhole => FitsStays
<1> SUFFICES ASSUME BondsStayWhole PROVE Spec => FitsStays
  OBVIOUS
<1>1. Spec => []Inv
  BY InitInv, StepInv, PTL DEF Spec
<1> DEFINE Kept ==
      /\ \A i \in {i \in DOMAIN net.ifs : InterfaceFits(i)} :
           /\ i \in DOMAIN net'.ifs /\ net'.ifs[i].name = net.ifs[i].name
           /\ \A a \in {a \in net.addrs : a.on = i} :
                [addr |-> a.addr, name |-> net.ifs[i].name] \in asked.addrs => a \in net'.addrs
           /\ \A r \in {r \in net.routes : r.on = i} :
                \A w \in {w \in asked.routes : w.dest = r.dest /\ w.name = net.ifs[i].name} :
                  w.metric \in {0, r.metric} => r \in net'.routes
      /\ \A v \in disks.pvs : v.vg \in DOMAIN layout.vgs => v \in disks'.pvs
      /\ \A o \in disks.osds : (\E w \in OSDs : OSDFits(o, w)) => o \in disks'.osds
<1>2. Inv /\ [Next]_vars => [Kept]_<<net, disks>>
  <2> SUFFICES ASSUME Inv, [Next]_vars, ~UNCHANGED <<net, disks>> PROVE Kept
    OBVIOUS
  <2>1. \A i \in {i \in DOMAIN net.ifs : InterfaceFits(i)} : KeptOn(i)
    <3>1. CASE UNCHANGED net
      BY <3>1 DEF KeptOn
    <3>2. CASE ReconcileNetworking
      BY <3>2, NetworkKept
    <3> QED
      BY <3>1, <3>2, StepCases, PopulateSteps, UserSteps DEF Inv
  <2>2. DisksKept
    <3>1. CASE UNCHANGED disks
      BY <3>1 DEF DisksKept
    <3>2. CASE DiskStep
      BY <3>2, StorageKept DEF Inv
    <3> QED
      BY <3>1, <3>2, StepCases, PopulateSteps, UserSteps DEF Inv
  <2> QED
    BY <2>1, <2>2 DEF KeptOn, DisksKept
<1> QED
  BY <1>1, <1>2, PTL DEF Spec, FitsStays
====
