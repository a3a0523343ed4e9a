----------------------------- MODULE HostStorage -----------------------------
(***************************************************************************)
(* The storage configuration of a host (internal/controller/host/          *)
(* storage.go): file systems, volume groups with the partitions and        *)
(* physical volumes in them, and Ceph OSDs, of which journals come first.  *)
(* Partitions are created in the background and waited for.                *)
(*                                                                         *)
(* Simplifications.  The capabilities of a volume group are one value.     *)
(* A physical volume is on a partition; whole disks need no partition.     *)
(* A group has at most one partition of a size on a disk.  The sizes of    *)
(* journals are left out.                                                  *)
(***************************************************************************)
EXTENDS SubReconciler

VARIABLES
  disks,    \* the system: file systems, groups, partitions, volumes, OSDs, monitor
  listed,   \* hostInfo: the same, as listed
  layout,   \* the profile, the deployment scope and the OSDProvisioningState
  group,    \* the volume groups that ReconcilePhysicalVolumes is through with
  ready     \* "cluster": the Ceph cluster, its monitors and its tier are there

storageVars == <<disks, listed, layout, group, ready>>

PopulateStorage == listed' = disks

\* ReconcileMonitor, for workers; a monitor is never deleted.
ReconcileMonitor ==
  /\ stage = "monitor"
  /\ LET Apply(x) == disks' = [disks EXCEPT !.monitor = layout.monitor] IN
     Work(IF layout.monitor \notin {0, disks.monitor} THEN {"monitor"} ELSE {},
          LAMBDA x : TRUE, Apply, disks, UNCHANGED listed, listed)
  /\ UNCHANGED <<layout, group, ready>>

-----------------------------------------------------------------------------
(* File systems: a function from names to sizes, 0 if there is none.       *)

FileSystemCreationAllowed == {"instances", "image-conversion", "ceph"}
FileSystemDeletionAllowed == {"instances", "image-conversion"}

\* Optional file systems are deleted, then created, each followed by a new list.
ReconcileFileSystemTypes ==
  /\ stage = "fileSystemTypes"
  /\ LET removed == {f \in FileSystemDeletionAllowed : listed.fs[f] # 0 /\ layout.fs[f] = 0}
         added == {f \in FileSystemCreationAllowed : listed.fs[f] = 0 /\ layout.fs[f] # 0}
         items == removed \cup (IF removed \subseteq done THEN added ELSE {})
         Apply(f) == disks' = [disks EXCEPT !.fs[f] = layout.fs[f]] IN
     Work(IF \A f \in DOMAIN layout.fs : layout.fs[f] = 0 THEN {} ELSE items,
          LAMBDA f : TRUE, Apply, disks, listed' = [listed EXCEPT !.fs = disks.fs], listed)
  /\ UNCHANGED <<layout, group, ready>>

\* In service: sizes only grow, in one request.
ReconcileFileSystemSizes ==
  /\ stage = "fileSystemSizes"
  /\ LET wanted == {f \in DOMAIN layout.fs : layout.fs[f] # 0}
         grow == {f \in wanted : layout.fs[f] > listed.fs[f]}
         Accepted(x) == \A f \in wanted : listed.fs[f] # 0
         Apply(x) == disks' = [disks EXCEPT
                       !.fs = [f \in DOMAIN @ |-> IF f \in grow THEN layout.fs[f] ELSE @[f]]] IN
     Work(IF grow = {} THEN {} ELSE {"sizes"}, Accepted, Apply, disks,
          UNCHANGED listed, listed)
  /\ UNCHANGED <<layout, group, ready>>

-----------------------------------------------------------------------------
(* Volume groups, partitions and physical volumes.                         *)

\* Mutant of Deferred: in service, too.
DeferredForEver(g) == g = "cgts-vg" /\ layout.bootstrap

\* "Defer cgts-vg configuration until the host is enabled."
Deferred(g) == g = "cgts-vg" /\ layout.bootstrap /\ locked

DeleteVolumeGroups == {g \in DOMAIN listed.vgs \ DOMAIN layout.vgs : g # "cgts-vg"}
UpdateVolumeGroup(g) == g \in DOMAIN listed.vgs => listed.vgs[g] # layout.vgs[g].cap

\* A group of the profile is created or updated, another one goes with its volumes.
VolumeGroupApply(g) ==
  LET groups == DOMAIN layout.vgs IN
  disks' = [disks EXCEPT
              !.vgs = IF g \in groups
                      THEN [x \in DOMAIN @ \cup {g} |->
                              IF x = g THEN layout.vgs[g].cap ELSE @[x]]
                      ELSE [x \in DOMAIN @ \ {g} |-> @[x]],
              !.pvs = {v \in @ : g \in groups \/ v.vg # g},
              !.parts = {IF g \in groups \/ p.vg # g THEN p ELSE [p EXCEPT !.vg = "none"] :
                           p \in @}]

\* Groups in the list that the profile does not have are deleted; then each one in
\* the profile is updated or created.  The list is read once, at the end.
ReconcileVolumeGroups ==
  /\ stage = "volumeGroups"
  /\ LET changed == {g \in DOMAIN layout.vgs : ~Deferred(g) /\ UpdateVolumeGroup(g)}
         items == DeleteVolumeGroups \cup
                    (IF DeleteVolumeGroups \subseteq done THEN changed ELSE {}) IN
     Work(items, LAMBDA g : TRUE, VolumeGroupApply, disks,
          listed' = [listed EXCEPT !.vgs = disks.vgs], listed)
  /\ group' = {}
  /\ UNCHANGED <<layout, ready>>

\* ReconcilePhysicalVolumes is called for one group after the other.
Groups == DOMAIN layout.vgs \ group
Current == CHOOSE g \in Groups : TRUE
Volumes == layout.vgs[Current].pvs

PhysicalVolume(v, g) == [vg |-> g, path |-> v.path, size |-> v.size]

\* FindPartitionByPath: the partition of the volume in this group, or the first that
\* no volume uses.
FindPartitionByPath(v, g) ==
  LET same == {p \in listed.parts : p.path = v.path /\ p.size = v.size}
      own == {p \in same : p.vg = g /\ PhysicalVolume(v, g) \in listed.pvs}
      found == IF own # {} THEN own ELSE {p \in same : p.vg = "none"} IN
  {p \in found : \A q \in found : p.no <= q.no}

InTransition(p) == p.status # "ready"

\* What is missing is created; then every partition of the host must be ready.
ReconcilePartitions ==
  /\ stage = "partitions" /\ Groups # {}
  /\ LET items == {v \in Volumes : FindPartitionByPath(v, Current) = {}}
         Accepted(v) == Current \in DOMAIN listed.vgs
         Apply(v) == disks' = [disks EXCEPT !.parts = @ \cup
                       {[path |-> v.path, size |-> v.size, vg |-> "none",
                         no |-> Cardinality({p \in @ : p.path = v.path}),
                         status |-> "creating"]}]
         parts == IF done = {} THEN listed.parts ELSE disks.parts
         waits == items \subseteq done /\ \E p \in parts : InTransition(p) IN
       \/ waits /\ Waits /\ UNCHANGED <<disks, listed>>
       \/ /\ ~waits
          /\ Work(items, Accepted, Apply, disks,
                  listed' = [listed EXCEPT !.parts = disks.parts], listed)
  /\ UNCHANGED <<layout, group, ready>>

\* The monitor of the partitions wakes Reconcile; Waits stands for that.
PartitionReady ==
  /\ \E p \in disks.parts :
       /\ InTransition(p)
       /\ disks' = [disks EXCEPT !.parts = (@ \ {p}) \cup {[p EXCEPT !.status = "ready"]}]
  /\ UNCHANGED <<passVars, listed, layout, group, ready>>

\* The partition is the one in the list; the system wants it ready and the group there.
ReconcilePhysicalVolumes ==
  /\ stage = "physicalVolumes"
  /\ LET items == {v \in Volumes : PhysicalVolume(v, Current) \notin listed.pvs}
         Device(v) == {p \in disks.parts : \E q \in FindPartitionByPath(v, Current) :
                                             q.path = p.path /\ q.no = p.no}
         Accepted(v) == /\ Current \in DOMAIN disks.vgs /\ Device(v) # {}
                        /\ \A p \in Device(v) : p.status = "ready" /\ p.vg = "none"
         Apply(v) == disks' = [disks EXCEPT
                       !.pvs = @ \cup {PhysicalVolume(v, Current)},
                       !.parts = {IF p \in Device(v) THEN [p EXCEPT !.vg = Current] ELSE p :
                                    p \in @}] IN
     Work(items, Accepted, Apply, disks, listed' = [listed EXCEPT !.pvs = disks.pvs], listed)
  /\ UNCHANGED <<layout, group, ready>>

\* On to the next group; the list of partitions is not read again.
NextVolumeGroup ==
  /\ stage = "nextGroup" \/ (stage = "partitions" /\ Groups = {})
  /\ LET rest == IF Groups = {} THEN {} ELSE Groups \ {Current} IN
       /\ group' = DOMAIN layout.vgs \ rest
       /\ stage' = IF rest = {} THEN After("nextGroup") ELSE "partitions"
  /\ UNCHANGED <<locked, done, refused, faults, disks, listed, layout, ready>>

-----------------------------------------------------------------------------
(* OSDs: [path, function, journal]; the journal's Location is nil ("none"), *)
(* the OSD itself ("self"), which a profile does not say, or a journal OSD, *)
(* here by its path.  layout.osds is {} if the profile has no list, and    *)
(* otherwise {the set of OSDs}.                                            *)

OSDs == UNION layout.osds

\* Those the profile does not have, or has with another function or without the
\* journal they have, are deleted, in the order in which the system lists them.
ReconcileStaleOSDs ==
  /\ stage = "staleOSDs"
  /\ LET Stays(o) == \E w \in OSDs : /\ w.path = o.path /\ w.function = o.function
                                     /\ w.journal # "none" \/ o.journal \in {"none", "self"}
         stale == {o \in listed.osds : ~Stays(o)}
         items == {o \in stale :
                     system.uppersFirst => \A u \in stale \ done : u.journal # o.path}
         Accepted(o) == \A u \in disks.osds : u.journal # o.path
         Apply(o) == disks' = [disks EXCEPT !.osds = @ \ {o}] IN
     Work(IF layout.osds = {} THEN {} ELSE items, Accepted, Apply, disks,
          listed' = [listed EXCEPT !.osds = disks.osds], listed)
  /\ UNCHANGED <<layout, group, ready>>

OSDProvisioningState == layout.osdState \in {"any", IF locked THEN "disabled" ELSE "enabled"}
OSDProvisioningAllowed == "cluster" \in ready

OSDsAt(w) == {o \in listed.osds : o.path = w.path}
\* Location is nil: an OSD with a journal on its own disk keeps that.
osdUpdateRequired(w) == w.journal # "none" /\ \E o \in OSDsAt(w) : o.journal = "none"

\* The journal that w names is one of these OSDs.
JournalOSD(os, w) ==
  w.journal = "none" \/ \E o \in os : o.path = w.journal /\ o.function = "journal"

\* The OSD that the system makes of w.
Created(w) ==
  IF w.journal = "none" /\ w.function = "osd" /\ system.collocates
  THEN [w EXCEPT !.journal = "self"] ELSE w

\* An OSD without a journal is updated with the path of its journal.  One that is not
\* there is created, once the cluster is, with the identifier of its journal, which
\* is looked up in the list.
ReconcileOSDsByType(name, function) ==
  /\ stage = name
  /\ LET ws == IF OSDProvisioningState THEN {w \in OSDs : w.function = function} ELSE {}
         items == {w \in ws : OSDsAt(w) = {} \/ osdUpdateRequired(w)}
         Accepted(w) == /\ JournalOSD(disks.osds, w)
                        /\ layout.osdState # (IF locked THEN "enabled" ELSE "disabled")
                        /\ IF OSDsAt(w) = {}
                           THEN /\ JournalOSD(listed.osds, w)
                                /\ \A o \in disks.osds : o.path # w.path
                           ELSE system.takesPaths
         Updated(w, o) == IF o.path = w.path /\ o.journal = "none"
                          THEN [o EXCEPT !.journal = w.journal] ELSE o
         Apply(w) == disks' = [disks EXCEPT !.osds =
                       IF OSDsAt(w) = {} THEN @ \cup {Created(w)}
                       ELSE {Updated(w, o) : o \in @}]
         waits == ~OSDProvisioningAllowed /\ \E w \in items \ done : OSDsAt(w) = {} IN
       \/ waits /\ Waits /\ UNCHANGED <<disks, listed>>
       \/ /\ ~waits
          /\ Work(items, Accepted, Apply, disks,
                  listed' = [listed EXCEPT !.osds = disks.osds], listed)
  /\ UNCHANGED <<layout, group, ready>>

ReconcileOSDs ==
  ReconcileOSDsByType("journals", "journal") \/ ReconcileOSDsByType("osds", "osd")

\* OSDProvisioningAllowed starts a monitor for what is missing.
ClusterReady ==
  /\ "cluster" \notin ready /\ ready' = ready \cup {"cluster"}
  /\ UNCHANGED <<passVars, disks, listed, layout, group>>

ReconcileStorage ==
  \/ ReconcileMonitor \/ ReconcileFileSystemTypes \/ ReconcileFileSystemSizes
  \/ ReconcileVolumeGroups \/ ReconcilePartitions \/ ReconcilePhysicalVolumes
  \/ NextVolumeGroup \/ ReconcileStaleOSDs \/ ReconcileOSDs
====
