----------------------------- MODULE MCHostConfig -----------------------------
EXTENDS HostConfig

MCPorts == {"p1", "p2", "p3"}
MCSpare == {"i1", "i2", "i3"}

Eth(name, attr, nets, sriov) == [name |-> name, attr |-> attr, nets |-> nets, sriov |-> sriov]
Up(kind, name, uses, vid, nets) ==
  [kind |-> kind, name |-> name, uses |-> uses, vid |-> vid, attr |-> "data", nets |-> nets]
Addr(a, name) == [addr |-> a, name |-> name]
Route(d, name, metric) == [dest |-> d, name |-> name, metric |-> metric]
Osd(path, function, journal) == [path |-> path, function |-> function, journal |-> journal]
Group(cap, pvs) == [cap |-> cap, pvs |-> pvs]
Pv(path, size) == [path |-> path, size |-> size]

BareNet == [eth |-> [p \in MCPorts |-> Eth(p, "none", {}, FALSE)], upper |-> {}, addrs |-> {},
            routes |-> {}]
NoFs ==
  [f \in {"instances", "image-conversion", "ceph", "backup"} |-> IF f = "backup" THEN 1 ELSE 0]
BareDisk == [monitor |-> 0, fs |-> NoFs,
             vgs |-> [g \in {"cgts-vg"} |-> Group("none", {})],
             osds |-> {{}}, bootstrap |-> TRUE, osdState |-> "any"]
BareSet == [k \in Kinds |-> {}]

Profile(a, l, w, inService) ==
  [asked |-> a, layout |-> l, wanted |-> w, inService |-> inService]

\* A VLAN over a port with an address and a route moves, with them, to a new bond;
\* then the route's metric changes in service.
NetA1 == [BareNet EXCEPT !.eth["p1"] = Eth("mgmt0", "platform", {{"mgmt"}}, FALSE),
            !.upper = {Up("vlan", "vlan10", {"mgmt0"}, 10, {{"cluster"}})},
            !.addrs = {Addr("a1", "vlan10")}, !.routes = {Route("d1", "vlan10", 0)}]
NetA2 == [BareNet EXCEPT !.eth["p1"] = Eth("p1", "none", {{}}, FALSE),
            !.upper = {Up("bond", "bond0", {"p2", "p3"}, 0, {{"mgmt"}}),
                       Up("vlan", "vlan10", {"bond0"}, 10, {{"cluster"}})},
            !.addrs = {Addr("a1", "vlan10"), Addr("a2", "bond0")},
            !.routes = {Route("d1", "vlan10", 2)}]
NetA3 == [NetA2 EXCEPT !.routes = {Route("d1", "vlan10", 3), Route("d2", "bond0", 0)}]

\* A bond changes its name and a member under a VLAN, which has to go and come back.
NetB1 == [BareNet EXCEPT !.upper = {Up("bond", "bond0", {"p1", "p2"}, 0, {{"mgmt"}}),
                                    Up("vlan", "vlan20", {"bond0"}, 20, {})},
            !.addrs = {Addr("a1", "vlan20")}]
NetB2 == [BareNet EXCEPT !.eth["p1"] = Eth("oam0", "platform", {{"oam"}}, FALSE),
            !.upper = {Up("bond", "bond1", {"p2", "p3"}, 0, {{"mgmt"}}),
                       Up("vlan", "vlan20", {"bond1"}, 20, {{"storage"}})},
            !.addrs = {Addr("a1", "oam0")}]

\* VFs over an SR-IOV interface that is renamed; then the bond takes its port.
NetC1 == [BareNet EXCEPT !.eth["p1"] = Eth("sriov0", "sriov", {{"data0"}}, TRUE),
            !.upper = {Up("vf", "vf0", {"sriov0"}, 0, {{"data1"}})}]
NetC2 == [BareNet EXCEPT !.eth["p1"] = Eth("sriov1", "sriov", {{"data1"}}, TRUE),
            !.upper = {Up("vf", "vf0", {"sriov1"}, 0, {{"data0"}})}]
NetC3 == [BareNet EXCEPT !.eth["p1"] = Eth("p1", "none", {{}}, FALSE),
                         !.upper = {Up("bond", "bond0", {"p1", "p2"}, 0, {{"data0"}})}]

\* Two groups with partitions, two of them alike, a journal with its OSD, an optional file system; more
\* of everything in service; then the journal and a group go.
DiskA1 == [BareDisk EXCEPT !.monitor = 20, !.fs["instances"] = 2,
             !.vgs = [g \in {"cgts-vg", "nova-local"} |->
                        IF g = "cgts-vg" THEN Group("lvm", {Pv("d1", 10)})
                        ELSE Group("thin", {Pv("d1", 10), Pv("d2", 10)})],
             !.osds = {{Osd("d3", "journal", "none"), Osd("d4", "osd", "d3")}}]
DiskA2 == [DiskA1 EXCEPT !.fs["backup"] = 2,
                         !.vgs["cgts-vg"] = Group("lvm", {Pv("d1", 10), Pv("d2", 20)}),
             !.osds = {UNION @ \cup {Osd("d5", "osd", "d3")}}]
DiskA3 == [DiskA2 EXCEPT !.fs = [NoFs EXCEPT !["ceph"] = 1],
             !.vgs = [g \in {"cgts-vg", "cinder"} |->
                        IF g = "cgts-vg" THEN DiskA2.vgs["cgts-vg"]
                        ELSE Group("none", {Pv("d3", 10)})],
             !.osds = {{Osd("d4", "osd", "none"), Osd("d5", "osd", "none")}}]
\* OSDs that are only allowed in service, and only on a locked host; one gets a
\* journal; a list is left out, then empty.
DiskB1 == [BareDisk EXCEPT !.osdState = "enabled", !.osds = {{Osd("d4", "osd", "none")}}]
DiskB2 == [DiskB1 EXCEPT !.osds = {{Osd("d3", "journal", "none"), Osd("d4", "osd", "d3")}}]
DiskC1 == [BareDisk EXCEPT !.osdState = "disabled", !.osds = {{Osd("d4", "osd", "none")}}]
DiskC2 == [DiskC1 EXCEPT !.osds = {}]
DiskC3 == [DiskC1 EXCEPT !.osds = {{}}]

SetA1 == [BareSet EXCEPT !["attributes"] = {"location"}, !["memory"] = {"node0", "node1"},
            !["labels"] = {"l1"}, !["ptpInstances"] = {"ptp1"}, !["kernel"] = {"lowlatency"}]
SetA2 == [SetA1 EXCEPT !["labels"] = {"l2"}, !["ptpInstances"] = {"ptp2"},
            !["processors"] = {"platform2"}, !["power"] = {"on"}]

System(uppersFirst, collocates, takesPaths) ==
  [uppersFirst |-> uppersFirst, collocates |-> collocates, takesPaths |-> takesPaths]
On(systems, profiles) == {[system |-> s, profiles |-> profiles] : s \in systems}
Usual == {System(TRUE, TRUE, TRUE)}
AnyOrder == {System(u, TRUE, TRUE) : u \in BOOLEAN}
AnyJournal == {System(TRUE, c, t) : c, t \in BOOLEAN}

MCHistories == UNION
  { On(Usual,
       <<Profile(NetA1, BareDisk, BareSet, FALSE), Profile(NetA2, BareDisk, BareSet, FALSE),
         Profile(NetA3, BareDisk, BareSet, TRUE)>>),
    On(AnyOrder,
       <<Profile(NetB1, BareDisk, BareSet, FALSE), Profile(NetB2, BareDisk, BareSet, FALSE),
         Profile(BareNet, BareDisk, BareSet, FALSE)>>),
    On(Usual,
       <<Profile(NetC1, BareDisk, BareSet, FALSE), Profile(NetC2, BareDisk, BareSet, FALSE),
         Profile(NetC3, BareDisk, BareSet, FALSE)>>),
    On(AnyOrder,
       <<Profile(BareNet, DiskA1, BareSet, FALSE), Profile(BareNet, DiskA2, BareSet, TRUE),
         Profile(BareNet, DiskA3, BareSet, FALSE)>>),
    On(AnyJournal,
       <<Profile(BareNet, DiskB1, SetA1, FALSE), Profile(BareNet, DiskB2, SetA2, FALSE)>>),
    On(Usual,
       <<Profile(BareNet, DiskC1, SetA2, FALSE), Profile(BareNet, DiskC2, SetA1, FALSE),
         Profile(BareNet, DiskC3, SetA1, FALSE)>>) }
====
