-------------------------- MODULE MCPlatformNetworks --------------------------
(***************************************************************************)
(* Platform networks and address pools on small systems: the cases of      *)
(* MCCases, each with what the user changes, loses or deletes and the      *)
(* number of requests that may fail.                                       *)
(***************************************************************************)
EXTENDS PlatformNetworks, TLC

\* Objects the controllers are done with, and ones they have yet to see.
DoneNet(type, pools, scope) ==
  [NewNetwork(type, pools, scope) EXCEPT !.scope = scope, !.observed = 1, !.fin = TRUE,
                                         !.reconciled = TRUE, !.inSync = TRUE]
DonePool(spec) ==
  [NewPool(spec) EXCEPT !.observed = 1, !.fin = TRUE, !.reconciled = TRUE, !.inSync = TRUE]
\* A pool that no network used yet.
IdlePool == [NewPool(1) EXCEPT !.observed = 1, !.fin = TRUE]
Act(kind, name, value) == [kind |-> kind, name |-> name, value |-> value]

Case(simplex, scope, family, nets, pools, val, dyn, links, acts, failures) ==
  [sx |-> simplex, scope |-> scope, fam |-> family, net |-> nets, pool |-> pools,
   sys |-> [dyn |-> dyn, val |-> val, full |-> [p \in DOMAIN val |-> TRUE], links |-> links],
   later |-> acts, faults |-> failures]

\* AIO-SX, day 2: OAM gets its second stack, and the cluster network after it.
DualStack ==
  Case(TRUE, "principal", "o4" :> 4 @@ "o6" :> 6 @@ "c4" :> 4 @@ "c6" :> 6,
       "oam" :> DoneNet("oam", <<"o4", "o6">>, "principal")
         @@ "clu" :> [DoneNet("cluster", <<"c4", "c6">>, "principal") EXCEPT !.gen = 2],
       "o4" :> DonePool(1) @@ "o6" :> IdlePool @@ "c4" :> DonePool(1) @@ "c6" :> IdlePool,
       "o4" :> 1 @@ "o6" :> 0 @@ "c4" :> 1 @@ "c6" :> 0, "oam" :> "static" @@ "clu" :> "static",
       {<<"oam", "o4">>, <<"clu", "c4">>},
       <<Act("pool", "o6", 2)>>, 0)

\* Day 2: the admin network is switched to another pool, which then changes.
Switch ==
  Case(FALSE, "principal", "a4" :> 4 @@ "b4" :> 4,
       "adm" :> DoneNet("admin", <<"a4">>, "principal"),
       "a4" :> DonePool(1) @@ "b4" :> NewPool(1),
       "a4" :> 1 @@ "b4" :> 0, "adm" :> "static", {<<"adm", "a4">>},
       <<Act("pools", "adm", <<"b4">>), Act("pool", "b4", 2)>>, 0)
SwitchFails == [Switch EXCEPT !.pool["b4"] = IdlePool, !.faults = 2,
                              !.later = <<Act("pools", "adm", <<"b4">>)>>]
Dynamic == [Switch EXCEPT !.pool["b4"] = IdlePool, !.faults = 1,
                          !.later = <<Act("dyn", "adm", "dynamic")>>]

\* Day 1: a new network whose pool lacks addresses at first; OAM changes are not
\* applied.
DayOne ==
  Case(FALSE, "bootstrap", "c4" :> 4, "clu" :> NewNetwork("cluster", <<"c4">>, "bootstrap"),
       "c4" :> NewPool(NoAddresses), "c4" :> 0, "clu" :> "none", {},
       <<Act("pool", "c4", 1)>>, 0)
DayOneOam ==
  Case(FALSE, "bootstrap", "o4" :> 4, "oam" :> DoneNet("oam", <<"o4">>, "bootstrap"),
       "o4" :> DonePool(1), "o4" :> 1, "oam" :> "static", {<<"oam", "o4">>},
       <<Act("pool", "o4", 2)>>, 1)

\* Day 1 to day 2 on AIO-SX: OAM has a change that was refused.
ScopeChange ==
  Case(TRUE, "principal", "o4" :> 4,
       "oam" :> [NewNetwork("oam", <<"o4">>, "bootstrap") EXCEPT !.fin = TRUE],
       "o4" :> NewPool(2), "o4" :> 1, "oam" :> "static", {<<"oam", "o4">>},
       <<Act("scope", "oam", "principal")>>, 0)

\* AIO-SX, day 2: mgmt changes on a locked host.
MgmtSimplex ==
  Case(TRUE, "principal", "m4" :> 4, "mgm" :> DoneNet("mgmt", <<"m4">>, "principal"),
       "m4" :> DonePool(1), "m4" :> 1, "mgm" :> "static", {<<"mgm", "m4">>},
       <<Act("pool", "m4", 2)>>, 1)

\* Other systems, day 2: mgmt is not reconfigured, but gets a second stack; OAM is
\* reconfigured.
Multinode ==
  Case(FALSE, "principal", "m4" :> 4 @@ "m6" :> 6,
       "mgm" :> DoneNet("mgmt", <<"m4", "m6">>, "principal"),
       "m4" :> DonePool(1) @@ "m6" :> NewPool(1), "m4" :> 1 @@ "m6" :> 0, "mgm" :> "static",
       {<<"mgm", "m4">>},
       <<Act("pool", "m4", 2)>>, 0)
OamMultinode ==
  Case(FALSE, "principal", "o4" :> 4 @@ "p4" :> 4,
       "oam" :> DoneNet("oam", <<"o4">>, "principal"),
       "o4" :> DonePool(1) @@ "p4" :> NewPool(1), "o4" :> 1 @@ "p4" :> 0, "oam" :> "static",
       {<<"oam", "o4">>},
       <<Act("pool", "o4", 2)>>, 0)

\* A pool loses an address; pools of no network; objects are deleted.
Loss ==
  Case(FALSE, "principal", "c4" :> 4 @@ "x4" :> 4,
       "clu" :> DoneNet("cluster", <<"c4">>, "principal")
         @@ "oth" :> DoneNet("other", <<"x4">>, "principal"),
       "c4" :> DonePool(1) @@ "x4" :> DonePool(1), "c4" :> 1 @@ "x4" :> 1,
       "clu" :> "static" @@ "oth" :> "none", {<<"clu", "c4">>},
       <<Act("loss", "c4", 0), Act("pool", "x4", 2), Act("deletePool", "c4", 0),
         Act("deleteNetwork", "clu", 0)>>, 0)

\* Day 2: the user removes an optional address of the admin network's pool.
Remove == [Switch EXCEPT !.pool["b4"] = IdlePool, !.later = <<Act("pool", "a4", NoGateway)>>]

\* Day 1: a pool that nobody validates, and one that is never valid.
Pods ==
  Case(FALSE, "bootstrap", "k4" :> 4, "pod" :> NewNetwork("pods", <<"k4">>, "bootstrap"),
       "k4" :> NewPool(NoAddresses), "k4" :> 0, "pod" :> "none", {}, <<>>, 0)
Pxeboot ==
  Case(FALSE, "bootstrap", "x6" :> 6, "pxe" :> NewNetwork("pxeboot", <<"x6">>, "bootstrap"),
       "x6" :> NewPool(1), "x6" :> 0, "pxe" :> "none", {}, <<>>, 0)

MCCases == {DualStack, Switch, SwitchFails, Dynamic, Remove, DayOne, DayOneOam, Pods, Pxeboot,
            ScopeChange, MgmtSimplex, Multinode, OamMultinode, Loss}
====
