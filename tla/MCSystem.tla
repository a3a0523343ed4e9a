------------------------------- MODULE MCSystem -------------------------------
(***************************************************************************)
(* The System controller on small systems: the cases of MCCases, each with *)
(* what the user does, what happens to the system, and the number of       *)
(* requests that may fail.                                                 *)
(***************************************************************************)
EXTENDS SystemReconciler

MCNames == {"ca", "ssl", "lic", "ceph"}

Act(kind, value) == [kind |-> kind, value |-> value]
NoFactory == [on |-> FALSE, reconciled |-> FALSE, default |-> FALSE]

\* A system as it is installed: a default parameter and two file systems.
Installed ==
  [NoSettings EXCEPT !.val = [k \in Values |-> 1], !.params["d"] = 1,
                     !.fs["f1"] = 1, !.fs["f2"] = 1]
Settings(set) ==
  [set |-> set, first |-> set, resizing |-> {}, running |-> [p \in Kube |-> set.params[p]]]

\* An object that is reconciled.
Done(spec, scope) ==
  [NewObject(spec, scope) EXCEPT !.scope = scope, !.observed = 1,
                                 !.after = IF scope = "principal" THEN "day2" ELSE "none",
                                 !.reconciled = TRUE, !.inSync = TRUE,
                                 !.defaults = Installed]

Case(one, o, secrets, nodes, acts, failures) ==
  [simplex |-> one, obj |-> o, sys |-> Settings(Installed),
   env |-> [secrets |-> secrets, nodes |-> nodes], factory |-> NoFactory, later |-> acts,
   faults |-> failures]

\* Day 1 on AIO-SX: everything is new; the license and the controller come later.
Full == [NoSettings EXCEPT !.val["attributes"] = 2, !.val["dns"] = 2, !.certs = {"ca"},
                           !.deprecated = {"ssl"}, !.license = "lic", !.params["k1"] = 2,
                           !.backends = {"ceph"}, !.fs["f1"] = 2, !.fs["f3"] = 1]
DayOne ==
  Case(TRUE, NewObject(Full, "bootstrap"), {"ca"}, 0,
       <<Act("secret", "lic"), Act("nodes", 1)>>, 1)

\* Day 2: a file system grows, with a controller that is locked at first, then again,
\* and a parameter is added and taken back.
Grow(n) == [NoSettings EXCEPT !.fs["f1"] = n]
DayTwo ==
  Case(FALSE, Done(NoSettings, "principal"), {}, 1,
       <<Act("spec", [Grow(2) EXCEPT !.params["k1"] = 2]), Act("nodes", 2)>>, 2)
Again == [DayTwo EXCEPT !.later = Append(@, Act("spec", Grow(3)))]

\* From day 1 to day 2 and back, with changes in each.
Ntp(n) == [NoSettings EXCEPT !.val["ntp"] = n]
Switches ==
  Case(TRUE, Done(NoSettings, "bootstrap"), {}, 1,
       <<Act("spec", Ntp(2)), Act("scope", "principal"), Act("scope", "bootstrap"),
         Act("spec", Ntp(3))>>, 1)

\* The user lets a change in day 1 through, at first with the value that does not stay.
Overrides ==
  Case(TRUE, Done(NoSettings, "bootstrap"), {}, 1,
       <<Act("spec", Ntp(2)), Act("annotate", "true"), Act("annotate", "other"),
         Act("spec", Ntp(3))>>, 1)

\* The process is restarted.
Restarts ==
  Case(TRUE, NewObject(Ntp(2), "principal"), {}, 1,
       <<Act("spec", [Ntp(3) EXCEPT !.params["k2"] = 1]), Act("restart", 0),
         Act("restart", 0)>>, 2)

\* A factory install: the object has defaults of an earlier one.
Factory ==
  [Case(TRUE, [Done(Ntp(2), "bootstrap") EXCEPT !.defaults = Ntp(3)], {}, 1,
        <<Act("factoryEnds", 0)>>, 2)
     EXCEPT !.factory.on = TRUE]

MCCases == {DayOne, DayTwo, Again, Switches, Overrides, Restarts,
            Factory}
====
