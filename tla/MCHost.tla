-------------------------------- MODULE MCHost --------------------------------
(* Instances of HostReconciler for TLC: three specs a user can ask for. They *)
(* differ in what decides how a host is brought up: whether it is to be      *)
(* unlocked, how it is provisioned, and whether its file systems need it to  *)
(* be locked.                                                                *)
EXTENDS HostReconciler

Want(admin, mode, oos, nets, fs) ==
  [admin |-> admin, mode |-> mode, oos |-> oos, nets |-> nets, fs |-> fs, routes |-> 1]

MCWants == {Want("unlocked", "static", 0, 1, 1), Want("unlocked", "dynamic", 2, 2, 2),
            Want("locked", "static", 2, 1, 1)}

===============================================================================
