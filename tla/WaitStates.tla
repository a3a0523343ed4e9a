------------------------------ MODULE WaitStates ------------------------------
(***************************************************************************)
(* What the monitor framework promises to a reconciler that has to wait: a *)
(* waiting object is watched by somebody until it is offered to the        *)
(* reconciler again, and nothing but the reconciler, or the end of the     *)
(* object or of the process, ends its wait.                                *)
(***************************************************************************)
CONSTANT Objects

VARIABLES
  wait,   \* of each object: "none", "watched" or "offered"
  gone    \* the objects that were deleted

Init == wait = [o \in Objects |-> "none"] /\ gone = {}

\* Reconcile returns WaitForMonitor; the object may have been offered meanwhile.
Park(o) ==
  /\ wait[o] = "none" /\ o \notin gone
  /\ \E s \in {"watched", "offered"} : wait' = [wait EXCEPT ![o] = s]
  /\ UNCHANGED gone

\* The monitor, or a change of the object, offers it.
Offer(o) ==
  /\ wait[o] = "watched"
  /\ wait' = [wait EXCEPT ![o] = "offered"]
  /\ UNCHANGED gone

\* The reconciler takes it up.
Resume(o) ==
  /\ wait[o] = "offered"
  /\ wait' = [wait EXCEPT ![o] = "none"]
  /\ UNCHANGED gone

Delete(o) ==
  /\ wait' = [wait EXCEPT ![o] = "none"]
  /\ gone' = gone \cup {o}

Restart == wait' = [o \in Objects |-> "none"] /\ UNCHANGED gone

Next == (\E o \in Objects : Park(o) \/ Offer(o) \/ Resume(o) \/ Delete(o)) \/ Restart

Spec == Init /\ [][Next]_<<wait, gone>>
====
