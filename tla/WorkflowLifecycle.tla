------------------------- MODULE WorkflowLifecycle -------------------------
(***************************************************************************)
(* What the WorkflowEngine promises of one persisted workflow instance: it *)
(* is created live, moves through its steps while it is live, ends at most *)
(* once, and never leaves the status it ended with.                        *)
(***************************************************************************)

CONSTANT Workflows          \* the workflow ids that may be handed out

VARIABLE status             \* status[w]: the status of the stored document

Terminal == {"COMPLETED", "CANCELLED", "TIMED_OUT"}
Statuses == {"ABSENT", "IN_PROGRESS"} \cup Terminal

Init == status = [w \in Workflows |-> "ABSENT"]

Open(w) ==
  /\ status[w] = "ABSENT"
  /\ status' = [status EXCEPT ![w] = "IN_PROGRESS"]

End(w) ==
  /\ status[w] = "IN_PROGRESS"
  /\ \E s \in Terminal : status' = [status EXCEPT ![w] = s]

Next == \E w \in Workflows : Open(w) \/ End(w)

Spec == Init /\ [][Next]_status
=============================================================================
