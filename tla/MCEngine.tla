------------------------------ MODULE MCEngine ------------------------------
(***************************************************************************)
(* Model-checking instance of the workflow engine and of the delivery of   *)
(* notifications, with their liveness.  They share no state, so each       *)
(* behaviour is one of a single component, the other keeping its initial   *)
(* state.                                                                  *)
(***************************************************************************)
EXTENDS WorkflowEngine, Delivery

VARIABLE running   \* the component whose behaviour this is

bothVars == <<vars, deliveryVars, running>>

BothInit == Init /\ DeliveryInit /\ running \in {"engine", "delivery"}

BothNext ==
  /\ UNCHANGED running
  /\ \/ running = "engine" /\ Next /\ UNCHANGED deliveryVars
     \/ running = "delivery" /\ DeliveryNext /\ UNCHANGED vars

\* The fairness of each component, in its own behaviours.
Engine(A) == running = "engine" /\ A
Pipeline(A) == running = "delivery" /\ A

BothSpec ==
  /\ BothInit /\ [][BothNext]_bothVars
  /\ \A t \in Tasks : WF_vars(Engine(Step(t)))
  /\ \A w \in Workflows :
       /\ SF_vars(Engine(\E t \in Tasks : TimerFires(t, w)))
       /\ WF_vars(Engine(\E t \in Tasks : RecoverOne(t, w)))
       /\ WF_vars(Engine(LockExpires(w))) /\ WF_vars(Engine(HotExpires(w)))
  /\ WF_vars(Engine(\E r \in BOOLEAN : Restart(r)))
  /\ WF_vars(Engine(Recovered))
  /\ \A p \in Drains : WF_deliveryVars(Pipeline(Drain(p)))
  /\ \A p \in Drains, d \in Destinations :
       /\ WF_deliveryVars(Pipeline(Skip(p, d) \/ Take(p, d)))
       /\ WF_deliveryVars(Pipeline(Sent(p, d) \/ Failed(p, d)))
  /\ \A d \in Destinations :
       /\ SF_deliveryVars(Pipeline(\E p \in Drains : Sent(p, d)))
       /\ WF_deliveryVars(Pipeline(BackoffElapses(d)))
=============================================================================
