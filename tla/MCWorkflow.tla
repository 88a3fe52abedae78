----------------------------- MODULE MCWorkflow -----------------------------
(* Workflows of three tasks: two tasks and then one, where the two are side   *)
(* by side at a gate or one after the other before it; and a workflow with a  *)
(* phase for each task.                                                       *)
EXTENDS Workflow

SmallPlans ==
  {[size |-> 2, phase |-> <<1, 1, 2>>, after |-> <<{}, {}, {}>>,
    gates |-> {1}, workers |-> <<2, 1>>],
   [size |-> 2, phase |-> <<1, 1, 2>>, after |-> <<{}, {1}, {}>>,
    gates |-> {2}, workers |-> <<1, 1>>],
   [size |-> 3, phase |-> <<1, 2, 3>>, after |-> <<{}, {1}, {}>>,
    gates |-> {2}, workers |-> <<1, 1, 2>>]}
=============================================================================
