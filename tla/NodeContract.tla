----------------------------- MODULE NodeContract -----------------------------
(***************************************************************************)
(* What a graph run promises its Nodes about their lifecycle hooks: every  *)
(* Node is prepared after the Nodes it receives from; finished, in a run   *)
(* without failure, after the Nodes it sends to; and after a failure every *)
(* Node that was prepared is aborted once, again after the Nodes it sends  *)
(* to, even if its finish hook has already run.                            *)
(***************************************************************************)
CONSTANTS Nodes, Sends      \* Sends: pairs <<n, m>> joined by an Edge
VARIABLES hooks, failed

contractVars == <<hooks, failed>>
Holding == {"prepared", "finished"}

ContractInit == hooks = [n \in Nodes |-> "new"] /\ failed = FALSE

PrepareNode(n) ==
    /\ ~failed /\ hooks[n] = "new"
    /\ \A m \in Nodes : <<m, n>> \in Sends => hooks[m] = "prepared"
    /\ hooks' = [hooks EXCEPT ![n] = "prepared"] /\ UNCHANGED failed

FinishNode(n) ==
    /\ ~failed /\ hooks[n] = "prepared" /\ \A m \in Nodes : hooks[m] # "new"
    /\ \A m \in Nodes : <<n, m>> \in Sends => hooks[m] = "finished"
    /\ hooks' = [hooks EXCEPT ![n] = "finished"] /\ UNCHANGED failed

Fail == ~failed /\ failed' = TRUE /\ UNCHANGED hooks

AbortNode(n) ==
    /\ failed /\ hooks[n] \in Holding
    /\ \A m \in Nodes : <<n, m>> \in Sends => hooks[m] \notin Holding
    /\ hooks' = [hooks EXCEPT ![n] = "aborted"] /\ UNCHANGED failed

ContractNext == Fail \/ \E n \in Nodes : PrepareNode(n) \/ FinishNode(n) \/ AbortNode(n)
Contract == ContractInit /\ [][ContractNext]_contractVars
=============================================================================
