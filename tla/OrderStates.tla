----------------------------- MODULE OrderStates -----------------------------
(* The states of one order as core/execution/orders.py declares them. *)

OrderState == {"intended", "submitted", "partial", "filled", "rejected", "cancelled"}

Terminal == {"filled", "rejected", "cancelled"}

Unresolved(s) == s \notin Terminal

\* An order that is only intended has not been acknowledged, and does not block.
Blocking(s) == Unresolved(s) /\ s # "intended"

==============================================================================
