----------------------------- MODULE MCIdleLevel ------------------------------
(* A campaign level without cache faults, and with a surface below and above  *)
(* the gate's limit, under the idle rule; and one without the rule.           *)
EXTENDS IdleLevel

MCModes ==
  {[require_idle_gpu |-> TRUE, surface |-> s] : s \in {"none", "l2", "between"}}
    \cup {[require_idle_gpu |-> FALSE, surface |-> "l2"]}
=============================================================================
