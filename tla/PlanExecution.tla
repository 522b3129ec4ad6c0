---------------------------- MODULE PlanExecution ----------------------------
(***************************************************************************)
(* What a fan-out promises the rest of the pipeline, without waves,        *)
(* workers, queues or checkpoints: units are delivered in the order of     *)
(* their dependencies, durable progress never runs ahead of the deliveries *)
(* and never shrinks, and the phase is left for good once all is done.     *)
(* Failures, retries, interrupts and kills are not visible here: they may  *)
(* delay the plan and may have a unit delivered again, nothing else.       *)
(***************************************************************************)
CONSTANTS Units, dependencies

VARIABLES
    delivered,  \* units whose worker has delivered
    recorded,   \* units a restart would not do again
    advanced    \* a restart would continue after the phase

vars == <<delivered, recorded, advanced>>

Init == delivered = {} /\ recorded = {} /\ advanced = FALSE

Deliver(u) ==
    /\ dependencies[u] \subseteq delivered
    /\ delivered' = delivered \cup {u}
    /\ UNCHANGED <<recorded, advanced>>

Record ==
    /\ ~advanced
    /\ recorded' \in SUBSET delivered
    /\ recorded \subseteq recorded'
    /\ UNCHANGED <<delivered, advanced>>

Advance ==
    /\ delivered = Units
    /\ recorded' = Units /\ advanced' = TRUE
    /\ UNCHANGED delivered

Next == (\E u \in Units : Deliver(u)) \/ Record \/ Advance

Spec == Init /\ [][Next]_vars
=============================================================================
