-------------------------- MODULE IlluminationLease --------------------------
(***************************************************************************)
(* What the sensor illumination promises to the fingerprint drivers: at    *)
(* most one of them has it at a time, there is light only while one has    *)
(* it, giving it up puts the light out in the same instant, and a light    *)
(* never stays on.                                                         *)
(***************************************************************************)
CONSTANTS Executors, NoExecutor

VARIABLES
    owner,  \* the executor that has the illumination
    lit     \* there is light over the sensor

leaseVars == <<owner, lit>>

Init ==
    /\ owner = NoExecutor
    /\ lit = FALSE

Grant(e) ==
    /\ owner = NoExecutor
    /\ owner' = e
    /\ UNCHANGED lit

Light ==
    /\ owner # NoExecutor
    /\ ~lit
    /\ lit' = TRUE
    /\ UNCHANGED owner

GoDark ==
    /\ lit
    /\ lit' = FALSE
    /\ UNCHANGED owner

End ==
    /\ owner # NoExecutor
    /\ owner' = NoExecutor
    /\ lit' = FALSE

Next ==
    \/ \E e \in Executors : Grant(e)
    \/ Light
    \/ GoDark
    \/ End

Spec == Init /\ [][Next]_leaseVars /\ WF_leaseVars(GoDark)

=============================================================================
