--------------------------- MODULE CommandContract ---------------------------
(***************************************************************************)
(* What the control plane promises of an operational command                *)
(* (docs/CONTROL_PLANE.md, "Operational command model"): it is performed at *)
(* most once per idempotency key, never after it was refused, and a         *)
(* dangerous one only after it was asked for a confirmation.                *)
(***************************************************************************)
CONSTANTS Keys, Kinds, Dangerous

VARIABLES kind, phase

contractVars == <<kind, phase>>

Phases == {"new", "asking", "cleared", "performed", "refused"}

ContractInit ==
    /\ kind \in [Keys -> Kinds]
    /\ phase = [k \in Keys |-> "new"]

\* A new command is cleared at once, or asks for a confirmation.
Accept(k, c) ==
    /\ phase[k] = "new"
    /\ kind' = [kind EXCEPT ![k] = c]
    /\ \/ c \notin Dangerous /\ phase' = [phase EXCEPT ![k] = "cleared"]
       \/ c \in Dangerous /\ phase' = [phase EXCEPT ![k] = "asking"]

Clear(k) ==
    /\ phase[k] = "asking"
    /\ phase' = [phase EXCEPT ![k] = "cleared"]
    /\ UNCHANGED kind

Perform(k) ==
    /\ phase[k] = "cleared"
    /\ phase' = [phase EXCEPT ![k] = "performed"]
    /\ UNCHANGED kind

\* Several commands can be given up at once (an expiry statement, a restart).
Refuse(given) ==
    /\ \A k \in given : phase[k] \in {"asking", "cleared"}
    /\ phase' = [k \in Keys |-> IF k \in given THEN "refused" ELSE phase[k]]
    /\ UNCHANGED kind

ContractNext ==
    \/ \E k \in Keys : (\E c \in Kinds : Accept(k, c)) \/ Clear(k) \/ Perform(k)
    \/ \E given \in SUBSET Keys : Refuse(given)

ContractSpec == ContractInit /\ [][ContractNext]_contractVars

=============================================================================
