--------------------------- MODULE MCGridLifecycle ---------------------------
(* Instances of GridLifecycle for TLC.                                     *)
EXTENDS GridLifecycle, TLC

CONSTANTS r1, r2, r3, r4, o1, o2, s1, s2, d1, d2

Interchangeable == Permutations(Rows) \cup Permutations(Orders)

\* The faults under which the local books may be trusted: no undecodable answer
\* and no wrong 404. A rejected cancel leaves the row as an unanswered one does,
\* but for the label, and an opaque order only alerts; both are left to AllFaults.
HonestFaults ==
    FaultKinds \ {"garbled_create", "spurious_gone", "cancel_failed", "opaque_order"}

\* The faults that matter to the create alone.
CreateFaults == {"lost_create"}

\* The fault of a cancel that leaves open whether it was applied.
CloseFaults == {"cancel_unknown"}

AllFaults == FaultKinds
\* The client of the account can be built.
ClientFaults == FaultKinds \ {"no_client"}
NoFaults  == {}
=============================================================================
