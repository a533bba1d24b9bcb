----------------------------- MODULE GridContract -----------------------------
(***************************************************************************)
(* What the books of the REAL grids promise (docs/GRID_LIFECYCLE.md, "State *)
(* Machine" and "State Rules"): a row asks the exchange for one grid, holds *)
(* the grid it finds for as long as that grid lives, and is written off     *)
(* only when there is no grid and no request that could still bring one.    *)
(***************************************************************************)
CONSTANTS Rows, Orders, NoOrder

VARIABLES
    phase,    \* of a row, from "none" to "over" or "written_off"
    holds,    \* the grid a row supervises
    asking,   \* rows whose request is on its way
    market,   \* of a grid on the exchange
    asker     \* the row whose request produced a grid

gridVars == <<phase, holds, asking, market, asker>>

Phases == {"none", "waiting", "held", "stopping", "over", "written_off"}

ContractInit ==
    /\ phase = [r \in Rows |-> "none"]
    /\ holds = [r \in Rows |-> NoOrder]
    /\ asking = {}
    /\ market = [o \in Orders |-> "unborn"]

-----------------------------------------------------------------------------
(* Requests and the exchange, which the books do not see at once.          *)

\* The exchange gives a grid to a row that waits for it, or loses the request.
Open(r, o) ==
    /\ r \in asking /\ phase[r] = "waiting" /\ market[o] = "unborn"
    /\ asking' = asking \ {r}
    /\ asker' = [asker EXCEPT ![o] = r]
    /\ market' = [market EXCEPT ![o] = "open"]

Lose(r) ==
    /\ r \in asking
    /\ asking' = asking \ {r}
    /\ UNCHANGED <<asker, market>>

Close(o) ==
    /\ market[o] = "open"
    /\ market' = [market EXCEPT ![o] = "closed"]
    /\ UNCHANGED <<asking, asker>>

ExchangeStep ==
    /\ UNCHANGED <<holds, phase>>
    /\ \/ \E r \in Rows : Lose(r) \/ \E o \in Orders : Open(r, o)
       \/ \E o \in Orders : Close(o)

-----------------------------------------------------------------------------
(* The books, while the exchange rests.                                    *)

\* A row that waits, or a new one, takes over a grid that nobody holds; a stop
\* may have been recorded meanwhile.
Hold(r, o) ==
    /\ phase[r] \in {"none", "waiting"} /\ r \notin asking
    /\ market[o] # "unborn" /\ \A q \in Rows : holds[q] # o
    /\ holds' = [holds EXCEPT ![r] = o]
    /\ \E how \in {"held", "stopping"} : phase' = [phase EXCEPT ![r] = how]

\* One statement can stop many rows.
Stop ==
    /\ \A r \in Rows : phase'[r] = phase[r] \/ (phase[r] = "held" /\ phase'[r] = "stopping")
    /\ phase' \in [Rows -> Phases]
    /\ UNCHANGED holds

Settle(r) ==
    /\ phase[r] \in {"held", "stopping"} /\ market[holds[r]] = "closed"
    /\ phase' = [phase EXCEPT ![r] = "over"]
    /\ UNCHANGED holds

WriteOff(r) ==
    /\ phase[r] = "waiting" /\ r \notin asking /\ \A o \in Orders : asker[o] # r
    /\ phase' = [phase EXCEPT ![r] = "written_off"]
    /\ UNCHANGED holds

\* The orphan sweep, with a list it read before, and the operator's grid.stop
\* take a settled row up again; it keeps its grid and will be settled again.
Reopen(r) ==
    /\ phase[r] = "over"
    /\ \E how \in {"held", "stopping"} : phase' = [phase EXCEPT ![r] = how]
    /\ UNCHANGED holds

BookStep ==
    /\ UNCHANGED <<asking, asker, market>>
    /\ \/ Stop
       \/ \E r \in Rows : Settle(r) \/ WriteOff(r) \/ Reopen(r) \/ \E o \in Orders : Hold(r, o)

\* A row and its request appear together.
Ask(r) ==
    /\ phase[r] = "none"
    /\ asking' = asking \cup {r}
    /\ phase' = [phase EXCEPT ![r] = "waiting"]
    /\ UNCHANGED <<holds, asker, market>>

ContractNext == BookStep \/ ExchangeStep \/ \E r \in Rows : Ask(r)

ContractSpec == ContractInit /\ [][ContractNext]_gridVars

=============================================================================
