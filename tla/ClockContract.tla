--------------------------- MODULE ClockContract ---------------------------
(***************************************************************************)
(* What the sleep unit, the core and the bus promise each other about the  *)
(* core's clock: the clock is taken away only from a core with no work     *)
(* under way and no interrupt on its inputs; a core without a clock starts *)
(* no work; and while a request stands, no step but the one that brings    *)
(* the clock back is allowed.  It says nothing of when or how.             *)
(***************************************************************************)
VARIABLES
    clocked,        \* the core has its clock
    working,        \* the core has work under way
    request         \* an interrupt is on the core's inputs

contractVars == <<clocked, working, request>>

ContractInit == clocked = TRUE /\ working = FALSE /\ request = FALSE

\* With the clock on, work starts and ends and requests come and go.
Work ==
    /\ clocked
    /\ clocked' = TRUE
    /\ working' \in BOOLEAN
    /\ request' \in BOOLEAN

\* The clock is taken away.
Stop ==
    /\ clocked /\ ~working /\ ~request
    /\ clocked' = FALSE
    /\ working' = FALSE
    /\ request' \in BOOLEAN

\* The clock stays away.
Stay ==
    /\ ~clocked /\ ~request
    /\ clocked' = FALSE
    /\ working' = FALSE
    /\ request' \in BOOLEAN

\* The clock comes back, before there is work.
Resume ==
    /\ ~clocked
    /\ clocked' = TRUE
    /\ working' = FALSE
    /\ request' \in BOOLEAN

ContractNext == Work \/ Stop \/ Stay \/ Resume

ContractSpec == ContractInit /\ [][ContractNext]_contractVars
=============================================================================
