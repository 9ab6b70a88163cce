--------------------------- MODULE PeripheralPath ---------------------------
(***************************************************************************)
(* The path of a store from the core's data port to a peripheral and back: *)
(* the bridge ips/axi/core2axi/core2axi.sv, the AXI slices and node, and   *)
(* the bridge ips/axi/axi2apb/axi2apb32.sv.  core2axi has one transaction  *)
(* under way at a time and grants a store only from its IDLE state, so the *)
(* path is a single slot; how long the slices, the node and the FIFOs of   *)
(* axi2apb hold it is left open, but every stage takes at least its cycle. *)
(***************************************************************************)
CONSTANTS
    Ops,                \* what a store may carry: APB accesses
    NoOp                \* the content of an empty slot

ASSUME PathAssumption == NoOp \in Ops

VARIABLES
    pathStage,          \* where the transaction is
    pathOp              \* what it carries

pathVars == <<pathStage, pathOp>>

\* IDLE      core2axi in IDLE
\* REQUEST   address and data accepted, under way to axi2apb
\* SEND_B    axi2apb in SEND_B_RESP
\* RESPONSE  the B response in the FIFOs on its way to core2axi
Stages == {"IDLE", "REQUEST", "SEND_B", "RESPONSE"}

PathTypeOK == pathStage \in Stages /\ pathOp \in Ops

PathInit == pathStage = "IDLE" /\ pathOp = NoOp

\* Mutant: a request is granted in every state of core2axi.
PathGnt_Always(req) == req

\* data_gnt_o: both address and data are taken in the first IDLE cycle of a
\* request, because the slices are empty once the last response is back.
PathGnt(req) == req /\ pathStage = "IDLE"

PathIdle(req, op) ==
    /\ pathStage = "IDLE"
    /\ IF req THEN pathStage' = "REQUEST" /\ pathOp' = op
              ELSE UNCHANGED pathVars

\* arrive: axi2apb raises PENABLE for the write in this cycle; PREADY is 1.
PathRequest(arrive) ==
    /\ pathStage = "REQUEST"
    /\ IF arrive THEN pathStage' = "SEND_B" /\ pathOp' = NoOp
                 ELSE UNCHANGED pathVars

PathSendB ==
    /\ pathStage = "SEND_B"
    /\ pathStage' = "RESPONSE"
    /\ UNCHANGED pathOp

\* answer: b_valid reaches core2axi, which passes it on as data_rvalid.
PathResponse(answer) ==
    /\ pathStage = "RESPONSE"
    /\ pathStage' = IF answer THEN "IDLE" ELSE "RESPONSE"
    /\ UNCHANGED pathOp

PathCycle(req, op, arrive, answer) ==
    /\ arrive => pathStage = "REQUEST"
    /\ answer => pathStage = "RESPONSE"
    /\ \/ PathIdle(req, op)
       \/ PathRequest(arrive)
       \/ PathSendB
       \/ PathResponse(answer)
=============================================================================
