--------------------------- MODULE MCServiceUnit ---------------------------
(***************************************************************************)
(* The service unit on two lines, with a record of what it has seen.       *)
(***************************************************************************)
EXTENDS ServiceUnitPorts

VARIABLE seen       \* lines that have pulsed since software's last access

\* A pulse in the shadow of a clear does not count: only the mask is in question.
SeenNext ==
    /\ PortsNext
    /\ seen' = IF apb = NoWrite THEN seen \cup (signal_i \ regs["CLEAR_PENDING"])
                                ELSE {}

SeenSpec == PortsInit /\ seen = {} /\ [][SeenNext]_<<portVars, seen>>

\* "The event unit thus saves the events and interrupts it has seen in a
\* buffer. After the buffer there is a mask" (apb_event_unit/README.md:9-10):
\* a pulse is saved whatever the mask says.
SeenIsBuffered == seen \subseteq regs["PENDING"]
=============================================================================
