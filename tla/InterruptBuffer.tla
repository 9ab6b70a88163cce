-------------------------- MODULE InterruptBuffer --------------------------
(***************************************************************************)
(* What the service unit promises to software: a buffer of the lines that  *)
(* have pulsed while enabled, on which a bus access acts at once.          *)
(*                                                                         *)
(* Two edges of the implementation show through.  A line cleared by an     *)
(* access stays deaf for the next cycle (shadow), and what the core is     *)
(* shown lags: it may still be a line just cleared, and it need not yet be *)
(* a line just set (setting).                                              *)
(***************************************************************************)
EXTENDS Naturals

CONSTANT Lines

VARIABLES
    signal,         \* the lines that are up in the present cycle
    write,          \* the access of the present cycle
    enabled,        \* the mask
    latched,        \* the buffer
    shadow,         \* lines the last cycle's access has cleared
    setting,        \* lines the last cycle's access has set
    served          \* the line the core is shown, if any

bufferVars == <<signal, write, enabled, latched, shadow, setting, served>>

First(S) == {i \in S : \A j \in S : i <= j}

\* The buffer after the access of a cycle that has added the lines got.
After(got) ==
    CASE write.reg = "PENDING"       -> write.data
      [] write.reg = "SET_PENDING"   -> latched \cup got \cup write.data
      [] write.reg = "CLEAR_PENDING" -> (latched \cup got) \ write.data
      [] OTHER                       -> latched \cup got

Given(reg) == IF write.reg = reg THEN write.data ELSE {}

BufferInit ==
    /\ enabled = {} /\ latched = {} /\ shadow = {} /\ setting = {}
    /\ served = {}

BufferNext ==
    /\ enabled' = IF write.reg = "ENABLE" THEN write.data ELSE enabled
    /\ latched' = After((signal \cap enabled) \ shadow)
    /\ shadow'  = Given("CLEAR_PENDING")
    /\ setting' = Given("SET_PENDING")
    /\ \E S \in SUBSET Lines :
            /\ latched \ setting \subseteq S
            /\ S \subseteq latched \cup shadow
            /\ served' = First(S)

BufferSpec == BufferInit /\ [][BufferNext]_bufferVars
=============================================================================
