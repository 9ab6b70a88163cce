---------------------------- MODULE ServiceUnit ----------------------------
(***************************************************************************)
(* The generic service unit of the APB event unit                          *)
(* (ips/apb/apb_event_unit/generic_service_unit.sv): four registers that   *)
(* latch pulses on the unit's lines and present one latched line at a time *)
(* on the registered output irq_o.  The event unit holds two of them, one  *)
(* for interrupts and one for events.                                      *)
(*                                                                         *)
(* A 32-bit register or bus is the set of the indices of its one bits.     *)
(* One step is one rising edge of HCLK: signal_i is sampled and at most    *)
(* one APB write is accepted (PREADY is always 1).                         *)
(***************************************************************************)
EXTENDS Naturals

CONSTANT Lines      \* the bit positions in use, 0..31 in the code

ASSUME LinesAssumption == Lines \subseteq Nat

VARIABLES
    regs,           \* regs_q: ENABLE, PENDING, SET_PENDING, CLEAR_PENDING
    irq_o           \* the output register, one-hot or zero

serviceVars == <<regs, irq_o>>

Registers == {"ENABLE", "PENDING", "SET_PENDING", "CLEAR_PENDING"}

\* The APB access of a cycle: no write at all, or a write of one register.
NoWrite == [reg |-> "NONE", data |-> {}]
Writes  == [reg : Registers, data : SUBSET Lines]

TypeOK ==
    /\ regs \in [Registers -> SUBSET Lines]
    /\ irq_o \in SUBSET Lines

Init ==
    /\ regs = [r \in Registers |-> {}]
    /\ irq_o = {}

-----------------------------------------------------------------------------
\* Mutant: the loop's index is off by one.
Lowest_OffByOne(S) == {i + 1 : i \in {k \in S : \A j \in S : k <= j}}

\* The lowest pending index wins: the loop of the code breaks at the first.
Lowest(S) == {i \in S : \A j \in S : i <= j}

\* What PENDING becomes when the bus does not write it.  The enable mask is
\* applied before the latch, and a clear beats a set and a new pulse.
PendingInt(signal) ==
    ( (regs["ENABLE"] \cap signal) \cup regs["PENDING"]
                                   \cup regs["SET_PENDING"] )
        \ regs["CLEAR_PENDING"]

\* Mutant: the clear register keeps its value.
RegsNext_StickyClear(signal, write) ==
    [r \in Registers |->
        IF write.reg = r       THEN write.data
        ELSE IF r = "PENDING"  THEN PendingInt(signal)
        ELSE IF r \in {"ENABLE", "CLEAR_PENDING"} THEN regs[r]
        ELSE {}]

\* The set and clear registers fall back to zero after one cycle; the write
\* of the bus, the last assignment of the code, overrides everything.
RegsNext(signal, write) ==
    [r \in Registers |->
        IF write.reg = r       THEN write.data
        ELSE IF r = "PENDING"  THEN PendingInt(signal)
        ELSE IF r = "ENABLE"   THEN regs["ENABLE"]
        ELSE {}]

\* One clock edge.
Cycle(signal, write) ==
    /\ regs' = RegsNext(signal, write)
    /\ irq_o' = Lowest(regs["PENDING"])

=============================================================================
