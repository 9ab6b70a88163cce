------------------------- MODULE ServiceUnit_proofs -------------------------
(***************************************************************************)
(* Proofs about the service unit, for every set of lines: its registers    *)
(* keep their types, and it implements InterruptBuffer.                    *)
(***************************************************************************)
EXTENDS ServiceUnitPorts, TLAPS

-----------------------------------------------------------------------------
\* One clock edge keeps the registers within the lines, whatever the inputs.
LEMMA CycleKeepsType ==
    ASSUME NEW signal \in SUBSET Lines,
           NEW write \in Writes \cup {NoWrite},
           TypeOK, Cycle(signal, write)
    PROVE  TypeOK'
<1>1. irq_o' \in SUBSET Lines
  BY DEF Cycle, TypeOK, Lowest, Registers
<1>2. PendingInt(signal) \in SUBSET Lines
  BY DEF PendingInt, TypeOK, Registers
<1>3. write.reg \in Registers => write.data \in SUBSET Lines
  BY DEF Writes, NoWrite, Registers
<1>4. RegsNext(signal, write) \in [Registers -> SUBSET Lines]
  BY <1>2, <1>3 DEF RegsNext, TypeOK, Registers
<1> QED BY <1>1, <1>4 DEF Cycle, TypeOK

\* The type invariant of the unit with its ports.
THEOREM PortsTypeCorrect == PortsSpec => []PortsTypeOK
<1>1. PortsInit => PortsTypeOK
  BY DEF PortsInit, Init, PortsTypeOK, TypeOK, Registers
<1>2. PortsTypeOK /\ [PortsNext]_portVars => PortsTypeOK'
  <2> SUFFICES ASSUME PortsTypeOK, [PortsNext]_portVars PROVE PortsTypeOK'
    OBVIOUS
  <2>1. CASE PortsNext
    BY <2>1, CycleKeepsType DEF PortsNext, Inputs, PortsTypeOK
  <2>2. CASE UNCHANGED portVars
    BY <2>2 DEF portVars, serviceVars, PortsTypeOK, TypeOK, Writes, NoWrite
  <2> QED BY <2>1, <2>2
<1> QED BY <1>1, <1>2, PTL DEF PortsSpec

-----------------------------------------------------------------------------
\* The buffer that the registers stand for: PENDING once the set and the clear
\* register have acted.
Latched == (regs["PENDING"] \cup regs["SET_PENDING"]) \ regs["CLEAR_PENDING"]

\* After an edge the buffer holds the old one and the enabled pulses that were
\* not in the shadow of a clear, changed by the access of the cycle.
LEMMA LatchedStep ==
    ASSUME NEW signal \in SUBSET Lines,
           NEW write \in Writes \cup {NoWrite},
           TypeOK, Cycle(signal, write),
           NEW got,
           got = (signal \cap regs["ENABLE"]) \ regs["CLEAR_PENDING"]
    PROVE  Latched' = CASE write.reg = "PENDING"       -> write.data
                        [] write.reg = "SET_PENDING"   -> Latched \cup got \cup write.data
                        [] write.reg = "CLEAR_PENDING" -> (Latched \cup got) \ write.data
                        [] OTHER                       -> Latched \cup got
<1> DEFINE next == RegsNext(signal, write)
<1>1. PendingInt(signal) = Latched \cup got
  BY DEF PendingInt, Latched
<1>2. regs' = next
  BY DEF Cycle
<1>3. /\ next["PENDING"] = IF write.reg = "PENDING" THEN write.data ELSE Latched \cup got
      /\ next["SET_PENDING"] = IF write.reg = "SET_PENDING" THEN write.data ELSE {}
      /\ next["CLEAR_PENDING"] = IF write.reg = "CLEAR_PENDING" THEN write.data ELSE {}
  BY <1>1 DEF RegsNext, Registers
<1>4. Latched' = (next["PENDING"] \cup next["SET_PENDING"]) \ next["CLEAR_PENDING"]
  BY <1>2 DEF Latched
<1> HIDE DEF next
<1>5. CASE write.reg = "PENDING"
  BY <1>3, <1>4, <1>5
<1>6. CASE write.reg = "SET_PENDING"
  BY <1>3, <1>4, <1>6
<1>7. CASE write.reg = "CLEAR_PENDING"
  BY <1>3, <1>4, <1>7
<1>8. CASE write.reg \notin {"PENDING", "SET_PENDING", "CLEAR_PENDING"}
  BY <1>3, <1>4, <1>8
<1> QED BY <1>5, <1>6, <1>7, <1>8

\* The unit implements the buffer that software believes in.
THEOREM UnitImplementsBuffer == PortsSpec => BufferImplemented
<1>1. PortsInit => Buffer!BufferInit
  BY DEF PortsInit, Init, Registers, Buffer!BufferInit
<1>2. PortsTypeOK /\ [PortsNext]_portVars => [Buffer!BufferNext]_(Buffer!bufferVars)
  <2> SUFFICES ASSUME PortsTypeOK, [PortsNext]_portVars
               PROVE  [Buffer!BufferNext]_(Buffer!bufferVars)
    OBVIOUS
  <2>1. CASE PortsNext
    <3> USE <2>1
    <3>1. /\ TypeOK /\ Cycle(signal_i, apb)
          /\ signal_i \in SUBSET Lines /\ apb \in Writes \cup {NoWrite}
      BY DEF PortsNext, PortsTypeOK
    <3>2. /\ regs["ENABLE"]' = IF apb.reg = "ENABLE" THEN apb.data ELSE regs["ENABLE"]
          /\ regs["CLEAR_PENDING"]' = Buffer!Given("CLEAR_PENDING")
          /\ regs["SET_PENDING"]' = Buffer!Given("SET_PENDING")
      BY <3>1 DEF Cycle, RegsNext, Registers, Buffer!Given
    <3>3. Latched' = Buffer!After((signal_i \cap regs["ENABLE"]) \ regs["CLEAR_PENDING"])
      BY <3>1, LatchedStep DEF Buffer!After, Latched
    <3>4. /\ regs["PENDING"] \in SUBSET Lines
          /\ Latched \ regs["SET_PENDING"] \subseteq regs["PENDING"]
          /\ regs["PENDING"] \subseteq Latched \cup regs["CLEAR_PENDING"]
          /\ irq_o' = Buffer!First(regs["PENDING"])
      BY <3>1 DEF TypeOK, Registers, Latched, Cycle, Lowest, Buffer!First
    <3>5. Buffer!BufferNext
      BY <3>2, <3>3, <3>4 DEF Buffer!BufferNext, Latched
    <3> QED BY <3>5
  <2>2. CASE UNCHANGED portVars
    BY <2>2 DEF portVars, serviceVars, Buffer!bufferVars
  <2> QED BY <2>1, <2>2
<1> QED BY <1>1, <1>2, PortsTypeCorrect, PTL
        DEF PortsSpec, BufferImplemented, Buffer!BufferSpec
=============================================================================
