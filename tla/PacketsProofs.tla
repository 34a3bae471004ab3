--------------------------- MODULE PacketsProofs ---------------------------
(***************************************************************************)
(* Theorems about Packets for every size of the FIFO, every set of lengths    *)
(* and any number of packets, calls of send() and failing transfers, with    *)
(* interrupts and polling.                                                   *)
(***************************************************************************)
EXTENDS Packets, SequenceTheorems, TLAPS

USE SizeAssumption, BoundsAssumption, SwitchAssumption

---------------------------------------------------------------------------
(* Addresses *)

LEMMA HalfValue == Half \in Nat /\ 2 * Half = Fifo /\ Half < Fifo /\ Half > 0
  BY DEF Half

(* The address counter wraps once at most. *)
LEMMA CellValue ==
  ASSUME NEW a \in 0 .. Fifo - 1, NEW i \in 0 .. Fifo - 1
  PROVE  /\ Cell(a, i) = IF a + i < Fifo THEN a + i ELSE a + i - Fifo
         /\ Cell(a, i) \in 0 .. Fifo - 1
  <1>1. CASE a + i < Fifo
    BY <1>1 DEF Cell
  <1>2. CASE ~(a + i < Fifo)
    <2>1. PICK d \in 0 .. Fifo - 1 : d = a + i - Fifo
      BY <1>2
    <2>2. (d + Fifo) % Fifo = d
      BY <2>1
    <2>. QED
      BY <1>2, <2>1, <2>2 DEF Cell
  <1>. QED
    BY <1>1, <1>2

(* What ChipEnds takes for the position of a byte is its position. *)
Position(c, start) == (c + Fifo - start) % Fifo

LEMMA PositionValue ==
  ASSUME NEW c \in 0 .. Fifo - 1, NEW a \in 0 .. Fifo - 1
  PROVE  /\ Position(c, a) = IF c >= a THEN c - a ELSE c + Fifo - a
         /\ Position(c, a) \in 0 .. Fifo - 1
  <1>1. CASE c >= a
    <2>1. PICK d \in 0 .. Fifo - 1 : d = c - a
      BY <1>1
    <2>2. (d + Fifo) % Fifo = d
      BY <2>1
    <2>. QED
      BY <1>1, <2>1, <2>2 DEF Position
  <1>2. CASE ~(c >= a)
    BY <1>2 DEF Position
  <1>. QED
    BY <1>1, <1>2

LEMMA PositionOfCell ==
  ASSUME NEW a \in 0 .. Fifo - 1, NEW i \in 0 .. Fifo - 1
  PROVE  Position(Cell(a, i), a) = i
  <1>. DEFINE c == Cell(a, i)
  <1>1. c \in 0 .. Fifo - 1 /\ c = IF a + i < Fifo THEN a + i ELSE a + i - Fifo
    BY CellValue
  <1>. HIDE DEF c
  <1>2. Position(c, a) = IF c >= a THEN c - a ELSE c + Fifo - a
    BY <1>1, PositionValue
  <1>3. Position(c, a) = i
    BY <1>1, <1>2
  <1>. QED
    BY <1>3 DEF c

---------------------------------------------------------------------------
(* Types *)

(* A packet on the air is the newest. *)
Newest == onAir # NoPacket => onAir = Len(lens)

TypeInv == TypeOK /\ Newest

LEMMA LensType == TypeInv => /\ Len(lens) \in Nat
                             /\ \A p \in 1 .. Len(lens) : lens[p] \in 0 .. Fifo - 1
  BY LenProperties, ElementOfSeq DEF TypeInv, TypeOK

LEMMA EndsTyped == TypeInv /\ ChipEnds => /\ fifo' \in [0 .. Fifo - 1 -> Cells]
                                          /\ rxAt' \in 0 .. Fifo - 1
                                          /\ last' \in Registers
                                          /\ ended' \subseteq Packets
                                          /\ strayed' \in BOOLEAN
  <1>. SUFFICES ASSUME TypeInv, ChipEnds
                PROVE  /\ fifo' \in [0 .. Fifo - 1 -> Cells] /\ rxAt' \in 0 .. Fifo - 1
                       /\ last' \in Registers /\ ended' \subseteq Packets
                       /\ strayed' \in BOOLEAN
    OBVIOUS
  <1>1. /\ rxAt \in 0 .. Fifo - 1 /\ onAir \in Packets /\ strayed \in BOOLEAN
        /\ fifo \in [0 .. Fifo - 1 -> Cells] /\ ended \subseteq Packets
        /\ onAir = Len(lens)
    BY DEF TypeInv, TypeOK, Newest, ChipEnds, Metrics
  <1>2. lens[onAir] \in 0 .. Fifo - 1
    BY <1>1, LensType DEF Packets
  <1>3. fifo' \in [0 .. Fifo - 1 -> Cells]
    <2>1. fifo' = [c \in 0 .. Fifo - 1 |->
                     IF Position(c, rxAt) < lens[onAir] THEN <<onAir, Position(c, rxAt)>>
                                                        ELSE fifo[c]]
      BY DEF ChipEnds, Position
    <2>2. \A c \in 0 .. Fifo - 1 : <<onAir, Position(c, rxAt)>> \in Cells
      BY <1>1, PositionValue DEF Cells
    <2>. QED
      BY <1>1, <2>1, <2>2
  <1>4. rxAt' \in 0 .. Fifo - 1
    BY <1>1, <1>2, CellValue DEF ChipEnds
  <1>5. last' \in Registers
    BY <1>1, <1>2 DEF ChipEnds, Registers, Metrics
  <1>. QED
    BY <1>1, <1>3, <1>4, <1>5 DEF ChipEnds

LEMMA ChipTyped == TypeInv /\ Chip => TypeInv'
  <1>. SUFFICES ASSUME TypeInv, Chip PROVE TypeInv'
    OBVIOUS
  <1>0. /\ markers' \in 0 .. MaxMarkers /\ txActive' \in BOOLEAN
        /\ pc' \in {"app"} \cup Steps /\ got' \subseteq IrqFlags /\ read' \in Registers
        /\ polling' \in BOOLEAN /\ faults' \in 0 .. MaxFaults
    BY DEF Chip, LatchEdge, TypeInv, TypeOK, bounds
  <1>1. CASE ChipHeader
    <2>1. PICK n \in RxLens : lens' = Append(lens, n)
      BY <1>1 DEF ChipHeader
    <2>2. lens' \in Seq(RxLens) /\ Len(lens') = Len(lens) + 1 /\ Len(lens) \in Nat
      BY <2>1, AppendProperties, LenProperties DEF TypeInv, TypeOK
    <2>3. onAir' = Len(lens') /\ onAir' \in Packets /\ Len(lens') <= MaxPackets
      BY <1>1, <2>2 DEF ChipHeader, Packets
    <2>4. bad' \subseteq Packets
      BY <1>1, <2>3 DEF ChipHeader, TypeInv, TypeOK
    <2>5. mode' = mode /\ flags' \subseteq IrqFlags
      BY <1>1 DEF ChipHeader, TypeInv, TypeOK, IrqFlags
    <2>. QED
      BY <1>0, <1>1, <2>2, <2>3, <2>4, <2>5
         DEF ChipHeader, TypeInv, TypeOK, Newest, Metrics
  <1>2. CASE ChipEnds
    <2>1. flags' \subseteq IrqFlags
      BY <1>2 DEF ChipEnds, TypeInv, TypeOK, IrqFlags
    <2>. QED
      BY <1>0, <1>2, <2>1, EndsTyped DEF ChipEnds, TypeInv, TypeOK, Newest, Metrics
  <1>3. CASE ChipTxDone
    <2>1. flags' \subseteq IrqFlags
      BY <1>3 DEF ChipTxDone, TypeInv, TypeOK, IrqFlags
    <2>. QED
      BY <1>0, <1>3, <2>1 DEF ChipTxDone, TypeInv, TypeOK, Newest, history
  <1>. QED
    BY <1>1, <1>2, <1>3 DEF Chip

LEMMA AppTyped == TypeInv /\ (Send \/ StartReceive \/ Poll) => TypeInv'
  <1>. SUFFICES ASSUME TypeInv, Send \/ StartReceive \/ Poll PROVE TypeInv'
    OBVIOUS
  <1>1. CASE Send
    <2>1. PICK n \in TxLens :
            /\ fifo' = [c \in 0 .. Fifo - 1 |-> IF c < n THEN Ours ELSE fifo[c]]
            /\ ptr' = n
            /\ strayed' = (strayed \/ n > Half)
      BY <1>1 DEF Send
    <2>2. fifo' \in [0 .. Fifo - 1 -> Cells] /\ ptr' \in 0 .. Fifo - 1
          /\ strayed' \in BOOLEAN
      BY <2>1 DEF TypeInv, TypeOK, Cells
    <2>3. markers' \in 0 .. MaxMarkers
      BY <1>1, SMTT(30) DEF Send, LatchEdge, TypeInv, TypeOK
    <2>. QED
      BY <1>1, <2>2, <2>3 DEF Send, TypeInv, TypeOK, Newest, bounds, Metrics
  <1>2. CASE StartReceive
    <2>1. markers' \in 0 .. MaxMarkers /\ Half \in 0 .. Fifo - 1
      BY <1>2, HalfValue DEF StartReceive, LatchEdge, TypeInv, TypeOK
    <2>. QED
      BY <1>2, <2>1 DEF StartReceive, TypeInv, TypeOK, Newest, bounds, history, Metrics
  <1>3. CASE Poll
    BY <1>3 DEF Poll, TypeInv, TypeOK, Newest, bounds, history, chipVars, Steps
  <1>. QED
    BY <1>1, <1>2, <1>3

LEMMA ReadTyped ==
  ASSUME TypeInv, NEW here \in Steps, NEW there \in Steps,
         NEW field \in {"rssi", "snr", "addr", "nb"}, ReadRegister(here, there, field)
  PROVE  TypeInv'
  <1>1. read' = [read EXCEPT ![field] = last[field]] /\ read \in Registers
        /\ last \in Registers
    BY DEF ReadRegister, TypeInv, TypeOK
  <1>2. read' \in Registers
    BY <1>1 DEF Registers
  <1>. QED
    BY <1>2 DEF ReadRegister, Step, TypeInv, TypeOK, Newest, bounds, history, chipVars

LEMMA DeliverTyped == TypeInv /\ Deliver => log' \in Seq(Deliveries)
  <1>. SUFFICES ASSUME TypeInv, Deliver PROVE log' \in Seq(Deliveries)
    OBVIOUS
  <1>. DEFINE b == [i \in 1 .. read.nb |-> fifo[Cell(ptr, i - 1)]]
              d == [bytes |-> b, rssi |-> read.rssi, snr |-> read.snr]
  <1>1. /\ read.nb \in 0 .. Fifo - 1 /\ read.rssi \in Metrics /\ read.snr \in Metrics
        /\ ptr \in 0 .. Fifo - 1 /\ fifo \in [0 .. Fifo - 1 -> Cells]
        /\ log \in Seq(Deliveries)
    BY DEF TypeInv, TypeOK, Registers
  <1>2. ASSUME NEW i \in 1 .. read.nb PROVE fifo[Cell(ptr, i - 1)] \in Cells
    <2>1. i - 1 \in 0 .. Fifo - 1
      BY <1>1
    <2>2. Cell(ptr, i - 1) \in 0 .. Fifo - 1
      BY <1>1, <2>1, CellValue
    <2>. QED
      BY <1>1, <2>2
  <1>3. b \in Seq(Cells)
    <2>1. read.nb \in Nat
      BY <1>1
    <2>. QED
      BY <1>2, <2>1
  <1>4. d \in Deliveries
    BY <1>1, <1>3 DEF Deliveries
  <1>. QED
    BY <1>1, <1>4, AppendProperties DEF Deliver

LEMMA EventsTyped == TypeInv /\ (ProcessEvents \/ Fails) => TypeInv'
  <1>. SUFFICES ASSUME TypeInv, ProcessEvents \/ Fails PROVE TypeInv'
    OBVIOUS
  <1>. USE DEF Step, Steps, ReadSteps
  <1>1. CASE LoopTest
    BY <1>1 DEF LoopTest, TypeInv, TypeOK, Newest, bounds, history, chipVars
  <1>2. CASE ReadFlags
    BY <1>2 DEF ReadFlags, TypeInv, TypeOK, Newest, bounds, history, chipVars
  <1>3. CASE ClearFlags
    <2>1. markers' \in 0 .. MaxMarkers
      BY <1>3 DEF ClearFlags, LatchEdge, TypeInv, TypeOK
    <2>. QED
      BY <1>3, <2>1 DEF ClearFlags, Handled, TypeInv, TypeOK, Newest, bounds, history
  <1>4. CASE ReadRssi \/ ReadSnr \/ ReadAddr \/ ReadNb
    BY <1>4, ReadTyped DEF ReadRssi, ReadSnr, ReadAddr, ReadNb
  <1>5. CASE SetPtr
    <2>1. ptr' \in 0 .. Fifo - 1
      BY <1>5 DEF SetPtr, TypeInv, TypeOK, Registers
    <2>. QED
      BY <1>5, <2>1 DEF SetPtr, TypeInv, TypeOK, Newest, bounds, history
  <1>6. CASE Deliver
    <2>1. ptr' \in 0 .. Fifo - 1
      BY <1>6, CellValue DEF Deliver, TypeInv, TypeOK, Registers
    <2>. QED
      BY <1>6, <2>1, DeliverTyped DEF Deliver, TypeInv, TypeOK, Newest, bounds
  <1>7. CASE TxDoneEvent
    <2>1. Nothing \in Registers
      BY DEF Nothing, Registers, Metrics
    <2>. QED
      BY <1>7, <2>1 DEF TxDoneEvent, TypeInv, TypeOK, Newest, bounds, history, chipVars
  <1>8. CASE Fails
    BY <1>8 DEF Fails, Failed, Handled, TypeInv, TypeOK, Newest, history, chipVars
  <1>. QED
    BY <1>1, <1>2, <1>3, <1>4, <1>5, <1>6, <1>7, <1>8 DEF ProcessEvents

LEMMA TypeStep == TypeInv /\ [Next]_vars => TypeInv'
  <1>1. TypeInv /\ UNCHANGED vars => TypeInv'
    BY DEF TypeInv, TypeOK, Newest, vars, chipVars, history, bounds
  <1>. QED
    BY <1>1, ChipTyped, AppTyped, EventsTyped DEF Next

LEMMA TypeInit == Init => TypeInv
  <1>. SUFFICES ASSUME Init PROVE TypeInv
    OBVIOUS
  <1>1. Nothing \in Registers /\ Half \in 0 .. Fifo - 1
    BY HalfValue DEF Nothing, Registers, Metrics
  <1>2. << >> \in Seq(RxLens) /\ << >> \in Seq(Deliveries) /\ Len(<< >>) = 0
    BY EmptySeq
  <1>3. fifo \in [0 .. Fifo - 1 -> Cells]
    BY DEF Init, Cells
  <1>4. /\ mode \in {"Standby", "Rx", "Tx"} /\ flags \subseteq IrqFlags
        /\ dio0 \in {"RxDone", "TxDone"} /\ onAir \in Metrics
        /\ pc \in {"app"} \cup Steps /\ got \subseteq IrqFlags
        /\ txActive \in BOOLEAN /\ polling \in BOOLEAN /\ strayed \in BOOLEAN
    BY DEF Init, Metrics
  <1>5. /\ ptr \in 0 .. Fifo - 1 /\ markers \in 0 .. MaxMarkers
        /\ bad \subseteq Packets /\ ended \subseteq Packets
        /\ sends \in 0 .. MaxSends /\ faults \in 0 .. MaxFaults
    BY DEF Init
  <1>6. Newest
    BY DEF Init, Newest
  <1>. QED
    BY <1>1, <1>2, <1>3, <1>4, <1>5, <1>6 DEF Init, TypeInv, TypeOK

(* Chip, driver and deliveries keep their types, whatever the timing.        *)
THEOREM TypeCorrect == Spec => []TypeOK
  <1>1. TypeInv => TypeOK
    BY DEF TypeInv
  <1>. QED
    BY <1>1, TypeInit, TypeStep, PTL DEF Spec

---------------------------------------------------------------------------
(* What the chip's registers and the FIFO hold of the last packet            *)

(* The registers are about one packet, older than the one on the air.         *)
LastPacket == /\ onAir # NoPacket => last.rssi < onAir
              /\ last.snr = last.rssi /\ last.rssi <= Len(lens)
              /\ last.nb > 0 => last.rssi # NoPacket
              /\ last.rssi # NoPacket => last.nb = lens[last.rssi]
              /\ Unread => last.rssi # NoPacket
              /\ bad \subseteq 1 .. Len(lens)

(* RxDone without CrcError, in the chip or read, is a packet received well:   *)
(* flags of two packets do not mix before they are read.                     *)
GoodCrc == /\ "RxDone" \in flags /\ "CrcError" \notin flags => last.rssi \notin bad
           /\ "RxDone" \in got /\ "CrcError" \notin got => last.rssi \notin bad

(* Its bytes are where the registers say, unless a payload of ours has met    *)
(* them: not while both keep to their halves.                                *)
InFifo == \A i \in 0 .. last.nb - 1 :
            fifo[Cell(last.addr, i)] \in {<<last.rssi, i>>, Ours}
Untouched == Apart => \A i \in 0 .. last.nb - 1 :
                        fifo[Cell(last.addr, i)] = <<last.rssi, i>>
InItsHalf == ~strayed /\ last.nb > 0 => last.addr >= Half /\ last.addr + last.nb <= Fifo

(* The flags a round has read: a packet is read only if it is in them.        *)
Gots == /\ pc \in {"app", "loop", "flags"} => got = {}
        /\ pc \in ReadSteps => "RxDone" \in got /\ "CrcError" \notin got

Chips == LastPacket /\ GoodCrc /\ InFifo /\ Untouched /\ InItsHalf

LEMMA LastTypes == TypeInv => /\ last.rssi \in Nat /\ last.nb \in 0 .. Fifo - 1
                              /\ last.addr \in 0 .. Fifo - 1 /\ Len(lens) \in Nat
  <1>. SUFFICES ASSUME TypeInv
                PROVE  /\ last.rssi \in Nat /\ last.nb \in 0 .. Fifo - 1
                       /\ last.addr \in 0 .. Fifo - 1 /\ Len(lens) \in Nat
    OBVIOUS
  <1>1. last \in Registers /\ Len(lens) \in Nat
    BY LensType DEF TypeInv, TypeOK
  <1>2. Metrics \subseteq Nat
    BY DEF Metrics, Packets, NoPacket
  <1>. QED
    BY <1>1, <1>2 DEF Registers

LEMMA CellOfLast ==
  ASSUME TypeInv, NEW i \in 0 .. last.nb - 1
  PROVE  /\ Cell(last.addr, i) \in 0 .. Fifo - 1
         /\ last.addr + last.nb <= Fifo => Cell(last.addr, i) = last.addr + i
  <1>1. /\ last.nb \in 0 .. Fifo - 1 /\ last.addr \in 0 .. Fifo - 1
        /\ i \in 0 .. Fifo - 1 /\ i < last.nb
    BY LastTypes
  <1>2. /\ Cell(last.addr, i) \in 0 .. Fifo - 1
        /\ Cell(last.addr, i) = IF last.addr + i < Fifo THEN last.addr + i
                                                        ELSE last.addr + i - Fifo
    BY <1>1, CellValue
  <1>. QED
    BY <1>1, <1>2

(* A step that leaves the registers, the FIFO and the packets alone, and of   *)
(* the flags no RxDone and no CrcError behind.                               *)
ChipRests == /\ UNCHANGED <<last, fifo, lens, bad, sends, strayed>>
             /\ onAir' \in {NoPacket, onAir}
             /\ "RxDone" \in flags' => /\ "RxDone" \in flags
                                       /\ "CrcError" \in flags => "CrcError" \in flags'
             /\ got' \in {got, {}, flags}

LEMMA RestKeeps == Chips /\ ChipRests => Chips'
  <1>. SUFFICES ASSUME Chips, ChipRests PROVE Chips'
    OBVIOUS
  <1>1. Unread' => Unread
    BY DEF ChipRests, Unread
  <1>2. LastPacket'
    BY <1>1 DEF Chips, LastPacket, ChipRests
  <1>3. GoodCrc'
    BY DEF Chips, GoodCrc, ChipRests
  <1>4. (InFifo /\ Untouched /\ InItsHalf)'
    BY DEF Chips, InFifo, Untouched, InItsHalf, ChipRests, Apart
  <1>. QED
    BY <1>2, <1>3, <1>4 DEF Chips

LEMMA HeaderKeeps == TypeInv /\ Chips /\ Chip /\ ChipHeader => Chips'
  <1>. SUFFICES ASSUME TypeInv, Chips, Chip, ChipHeader PROVE Chips'
    OBVIOUS
  <1>1. PICK n \in RxLens : lens' = Append(lens, n)
    BY DEF ChipHeader
  <1>2. /\ Len(lens) \in Nat /\ Len(lens') = Len(lens) + 1
        /\ \A p \in 1 .. Len(lens) : lens'[p] = lens[p]
    BY <1>1, AppendProperties, LenProperties DEF TypeInv, TypeOK
  <1>3. /\ onAir' = Len(lens) + 1 /\ last' = last /\ got' = got /\ fifo' = fifo
        /\ strayed' = strayed /\ sends' = sends
        /\ flags' = flags \cup {"Header"} /\ bad' \in {bad, bad \cup {onAir'}}
    BY DEF ChipHeader, Chip
  <1>4. Unread' => Unread
    BY <1>3 DEF Unread
  <1>5. last.rssi \in Nat
    BY LastTypes
  <1>6. LastPacket'
    <2>1. last.rssi # NoPacket => last.rssi \in 1 .. Len(lens)
      BY <1>2, <1>5 DEF Chips, LastPacket, NoPacket
    <2>2. bad' \subseteq 1 .. Len(lens')
      BY <1>2, <1>3 DEF Chips, LastPacket
    <2>3. last'.rssi <= Len(lens') /\ last'.rssi < onAir'
      BY <1>2, <1>3, <1>5 DEF Chips, LastPacket
    <2>. QED
      BY <1>2, <1>3, <1>4, <2>1, <2>2, <2>3 DEF Chips, LastPacket
  <1>7. GoodCrc'
    <2>1. last.rssi # onAir'
      BY <1>2, <1>3, <1>5 DEF Chips, LastPacket
    <2>. QED
      BY <1>3, <2>1 DEF Chips, GoodCrc
  <1>8. (InFifo /\ Untouched /\ InItsHalf)'
    BY <1>3 DEF Chips, InFifo, Untouched, InItsHalf, Apart
  <1>. QED
    BY <1>6, <1>7, <1>8 DEF Chips

LEMMA EndKeeps == Prompt /\ TypeInv /\ Chips /\ Chip /\ ChipEnds => Chips'
  <1>. SUFFICES ASSUME Prompt, TypeInv, Chips, Chip, ChipEnds PROVE Chips'
    OBVIOUS
  <1>. DEFINE n == lens[onAir]
  <1>1. /\ onAir = Len(lens) /\ onAir \in Nat \ {0} /\ n \in 0 .. Fifo - 1
        /\ rxAt \in 0 .. Fifo - 1
    BY LensType, SMTT(30)
    DEF TypeInv, TypeOK, Newest, ChipEnds, Metrics, Packets, NoPacket
  <1>2. /\ last' = [addr |-> rxAt, nb |-> n, rssi |-> onAir, snr |-> onAir]
        /\ onAir' = NoPacket /\ lens' = lens /\ bad' = bad /\ sends' = sends
        /\ "RxDone" \in flags' /\ (onAir \in bad => "CrcError" \in flags')
        /\ "RxDone" \notin got /\ got' = got
        /\ strayed' = (strayed \/ (n > 0 /\ ~(rxAt >= Half /\ rxAt + n <= Fifo)))
    BY DEF ChipEnds, Chip, Unread
  <1>3. LastPacket'
    BY <1>1, <1>2 DEF Chips, LastPacket, NoPacket
  <1>4. GoodCrc'
    BY <1>2 DEF GoodCrc
  <1>5. ASSUME NEW i \in 0 .. n - 1 PROVE fifo'[Cell(rxAt, i)] = <<onAir, i>>
    <2>0. i \in 0 .. Fifo - 1 /\ i < n
      BY <1>1
    <2>1. Cell(rxAt, i) \in 0 .. Fifo - 1 /\ Position(Cell(rxAt, i), rxAt) = i
      BY <1>1, <2>0, CellValue, PositionOfCell
    <2>2. fifo' = [c \in 0 .. Fifo - 1 |->
                     IF Position(c, rxAt) < lens[onAir] THEN <<onAir, Position(c, rxAt)>>
                                                        ELSE fifo[c]]
      BY DEF ChipEnds, Position
    <2>. QED
      BY <2>0, <2>1, <2>2
  <1>6. InFifo' /\ Untouched'
    BY <1>2, <1>5 DEF InFifo, Untouched
  <1>7. InItsHalf'
    BY <1>2 DEF InItsHalf
  <1>. QED
    BY <1>3, <1>4, <1>6, <1>7 DEF Chips

LEMMA SendKeeps == TypeInv /\ Chips /\ Send => Chips'
  <1>. SUFFICES ASSUME TypeInv, Chips, Send PROVE Chips'
    OBVIOUS
  <1>1. PICK n \in TxLens :
          /\ fifo' = [c \in 0 .. Fifo - 1 |-> IF c < n THEN Ours ELSE fifo[c]]
          /\ strayed' = (strayed \/ n > Half)
    BY DEF Send
  <1>2. /\ last' = last /\ onAir' = NoPacket /\ lens' = lens /\ bad' = bad
        /\ sends' = sends + 1 /\ flags' = flags /\ got' = got
    BY DEF Send
  <1>3. LastPacket' /\ GoodCrc'
    BY <1>2 DEF Chips, LastPacket, GoodCrc, Unread, NoPacket
  <1>4. InFifo'
    <2>1. ASSUME NEW i \in 0 .. last.nb - 1
          PROVE  fifo'[Cell(last.addr, i)] \in {<<last.rssi, i>>, Ours}
      BY <1>1, CellOfLast DEF Chips, InFifo
    <2>. QED
      BY <1>2, <2>1 DEF InFifo
  <1>5. Apart' => Apart /\ ~strayed /\ n <= Half
    <2>1. sends' # 0 /\ strayed \in BOOLEAN /\ n \in Nat
      BY <1>2 DEF TypeInv, TypeOK
    <2>2. Apart' => ~strayed'
      BY <2>1 DEF Apart
    <2>3. ~strayed' => ~strayed /\ ~(n > Half)
      BY <1>1, <2>1
    <2>. QED
      BY <2>1, <2>2, <2>3, HalfValue DEF Apart
  <1>6. Untouched'
    <2>1. ASSUME Apart', NEW i \in 0 .. last.nb - 1
          PROVE  fifo'[Cell(last.addr, i)] = <<last.rssi, i>>
      <3>1. /\ last.addr \in 0 .. Fifo - 1 /\ last.nb \in 0 .. Fifo - 1 /\ last.nb > 0
            /\ n \in 1 .. Fifo - 1
        BY <2>1, LastTypes
      <3>2. last.addr >= Half /\ last.addr + last.nb <= Fifo
        BY <1>5, <2>1, <3>1 DEF Chips, InItsHalf
      <3>3. Cell(last.addr, i) = last.addr + i /\ Cell(last.addr, i) \in 0 .. Fifo - 1
        BY <3>2, CellOfLast
      <3>4. ~(Cell(last.addr, i) < n)
        BY <1>5, <2>1, <3>1, <3>2, <3>3, HalfValue
      <3>5. fifo[Cell(last.addr, i)] = <<last.rssi, i>>
        BY <1>5, <2>1 DEF Chips, Untouched
      <3>. QED
        BY <1>1, <3>3, <3>4, <3>5
    <2>. QED
      BY <1>2, <2>1 DEF Untouched
  <1>7. InItsHalf'
    BY <1>1, <1>2 DEF Chips, InItsHalf
  <1>. QED
    BY <1>3, <1>4, <1>6, <1>7 DEF Chips

LEMMA OthersRest ==
  ASSUME \/ Chip /\ ChipTxDone
         \/ StartReceive \/ Poll \/ ProcessEvents \/ Fails
         \/ UNCHANGED vars
  PROVE  ChipRests
  <1>. USE DEF ChipRests, chipVars, history
  <1>1. Chip /\ ChipTxDone => ChipRests
    BY DEF Chip, ChipTxDone
  <1>2. StartReceive \/ Poll => ChipRests
    BY DEF StartReceive, Poll
  <1>3. LoopTest \/ ReadFlags \/ ClearFlags \/ SetPtr => ChipRests
    BY DEF LoopTest, ReadFlags, ClearFlags, SetPtr
  <1>4. ReadRssi \/ ReadSnr \/ ReadAddr \/ ReadNb => ChipRests
    BY DEF ReadRssi, ReadSnr, ReadAddr, ReadNb, ReadRegister
  <1>5. Deliver \/ TxDoneEvent \/ Fails => ChipRests
    BY DEF Deliver, TxDoneEvent, Fails
  <1>6. UNCHANGED vars => ChipRests
    BY DEF vars
  <1>. QED
    BY <1>1, <1>2, <1>3, <1>4, <1>5, <1>6 DEF ProcessEvents

LEMMA ChipsStep == Prompt /\ TypeInv /\ Chips /\ [Next]_vars => Chips'
  <1>. SUFFICES ASSUME Prompt, TypeInv, Chips, [Next]_vars PROVE Chips'
    OBVIOUS
  <1>1. CASE Chip
    <2>1. ChipHeader \/ ChipEnds \/ ChipTxDone
      BY <1>1 DEF Chip
    <2>. QED
      BY <1>1, <2>1, HeaderKeeps, EndKeeps, OthersRest, RestKeeps
  <1>2. CASE Send
    BY <1>2, SendKeeps
  <1>3. CASE StartReceive \/ Poll \/ ProcessEvents \/ Fails \/ UNCHANGED vars
    BY <1>3, OthersRest, RestKeeps
  <1>. QED
    BY <1>1, <1>2, <1>3 DEF Next

---------------------------------------------------------------------------
(* What process_events() has read of it                                      *)

(* A metric is the packet's, or was not read because its transfer failed.     *)
Own == IF faults = MaxFaults THEN {last.rssi} ELSE {last.rssi, NoPacket}

(* The packet cannot change while it is read: its RxDone is in got.           *)
ReadSoFar == /\ pc \notin (ReadSteps \ {"rssi"}) \cup {"txdone"} => read = Nothing
             /\ pc \in ReadSteps \ {"rssi"} => read.rssi \in Own
             /\ pc = "snr" => read.snr = NoPacket
             /\ pc \in {"addr", "nb", "ptr", "burst"} => read.snr \in Own
             /\ pc \in {"nb", "ptr", "burst"} => read.addr = last.addr
             /\ pc \in {"ptr", "burst"} => read.nb = last.nb /\ last.nb > 0
             /\ pc = "burst" => ptr = read.addr

Round == Gots /\ ReadSoFar

(* Calls of the application, and the chip while a packet is read.             *)
LEMMA RoundRests ==
  ASSUME TypeInv, Round, UNCHANGED <<pc, got, read, faults>>,
         pc \in ReadSteps => UNCHANGED <<last, ptr>>
  PROVE  Round'
  <1>1. Gots'
    BY DEF Round, Gots
  <1>2. ReadSoFar'
    BY DEF Round, ReadSoFar, Own, ReadSteps
  <1>. QED
    BY <1>1, <1>2 DEF Round

LEMMA RoundChip == Prompt /\ TypeInv /\ Round /\ Chip => Round'
  <1>. SUFFICES ASSUME Prompt, TypeInv, Round, Chip PROVE Round'
    OBVIOUS
  <1>1. UNCHANGED <<pc, got, read, faults>>
    BY DEF Chip, bounds
  <1>2. ASSUME pc \in ReadSteps PROVE UNCHANGED <<last, ptr>>
    <2>1. ~ChipEnds
      BY <1>2 DEF Round, Gots, ChipEnds, Unread
    <2>. QED
      BY <2>1 DEF Chip, ChipHeader, ChipTxDone
  <1>. QED
    BY <1>1, <1>2, RoundRests

LEMMA RoundApp == TypeInv /\ Round /\ (Send \/ StartReceive) => Round'
  <1>. SUFFICES ASSUME TypeInv, Round, Send \/ StartReceive PROVE Round'
    OBVIOUS
  <1>1. UNCHANGED <<pc, got, read, faults>> /\ pc \notin ReadSteps
    BY DEF Send, StartReceive, bounds, ReadSteps
  <1>. QED
    BY <1>1, RoundRests

(* The faults left only decrease.                                            *)
LEMMA OwnKeeps ==
  ASSUME TypeInv, last' = last, faults' \in {faults, faults - 1}, faults' >= 0
  PROVE  Own \subseteq Own'
  BY DEF TypeInv, TypeOK, Own

LEMMA RoundStep ==
  TypeInv /\ Chips /\ Round /\ (Poll \/ ProcessEvents \/ Fails) => Round'
  <1>. SUFFICES ASSUME TypeInv, Chips, Round, Poll \/ ProcessEvents \/ Fails
                PROVE  Round'
    OBVIOUS
  <1>. USE DEF Round, Gots, ReadSoFar, ReadSteps, Step
  <1>0. /\ last.snr = last.rssi /\ read \in Registers /\ last.rssi \in Own
    BY DEF Chips, LastPacket, TypeInv, TypeOK, Own
  <1>1. CASE Poll
    BY <1>1 DEF Poll, Own, chipVars, bounds
  <1>2. CASE LoopTest \/ ReadFlags
    BY <1>2 DEF LoopTest, ReadFlags, Own, chipVars, bounds
  <1>3. CASE ClearFlags
    BY <1>3 DEF ClearFlags, Handled, Own, bounds
  <1>4. CASE ReadRssi
    BY <1>0, <1>4 DEF ReadRssi, ReadRegister, Own, chipVars, bounds, Registers, Nothing
  <1>5. CASE ReadSnr
    BY <1>0, <1>5 DEF ReadSnr, ReadRegister, Own, chipVars, bounds, Registers
  <1>6. CASE ReadAddr
    BY <1>0, <1>6 DEF ReadAddr, ReadRegister, Own, chipVars, bounds, Registers
  <1>7. CASE ReadNb
    BY <1>0, <1>7, LastTypes DEF ReadNb, ReadRegister, Own, chipVars, bounds, Registers
  <1>8. CASE SetPtr
    BY <1>8 DEF SetPtr, Own, bounds
  <1>9. CASE Deliver \/ TxDoneEvent
    BY <1>9 DEF Deliver, TxDoneEvent, bounds
  <1>10. CASE Fails
    <2>1. /\ UNCHANGED <<last, ptr, got, read>> /\ pc' = Failed
          /\ NoPacket \in Own' /\ Own \subseteq Own'
      <3>1. UNCHANGED <<last, ptr, got, read>> /\ pc' = Failed /\ faults' = faults - 1
            /\ faults > 0
        BY <1>10 DEF Fails, chipVars
      <3>. QED
        BY <3>1 DEF Own, TypeInv, TypeOK
    <2>. QED
      BY <1>0, <1>10, <2>1 DEF Fails, Failed, Handled, Nothing
  <1>. QED
    BY <1>1, <1>2, <1>3, <1>4, <1>5, <1>6, <1>7, <1>8, <1>9, <1>10 DEF ProcessEvents

LEMMA EachRound == Prompt /\ TypeInv /\ Chips /\ Round /\ [Next]_vars => Round'
  <1>1. Round /\ UNCHANGED vars => Round'
    BY DEF Round, Gots, ReadSoFar, Own, vars, chipVars, bounds
  <1>. QED
    BY <1>1, RoundChip, RoundApp, RoundStep DEF Next

PromptInv == TypeInv /\ Chips /\ Round

LEMMA PromptStep == Prompt /\ PromptInv /\ [Next]_vars => PromptInv'
  BY TypeStep, ChipsStep, EachRound DEF PromptInv

LEMMA PromptInit == Init => PromptInv
  <1>. SUFFICES ASSUME Init PROVE PromptInv
    OBVIOUS
  <1>1. Len(lens) = 0
    BY EmptySeq DEF Init
  <1>2. LastPacket
    BY <1>1 DEF Init, LastPacket, Nothing, Unread, NoPacket
  <1>3. GoodCrc /\ InFifo /\ Untouched /\ InItsHalf
    BY DEF Init, GoodCrc, InFifo, Untouched, InItsHalf, Nothing
  <1>4. Round
    BY DEF Init, Round, Gots, ReadSoFar, ReadSteps
  <1>. QED
    BY <1>2, <1>3, <1>4, TypeInit DEF PromptInv, Chips

LEMMA PromptAlways == ASSUME Prompt PROVE Spec => []PromptInv
  BY PromptInit, PromptStep, PTL DEF Spec

---------------------------------------------------------------------------
(* What is delivered                                                         *)

(* A delivery made of packet p, of n bytes, with f failing transfers left.    *)
Made(r, p, n, f) == /\ r.bytes = [i \in 1 .. n |-> <<p, i - 1>>]
                    /\ {r.rssi, r.snr} \subseteq
                         (IF f = MaxFaults THEN {p} ELSE {p, NoPacket})

Arrived == (1 .. Len(lens)) \ bad

MadeAll == \A i \in Delivery : \E p \in Arrived : Made(log[i], p, lens[p], faults)

LEMMA IntactIsMade == Intact <=> MadeAll
  BY DEF Intact, MadeAll, Made, Arrived, Bytes

(* What has arrived stays as it was. *)
LEMMA PacketsStay ==
  ASSUME TypeInv, Chips, [Next]_vars
  PROVE  /\ Arrived \subseteq Arrived'
         /\ \A p \in Arrived : lens'[p] = lens[p]
  <1>1. CASE ChipHeader
    <2>1. PICK n \in RxLens : lens' = Append(lens, n)
      BY <1>1 DEF ChipHeader
    <2>2. /\ Len(lens) \in Nat /\ Len(lens') = Len(lens) + 1
          /\ \A p \in 1 .. Len(lens) : lens'[p] = lens[p]
      BY <2>1, AppendProperties, LenProperties DEF TypeInv, TypeOK
    <2>3. bad' \subseteq bad \cup {Len(lens) + 1}
      BY <1>1 DEF ChipHeader
    <2>. QED
      BY <2>2, <2>3 DEF Arrived
  <1>2. CASE ~ChipHeader
    <2>1. UNCHANGED <<lens, bad>>
      <3>. USE DEF chipVars, history
      <3>1. Chip => UNCHANGED <<lens, bad>>
        BY <1>2 DEF Chip, ChipEnds, ChipTxDone
      <3>2. Send \/ StartReceive \/ Poll => UNCHANGED <<lens, bad>>
        BY DEF Send, StartReceive, Poll
      <3>3. LoopTest \/ ReadFlags \/ ClearFlags \/ SetPtr => UNCHANGED <<lens, bad>>
        BY DEF LoopTest, ReadFlags, ClearFlags, SetPtr
      <3>4. ReadRssi \/ ReadSnr \/ ReadAddr \/ ReadNb => UNCHANGED <<lens, bad>>
        BY DEF ReadRssi, ReadSnr, ReadAddr, ReadNb, ReadRegister
      <3>5. Deliver \/ TxDoneEvent \/ Fails => UNCHANGED <<lens, bad>>
        BY DEF Deliver, TxDoneEvent, Fails
      <3>6. UNCHANGED vars => UNCHANGED <<lens, bad>>
        BY DEF vars
      <3>. QED
        BY <3>1, <3>2, <3>3, <3>4, <3>5, <3>6 DEF Next, ProcessEvents
    <2>. QED
      BY <2>1 DEF Arrived
  <1>. QED
    BY <1>1, <1>2

LEMMA FaultsStep == [Next]_vars => faults' = faults \/ faults' = faults - 1
  <1>. USE DEF bounds
  <1>1. Chip \/ Send \/ StartReceive \/ Poll => faults' = faults
    BY DEF Chip, Send, StartReceive, Poll
  <1>2. ProcessEvents => faults' = faults
    BY DEF ProcessEvents, LoopTest, ReadFlags, ClearFlags, SetPtr, ReadRssi, ReadSnr,
           ReadAddr, ReadNb, ReadRegister, Deliver, TxDoneEvent
  <1>. QED
    BY <1>1, <1>2 DEF Next, Fails, vars

LEMMA MadeStays ==
  ASSUME TypeInv, TypeInv', Chips, [Next]_vars, NEW r, NEW p \in Arrived,
         Made(r, p, lens[p], faults)
  PROVE  p \in Arrived' /\ Made(r, p, lens'[p], faults')
  <1>1. p \in Arrived' /\ lens'[p] = lens[p]
    BY PacketsStay
  <1>2. faults' = MaxFaults => faults = MaxFaults
    <2>1. faults \in 0 .. MaxFaults /\ faults' \in 0 .. MaxFaults
      BY DEF TypeInv, TypeOK
    <2>2. faults' = faults \/ faults' = faults - 1
      BY FaultsStep
    <2>. QED
      BY <2>1, <2>2
  <1>. QED
    BY <1>1, <1>2 DEF Made

(* Only Deliver calls on_receive(). *)
LEMMA LogStays == [Next]_vars => log' = log \/ Deliver
  <1>. USE DEF history
  <1>1. Chip \/ Send \/ StartReceive \/ Poll \/ Fails => log' = log
    BY DEF Chip, ChipHeader, ChipEnds, ChipTxDone, Send, StartReceive, Poll, Fails
  <1>2. ProcessEvents => log' = log \/ Deliver
    BY DEF ProcessEvents, LoopTest, ReadFlags, ClearFlags, SetPtr, ReadRssi, ReadSnr,
           ReadAddr, ReadNb, ReadRegister, TxDoneEvent
  <1>. QED
    BY <1>1, <1>2 DEF Next, vars

Delivered == [bytes |-> [i \in 1 .. last.nb |-> fifo[Cell(last.addr, i - 1)]],
              rssi |-> read.rssi, snr |-> read.snr]

LEMMA LastDelivered ==
  ASSUME PromptInv, Deliver
  PROVE  /\ log' = Append(log, Delivered)
         /\ last.nb \in 1 .. Fifo - 1 /\ last.rssi \in Arrived
         /\ {read.rssi, read.snr} \subseteq Own
  <1>1. pc = "burst" /\ read.nb = last.nb /\ last.nb > 0 /\ ptr = last.addr
    BY DEF Deliver, Step, PromptInv, Round, ReadSoFar, ReadSteps
  <1>2. log' = Append(log, Delivered)
    BY <1>1 DEF Deliver, Delivered
  <1>3. last.nb \in 1 .. Fifo - 1 /\ last.rssi \in Nat /\ Len(lens) \in Nat
    BY <1>1, LastTypes DEF PromptInv
  <1>4. last.rssi \in Arrived
    <2>1. last.rssi # 0 /\ last.rssi <= Len(lens)
      BY <1>1 DEF PromptInv, Chips, LastPacket, NoPacket
    <2>2. last.rssi \notin bad
      BY <1>1 DEF PromptInv, Chips, GoodCrc, Round, Gots, ReadSteps
    <2>. QED
      BY <1>3, <2>1, <2>2 DEF Arrived
  <1>5. {read.rssi, read.snr} \subseteq Own
    BY <1>1 DEF PromptInv, Round, ReadSoFar, ReadSteps
  <1>. QED
    BY <1>2, <1>3, <1>4, <1>5

LEMMA DeliveredIsMade ==
  ASSUME PromptInv, Deliver, Apart
  PROVE  Made(Delivered, last.rssi, lens[last.rssi], faults)
  <1>1. last.nb \in 1 .. Fifo - 1 /\ last.nb = lens[last.rssi]
    BY LastDelivered DEF PromptInv, Chips, LastPacket
  <1>2. \A i \in 1 .. last.nb : fifo[Cell(last.addr, i - 1)] = <<last.rssi, i - 1>>
    <2>1. \A i \in 1 .. last.nb : i - 1 \in 0 .. last.nb - 1
      BY <1>1
    <2>. QED
      BY <2>1 DEF PromptInv, Chips, Untouched
  <1>3. Delivered.bytes = [i \in 1 .. lens[last.rssi] |-> <<last.rssi, i - 1>>]
    BY <1>1, <1>2 DEF Delivered
  <1>4. {Delivered.rssi, Delivered.snr} \subseteq Own
    BY LastDelivered DEF Delivered
  <1>. QED
    BY <1>3, <1>4 DEF Made, Own

LEMMA ApartBefore == TypeInv /\ [Next]_vars /\ Apart' => Apart
  <1>. SUFFICES ASSUME TypeInv, [Next]_vars PROVE Apart' => Apart
    OBVIOUS
  <1>. USE DEF Apart
  <1>0. UNCHANGED <<sends, strayed>> => (Apart' => Apart)
    OBVIOUS
  <1>1. CASE ChipEnds
    BY <1>1 DEF ChipEnds, TypeInv, TypeOK
  <1>2. CASE Send
    <2>1. sends' # 0 /\ (strayed => strayed')
      BY <1>2 DEF Send, TypeInv, TypeOK
    <2>. QED
      BY <2>1
  <1>3. CASE ~ChipEnds /\ ~Send
    <2>. USE DEF chipVars, history
    <2>1. Chip \/ StartReceive \/ Poll \/ Fails => UNCHANGED <<sends, strayed>>
      BY <1>3 DEF Chip, ChipHeader, ChipTxDone, StartReceive, Poll, Fails
    <2>2. ProcessEvents => UNCHANGED <<sends, strayed>>
      BY DEF ProcessEvents, LoopTest, ReadFlags, ClearFlags, SetPtr, ReadRssi, ReadSnr,
             ReadAddr, ReadNb, ReadRegister, Deliver, TxDoneEvent
    <2>. QED
      BY <1>0, <1>3, <2>1, <2>2 DEF Next, vars
  <1>. QED
    BY <1>1, <1>2, <1>3

LEMMA Appended ==
  ASSUME PromptInv, Deliver
  PROVE  /\ Len(log) \in Nat /\ Len(log') = Len(log) + 1
         /\ \A i \in 1 .. Len(log) : log'[i] = log[i]
         /\ log'[Len(log) + 1] = Delivered
  <1>1. log \in Seq(Deliveries) /\ Len(log) \in Nat
    BY LenProperties DEF PromptInv, TypeInv, TypeOK
  <1>2. log' = Append(log, Delivered) /\ log' \in Seq(Deliveries)
    BY LastDelivered, DeliverTyped DEF PromptInv
  <1>. QED
    BY <1>1, <1>2

LEMMA WholeStep == PromptInv /\ PromptInv' /\ Whole /\ [Next]_vars => Whole'
  <1>. SUFFICES ASSUME PromptInv, PromptInv', Whole, [Next]_vars, Apart'
                PROVE  MadeAll'
    <2>1. (Intact <=> MadeAll)'
      BY IntactIsMade, PTL
    <2>. QED
      BY <2>1 DEF Whole
  <1>1. Apart /\ MadeAll
    BY ApartBefore, IntactIsMade DEF Whole, PromptInv
  <1>2. ASSUME NEW i \in Delivery
        PROVE  \E p \in Arrived' : Made(log[i], p, lens'[p], faults')
    <2>1. PICK p \in Arrived : Made(log[i], p, lens[p], faults)
      BY <1>1 DEF MadeAll
    <2>2. p \in Arrived' /\ Made(log[i], p, lens'[p], faults')
      BY <2>1, MadeStays DEF PromptInv
    <2>. QED
      BY <2>2
  <1>3. CASE log' = log
    BY <1>2, <1>3 DEF Delivery, MadeAll
  <1>4. CASE Deliver
    <2>1. last.rssi \in Arrived /\ Made(Delivered, last.rssi, lens[last.rssi], faults)
      BY <1>1, <1>4, LastDelivered, DeliveredIsMade
    <2>2. /\ last.rssi \in Arrived'
          /\ Made(Delivered, last.rssi, lens'[last.rssi], faults')
      BY <2>1, MadeStays DEF PromptInv
    <2>3. ASSUME NEW i \in Delivery'
          PROVE  \E p \in Arrived' : Made(log'[i], p, lens'[p], faults')
      <3>1. CASE i \in 1 .. Len(log)
        BY <1>2, <1>4, <3>1, Appended DEF Delivery
      <3>2. CASE i \notin 1 .. Len(log)
        <4>1. i = Len(log) + 1
          BY <1>4, <2>3, <3>2, Appended DEF Delivery
        <4>. QED
          BY <1>4, <2>2, <4>1, Appended
      <3>. QED
        BY <3>1, <3>2
    <2>. QED
      BY <2>3 DEF MadeAll
  <1>. QED
    BY <1>3, <1>4, LogStays

(* As long as no packet has left its half of the FIFO or nothing is sent, and *)
(* a packet is read before the next one ends, on_receive() gets one good       *)
(* packet, all of it, with its own metrics: Whole.                            *)
THEOREM DeliveriesAreWhole == ASSUME Prompt PROVE Spec => []Whole
  <1>1. Init => Whole
    BY EmptySeq DEF Init, Whole, Intact, Delivery
  <1>. QED
    BY <1>1, WholeStep, PromptAlways, PTL DEF Spec

---------------------------------------------------------------------------
(* How often a packet is delivered                                           *)

(* A RxDone that will be answered by a delivery. *)
Owed == "RxDone" \in flags \/ (pc \in {"clear"} \cup ReadSteps /\ "RxDone" \in got)

(* The deliveries so far are of the last packet and older ones; of the last   *)
(* one only once its RxDone has been answered, and cleared before that.       *)
OnceInv == faults = MaxFaults =>
  /\ \A i \in Delivery : Source(i) \in 0 .. last.rssi
  /\ Owed => \A i \in Delivery : Source(i) # last.rssi
  /\ pc \in ReadSteps \cup {"txdone"} /\ "RxDone" \in got => "RxDone" \notin flags
  /\ \A i, j \in Delivery : Source(i) = Source(j) /\ Source(i) # NoPacket => i = j

LEMMA SourceOfDelivered ==
  ASSUME PromptInv, Deliver
  PROVE  Delivered.bytes[1][1] \in {last.rssi, NoPacket}
  <1>1. last.nb \in 1 .. Fifo - 1
    BY LastDelivered
  <1>2. Delivered.bytes[1] = fifo[Cell(last.addr, 0)]
    BY <1>1 DEF Delivered
  <1>3. fifo[Cell(last.addr, 0)] \in {<<last.rssi, 0>>, Ours}
    BY <1>1 DEF PromptInv, Chips, InFifo
  <1>. QED
    BY <1>2, <1>3 DEF Ours

LEMMA OnceDeliver == PromptInv /\ OnceInv /\ Deliver => OnceInv'
  <1>. SUFFICES ASSUME PromptInv, OnceInv, Deliver, faults = MaxFaults
                PROVE  OnceInv'
    BY DEF OnceInv, Deliver, bounds
  <1>. DEFINE n == Len(log) + 1
  <1>1. /\ pc = "burst" /\ pc' = "txdone" /\ "RxDone" \in got /\ "RxDone" \notin flags
        /\ UNCHANGED <<flags, got, last, faults>>
    BY DEF Deliver, Step, PromptInv, Round, Gots, OnceInv, ReadSteps, bounds
  <1>2. Owed /\ ~Owed'
    BY <1>1 DEF Owed, ReadSteps
  <1>3. last.rssi \in Nat /\ last.rssi # NoPacket
    BY LastTypes, LastDelivered DEF PromptInv, Chips, LastPacket
  <1>4. /\ Delivery' = Delivery \cup {n} /\ n \notin Delivery
        /\ \A i \in Delivery : log'[i] = log[i]
        /\ log'[n] = Delivered
    BY Appended DEF Delivery
  <1>5. Delivered.bytes[1][1] \in {last.rssi, NoPacket}
    BY SourceOfDelivered
  <1>6. \A i \in Delivery : Source(i) \in 0 .. last.rssi /\ Source(i) # last.rssi
    BY <1>2 DEF OnceInv
  <1>. DEFINE src(i) == log'[i].bytes[1][1]
  <1>7. /\ \A i \in Delivery : src(i) = Source(i)
        /\ src(n) \in {last.rssi, NoPacket}
    BY <1>4, <1>5 DEF Source
  <1>8. \A i \in Delivery' : src(i) \in 0 .. last.rssi
    BY <1>3, <1>4, <1>6, <1>7 DEF NoPacket
  <1>9. \A i, j \in Delivery' : src(i) = src(j) /\ src(i) # NoPacket => i = j
    <2>1. \A i, j \in Delivery : Source(i) = Source(j) /\ Source(i) # NoPacket => i = j
      BY DEF OnceInv
    <2>. HIDE DEF src
    <2>. QED
      BY <1>4, <1>6, <1>7, <2>1
  <1>. QED
    BY <1>1, <1>2, <1>8, <1>9 DEF OnceInv, Source

LEMMA OnceEnds == Prompt /\ PromptInv /\ OnceInv /\ Chip /\ ChipEnds => OnceInv'
  <1>. SUFFICES ASSUME Prompt, PromptInv, OnceInv, Chip, ChipEnds, faults = MaxFaults
                PROVE  OnceInv'
    BY DEF OnceInv, Chip, bounds
  <1>1. /\ last'.rssi = onAir /\ last.rssi < onAir /\ onAir \in Nat
        /\ "RxDone" \notin got /\ UNCHANGED <<log, got, pc>>
    BY DEF ChipEnds, Chip, Unread, PromptInv, TypeInv, TypeOK, Metrics, Packets, NoPacket,
           Chips, LastPacket
  <1>2. last.rssi \in Nat
    BY LastTypes DEF PromptInv
  <1>3. \A i \in Delivery : Source(i) \in 0 .. onAir /\ Source(i) # onAir
    BY <1>1, <1>2 DEF OnceInv
  <1>. QED
    BY <1>1, <1>3 DEF OnceInv, Delivery, Source

(* Every other step leaves the deliveries and the last packet.                *)
OwesNoMore == /\ UNCHANGED <<log, last>>
              /\ faults' = MaxFaults => /\ faults = MaxFaults
                                        /\ Owed' => Owed
                                        /\ pc' \in ReadSteps \cup {"txdone"}
                                             /\ "RxDone" \in got' /\ "RxDone" \in flags'
                                             => pc \in ReadSteps \cup {"txdone"}
                                                  /\ "RxDone" \in got /\ "RxDone" \in flags

LEMMA OwesKeeps == OnceInv /\ OwesNoMore => OnceInv'
  BY DEF OnceInv, OwesNoMore, Delivery, Source

LEMMA ChipOwes == Chip /\ ~ChipEnds => OwesNoMore
  BY DEF Chip, ChipHeader, ChipTxDone, OwesNoMore, Owed, history, bounds

LEMMA AppOwes == Send \/ StartReceive \/ Poll => OwesNoMore
  BY DEF Send, StartReceive, Poll, OwesNoMore, Owed, ReadSteps, chipVars, history, bounds

LEMMA EventsOwe ==
  PromptInv /\ (ProcessEvents \/ Fails) /\ ~Deliver => OwesNoMore
  <1>. SUFFICES ASSUME PromptInv, ProcessEvents \/ Fails, ~Deliver PROVE OwesNoMore
    OBVIOUS
  <1>. USE DEF OwesNoMore, Owed, ReadSteps, Step, chipVars, history, bounds
  <1>1. CASE LoopTest
    BY <1>1 DEF LoopTest
  <1>2. CASE ReadFlags
    BY <1>2 DEF ReadFlags
  <1>3. CASE ClearFlags
    BY <1>3 DEF ClearFlags, Handled
  <1>4. CASE ReadRssi \/ ReadSnr \/ ReadAddr
    BY <1>4 DEF ReadRssi, ReadSnr, ReadAddr, ReadRegister
  <1>5. CASE ReadNb \/ SetPtr
    BY <1>5 DEF ReadNb, ReadRegister, SetPtr
  <1>6. CASE TxDoneEvent
    BY <1>6 DEF TxDoneEvent
  <1>7. CASE Fails
    <2>1. UNCHANGED <<log, last>> /\ faults' # MaxFaults
      BY <1>7 DEF Fails, PromptInv, TypeInv, TypeOK
    <2>. QED
      BY <2>1
  <1>. QED
    BY <1>1, <1>2, <1>3, <1>4, <1>5, <1>6, <1>7 DEF ProcessEvents

LEMMA OnceStep == Prompt /\ PromptInv /\ OnceInv /\ [Next]_vars => OnceInv'
  <1>. SUFFICES ASSUME Prompt, PromptInv, OnceInv, [Next]_vars PROVE OnceInv'
    OBVIOUS
  <1>1. CASE Chip
    BY <1>1, OnceEnds, ChipOwes, OwesKeeps
  <1>2. CASE Send \/ StartReceive \/ Poll
    BY <1>2, AppOwes, OwesKeeps
  <1>3. CASE ProcessEvents \/ Fails
    BY <1>3, OnceDeliver, EventsOwe, OwesKeeps
  <1>4. CASE UNCHANGED vars
    BY <1>4 DEF OnceInv, Owed, Delivery, Source, vars, chipVars, history, bounds
  <1>. QED
    BY <1>1, <1>2, <1>3, <1>4 DEF Next

(* As long as a packet is read before the next one ends and no transfer fails,*)
(* no packet is delivered twice, in neither mode: Once.                        *)
THEOREM DeliveredOnce == ASSUME Prompt PROVE Spec => []Once
  <1>1. Init => OnceInv
    BY EmptySeq DEF Init, OnceInv, Owed, Delivery, ReadSteps
  <1>2. OnceInv => Once
    BY DEF OnceInv, Once
  <1>. QED
    BY <1>1, <1>2, OnceStep, PromptAlways, PTL DEF Spec
=============================================================================
