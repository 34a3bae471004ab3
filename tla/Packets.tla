------------------------------ MODULE Packets ------------------------------
(***************************************************************************)
(* From the chip's FIFO to on_receive: what a delivery is made of.  The chip *)
(* has one set of registers for the last packet and one FIFO, which a packet *)
(* fills from where the last one ended and past its end into the half that   *)
(* transmissions use; the driver reads flags, metrics, address, length and   *)
(* bytes in transfers of their own.                                         *)
(*                                                                          *)
(* Prompt is the timing the driver is built for: a packet is read before the *)
(* next one ends.  Interrupts push markers as in Radio; IrqRing shows that   *)
(* the ring may be taken for a counter.                                     *)
(***************************************************************************)
EXTENDS Integers, Sequences

CONSTANTS
  Fifo,         \* bytes of FIFO; reception starts at half of it
  RxLens,       \* lengths of received packets
  TxLens,       \* lengths send() is given
  MaxPackets,   \* packets received in a behaviour
  MaxSends,     \* calls of send() in a behaviour
  MaxMarkers,   \* capacity of the ring
  MaxFaults,    \* failing SPI transfers in a behaviour
  Modes,        \* the values of polling_mode, chosen at the start
  Prompt        \* whether a packet is read before the next one ends

ASSUME SizeAssumption == /\ Fifo \in Nat \ {0} /\ Fifo % 2 = 0
                         /\ RxLens \subseteq 0 .. Fifo - 1
                         /\ TxLens \subseteq 1 .. Fifo - 1
ASSUME BoundsAssumption == /\ {MaxPackets, MaxSends, MaxMarkers, MaxFaults} \subseteq Nat
                           /\ MaxMarkers > 0
ASSUME SwitchAssumption == Modes \subseteq BOOLEAN /\ Prompt \in BOOLEAN

VARIABLES
  mode, flags, dio0,  \* chip: RegOpMode, RegIrqFlags, the flag on DIO0
  fifo, ptr,          \* chip: the FIFO, RegFifoAddrPtr
  rxAt,               \* chip: where the next packet goes
  last,               \* chip: RegFifoRxCurrentAddr, RegRxNbBytes, packet RSSI and SNR
  onAir,              \* chip: the packet it is receiving, or NoPacket
  markers,            \* driver: irq_head_ - irq_tail_
  txActive,           \* driver: tx_in_progress_
  pc, got, read,      \* thread: place, its flags, what it has read of a packet
  polling,            \* LoRaConfig: polling_mode
  lens, bad,          \* environment: each packet's length, the corrupted ones
  sends, faults,      \* bounds
  log, ended,         \* history: deliveries; good packets that have ended
  strayed             \* history: a packet, sent or received, has left its half

chipVars == <<mode, flags, dio0, fifo, ptr, rxAt, last, onAir>>
history == <<lens, bad, sends, log, ended, strayed>>
bounds == <<faults, polling>>
vars == <<chipVars, markers, txActive, pc, got, read, history, bounds>>

Packets == 1 .. MaxPackets
NoPacket == 0         \* also: a metric that was not read
Ours == <<NoPacket, 0>>   \* a byte of a payload of ours
Cells == {Ours} \cup (Packets \X (0 .. Fifo - 1))
IrqFlags == {"RxDone", "CrcError", "Header", "TxDone"}
ReadSteps == {"rssi", "snr", "addr", "nb", "ptr", "burst"}
Steps == {"loop", "flags", "clear", "txdone"} \cup ReadSteps
Half == Fifo \div 2
Nothing == [addr |-> 0, nb |-> 0, rssi |-> NoPacket, snr |-> NoPacket]

Bytes(p) == [i \in 1 .. lens[p] |-> <<p, i - 1>>]
Cell(start, i) == (start + i) % Fifo

LineHigh == dio0 \in flags

(* handle_interrupt() on a rising edge of DIO0. *)
LatchEdge == markers' = IF LineHigh' /\ ~LineHigh /\ markers < MaxMarkers
                          THEN markers + 1 ELSE markers

---------------------------------------------------------------------------
(* Chip (external) *)

(* A header is received: ValidHeader. *)
ChipHeader == /\ mode = "Rx" /\ onAir = NoPacket /\ Len(lens) < MaxPackets
              /\ onAir' = Len(lens) + 1
              /\ \E n \in RxLens : lens' = Append(lens, n)
              /\ bad' \in {bad, bad \cup {onAir'}}
              /\ flags' = flags \cup {"Header"}
              /\ UNCHANGED <<mode, dio0, fifo, ptr, rxAt, last, sends, log, ended,
                             strayed>>

Unread == "RxDone" \in flags \/ "RxDone" \in got

(* The packet has ended: its bytes are in the FIFO, past its end too, and    *)
(* the registers are about it.                                               *)
ChipEnds == /\ mode = "Rx" /\ onAir # NoPacket
            /\ Prompt => ~Unread
            /\ LET n == lens[onAir]
                   i(c) == (c + Fifo - rxAt) % Fifo
               IN /\ fifo' = [c \in 0 .. Fifo - 1 |->
                                IF i(c) < n THEN <<onAir, i(c)>> ELSE fifo[c]]
                  /\ rxAt' = Cell(rxAt, n)
                  /\ last' = [addr |-> rxAt, nb |-> n, rssi |-> onAir, snr |-> onAir]
                  /\ ended' = IF n > 0 /\ onAir \notin bad THEN ended \cup {onAir}
                                                           ELSE ended
                  /\ strayed' = (strayed \/ (n > 0 /\ ~(rxAt >= Half /\ rxAt + n <= Fifo)))
            /\ flags' = flags \cup {"RxDone"}
                          \cup (IF onAir \in bad THEN {"CrcError"} ELSE {})
            /\ onAir' = NoPacket
            /\ UNCHANGED <<mode, dio0, ptr, lens, bad, sends, log>>

ChipTxDone == /\ mode = "Tx"
              /\ mode' = "Standby" /\ flags' = flags \cup {"TxDone"}
              /\ UNCHANGED <<dio0, fifo, ptr, rxAt, last, onAir, history>>

Chip == /\ ChipHeader \/ ChipEnds \/ ChipTxDone
        /\ UNCHANGED <<txActive, pc, got, read, bounds>>
        /\ LatchEdge

---------------------------------------------------------------------------
(* The application, between two polls or inside send()'s loop *)

(* send() up to its loop: Standby, the payload from 0, DIO0 on TxDone, Tx.   *)
Send == /\ pc = "app" /\ ~txActive /\ sends < MaxSends
        /\ sends' = sends + 1
        /\ mode' = "Tx" /\ onAir' = NoPacket /\ dio0' = "TxDone"
        /\ \E n \in TxLens :
             /\ fifo' = [c \in 0 .. Fifo - 1 |-> IF c < n THEN Ours ELSE fifo[c]]
             /\ ptr' = n
             /\ strayed' = (strayed \/ n > Half)
        /\ txActive' = TRUE
        /\ UNCHANGED <<flags, rxAt, last, pc, got, read, lens, bad, log, ended, bounds>>
        /\ LatchEdge

(* Slip: start_receive() leaves DIO0 on the flag of the last operation. *)
ReceiveUnmapped ==
  /\ pc = "app" /\ ~txActive
  /\ mode' = "Rx" /\ onAir' = NoPacket /\ dio0' = dio0
  /\ rxAt' = Half /\ ptr' = Half
  /\ UNCHANGED <<flags, fifo, last, markers, txActive, pc, got, read, history, bounds>>

(* start_receive(true): the chip's write pointer goes to RegFifoRxBaseAddr.  *)
StartReceive == /\ pc = "app" /\ ~txActive
                /\ mode' = "Rx" /\ onAir' = NoPacket /\ dio0' = "RxDone"
                /\ rxAt' = Half /\ ptr' = Half
                /\ UNCHANGED <<flags, fifo, last, txActive, pc, got, read, history, bounds>>
                /\ LatchEdge

(* process_events(), with its synthetic marker in polling mode. *)
Poll == /\ pc = "app"
        /\ pc' = "loop"
        /\ markers' = IF polling /\ markers = 0 THEN 1 ELSE markers
        /\ UNCHANGED <<chipVars, txActive, got, read, history, bounds>>

---------------------------------------------------------------------------
(* One round of process_events(): each step one SPI transfer, which may fail *)

Step(here, there) == pc = here /\ pc' = there

(* Slip: a marker is taken from an empty ring. *)
PopBlindly == /\ Step("loop", IF markers # 0 THEN "flags" ELSE "app")
              /\ markers' = markers - 1
              /\ UNCHANGED <<chipVars, txActive, got, read, history, bounds>>

LoopTest == /\ Step("loop", IF markers > 0 THEN "flags" ELSE "app")
            /\ markers' = IF markers > 0 THEN markers - 1 ELSE 0
            /\ UNCHANGED <<chipVars, txActive, got, read, history, bounds>>

ReadFlags == /\ Step("flags", IF flags = {} THEN "loop" ELSE "clear")
             /\ got' = flags
             /\ UNCHANGED <<chipVars, markers, txActive, read, history, bounds>>

(* Slip: a packet with a CRC error is read as well. *)
HandledAnyway(f) == IF "RxDone" \in f THEN "rssi" ELSE "txdone"

(* What is done about the flags that were read. *)
Handled(f) == IF "RxDone" \in f /\ "CrcError" \notin f THEN "rssi" ELSE "txdone"

(* Slip: RegIrqFlags is read and left for later. *)
ClearNothing == /\ Step("clear", Handled(got))
                /\ UNCHANGED <<chipVars, markers, txActive, got, read, history, bounds>>

ClearFlags == /\ Step("clear", Handled(got))
              /\ flags' = {}
              /\ UNCHANGED <<mode, dio0, fifo, ptr, rxAt, last, onAir, txActive,
                             got, read, history, bounds>>
              /\ LatchEdge

(* The metrics, read_packet()'s address and length. *)
ReadRegister(here, there, field) ==
  /\ Step(here, there)
  /\ read' = [read EXCEPT ![field] = last[field]]
  /\ UNCHANGED <<chipVars, markers, txActive, got, history, bounds>>

ReadRssi == ReadRegister("rssi", "snr", "rssi")
ReadSnr == ReadRegister("snr", "addr", "snr")
ReadAddr == ReadRegister("addr", "nb", "addr")
ReadNb == ReadRegister("nb", IF last.nb = 0 THEN "txdone" ELSE "ptr", "nb")

SetPtr == /\ Step("ptr", "burst")
          /\ ptr' = read.addr
          /\ UNCHANGED <<mode, flags, dio0, fifo, rxAt, last, onAir, markers, txActive,
                         got, read, history, bounds>>

(* The burst, then on_receive() with crc_valid set. *)
Deliver == /\ Step("burst", "txdone")
           /\ log' = Append(log, [bytes |-> [i \in 1 .. read.nb |-> fifo[Cell(ptr, i - 1)]],
                                  rssi |-> read.rssi, snr |-> read.snr])
           /\ ptr' = Cell(ptr, read.nb)
           /\ UNCHANGED <<mode, flags, dio0, fifo, rxAt, last, onAir, markers, txActive,
                          got, read, lens, bad, sends, ended, strayed, bounds>>

TxDoneEvent == /\ Step("txdone", "loop")
               /\ txActive' = (txActive /\ "TxDone" \notin got)
               /\ got' = {} /\ read' = Nothing
               /\ UNCHANGED <<chipVars, markers, history, bounds>>

(* A failing transfer.  Only read_packet() and the read of the flags notice; *)
(* the clear and the metrics are taken for done.                             *)
Failed == IF pc = "flags" THEN "loop"
          ELSE IF pc = "clear" THEN Handled(got)
          ELSE IF pc = "rssi" THEN "snr"
          ELSE IF pc = "snr" THEN "addr"
          ELSE "txdone"

Fails == /\ faults > 0 /\ faults' = faults - 1 /\ polling' = polling
         /\ pc \in {"flags", "clear"} \cup ReadSteps
         /\ pc' = Failed
         /\ UNCHANGED <<chipVars, markers, txActive, got, read, history>>

ProcessEvents == \/ LoopTest \/ ReadFlags \/ ClearFlags \/ ReadRssi \/ ReadSnr
                 \/ ReadAddr \/ ReadNb \/ SetPtr \/ Deliver \/ TxDoneEvent

---------------------------------------------------------------------------
Init == /\ mode = "Standby" /\ flags = {} /\ dio0 = "RxDone"
        /\ fifo = [c \in 0 .. Fifo - 1 |-> Ours] /\ ptr = 0
        /\ rxAt = Half /\ last = Nothing /\ onAir = NoPacket
        /\ polling \in Modes /\ markers = 0 /\ txActive = FALSE
        /\ pc = "app" /\ got = {} /\ read = Nothing
        /\ lens = << >> /\ bad = {} /\ sends = 0 /\ faults = MaxFaults
        /\ log = << >> /\ ended = {} /\ strayed = FALSE

Next == Chip \/ Send \/ StartReceive \/ Poll \/ ProcessEvents \/ Fails

Spec == Init /\ [][Next]_vars

(* loop() or the pump goes on polling. *)
FairSpec == Spec /\ WF_vars(Poll \/ ProcessEvents)

---------------------------------------------------------------------------
(* Properties *)

Metrics == {NoPacket} \cup Packets
Registers == [addr : 0 .. Fifo - 1, nb : 0 .. Fifo - 1,
              rssi : Metrics, snr : Metrics]
Deliveries == [bytes : Seq(Cells), rssi : Metrics, snr : Metrics]

(* Types of the chip, the driver and what has been delivered. *)
TypeOK == /\ mode \in {"Standby", "Rx", "Tx"} /\ flags \subseteq IrqFlags
          /\ dio0 \in {"RxDone", "TxDone"}
          /\ fifo \in [0 .. Fifo - 1 -> Cells]
          /\ ptr \in 0 .. Fifo - 1 /\ rxAt \in 0 .. Fifo - 1
          /\ last \in Registers /\ read \in Registers
          /\ onAir \in Metrics
          /\ markers \in 0 .. MaxMarkers /\ txActive \in BOOLEAN
          /\ pc \in {"app"} \cup Steps /\ got \subseteq IrqFlags
          /\ lens \in Seq(RxLens) /\ Len(lens) <= MaxPackets
          /\ bad \subseteq Packets /\ ended \subseteq Packets
          /\ sends \in 0 .. MaxSends /\ faults \in 0 .. MaxFaults
          /\ polling \in BOOLEAN /\ log \in Seq(Deliveries) /\ strayed \in BOOLEAN

Delivery == 1 .. Len(log)
Source(i) == log[i].bytes[1][1]

(* No packet, ours or received, has left its half of the FIFO, or nothing has *)
(* been sent.                                                                *)
Apart == sends = 0 \/ ~strayed

(* on_receive() gets one packet that arrived without a CRC error: all of its  *)
(* bytes, nothing else, and the RSSI and SNR measured on it (none if the      *)
(* transfer failed).                                                          *)
Intact == \A i \in Delivery : \E p \in (1 .. Len(lens)) \ bad :
            /\ log[i].bytes = Bytes(p)
            /\ {log[i].rssi, log[i].snr} \subseteq
                 (IF faults = MaxFaults THEN {p} ELSE {p, NoPacket})

(* So it is as long as the halves of the FIFO are kept apart, which           *)
(* PacketsStomp.cfg shows they need not be.                                   *)
Whole == Apart => Intact

(* Unless a transfer has failed, no packet is delivered twice (bytes of ours, *)
(* left where packets have met, are nobody's).                               *)
Once == faults = MaxFaults =>
          \A i, j \in Delivery :
            Source(i) = Source(j) /\ Source(i) # NoPacket => i = j

(* With interrupts every good packet that is not empty is delivered in the    *)
(* end, unless a transfer has failed or the halves have not been kept apart.  *)
AllDelivered == \A p \in Packets :
  p \in ended /\ ~polling ~>
    faults < MaxFaults \/ ~Apart \/ \E i \in Delivery : Source(i) = p

(* What PacketsCrc.cfg, PacketsMetrics.cfg and PacketsPolled.cfg refute.      *)
OnlyGoodCrc == \A i \in Delivery : Source(i) \notin bad
OwnMetrics == \A i \in Delivery : log[i].rssi = Source(i) /\ log[i].snr = Source(i)
PolledToo == \A p \in Packets :
  p \in ended ~> faults < MaxFaults \/ \E i \in Delivery : Source(i) = p
=============================================================================
