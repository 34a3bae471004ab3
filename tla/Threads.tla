------------------------------ MODULE Threads ------------------------------
(***************************************************************************)
(* Two threads inside one transceiver.  With the facade's defaults the pump *)
(* task polls the transceiver, sends the packets send_async() has queued and *)
(* restores reception after each, while loop() calls LoRa::send() or         *)
(* start_receive().  Both drive the same driver, ring, fields and chip, and  *)
(* nothing locks.  One action is one SPI transfer or one access to a shared  *)
(* field; fields only one thread uses change with the access beside them.    *)
(*                                                                          *)
(* Who may run when depends on where the pump task is pinned (setup).  On    *)
(* loop()'s core, the default, it has the higher priority: loop() then runs  *)
(* only while the pump waits for its notification ("shared").  On the other  *)
(* core the pump runs when it likes ("apart").  Callbacks do not wait        *)
(* (USAGE.md), transfers do not fail and the silence timeout is off.         *)
(***************************************************************************)
EXTENDS Integers, FiniteSets

CONSTANTS
  Size,         \* kIrqQueueSize
  Setups,       \* ways the two tasks may share the processor
  MaxPackets,   \* packets that arrive in a behaviour
  MaxSends,     \* calls of send() in a behaviour
  MaxAsyncs,    \* calls of send_async(), at most the queue's depth
  MaxApart      \* calls of the two together when the tasks are "apart"

ASSUME BoundsAssumption == /\ Size \in Nat /\ Size >= 2
                           /\ MaxPackets \in Nat /\ MaxSends \in Nat
                           /\ MaxAsyncs \in Nat /\ MaxApart \in Nat
ASSUME SetupsAssumption == Setups \subseteq {"shared", "apart"}

VARIABLES
  mode,       \* chip: RegOpMode
  flags,      \* chip: RegIrqFlags
  dio0,       \* chip: the flag mapped to DIO0
  ptr,        \* chip: where RegFifoAddrPtr is in the FIFO
  loaded,     \* chip: the TX half holds the payload of loop()'s current send()
  edge,       \* GPIO: a rising edge whose interrupt has not run
  head, tail, \* driver: irq_head_, irq_tail_
  txActive,   \* driver: tx_in_progress_
  due,        \* clock: now >= tx_deadline_ms_
  owner,      \* the thread tx_deadline_ms_ was stored by
  sendDue,    \* clock: now > the deadline of a thread's send()
  state,      \* transceiver: state_
  sending,    \* the threads inside LoRaTransceiver::send()
  notified,   \* the pump task's notification
  txPending,  \* pump: tx_pending_
  queued,     \* packets in the pump's queue
  pc, got, loadedTail, iters,   \* per thread: place and locals
  packets, sends, asyncs,       \* bounds
  setup,      \* how the two tasks share the processor
  air         \* history: what became of the packet of loop()'s current send()

chipVars == <<mode, flags, dio0, ptr, loaded>>
ring == <<head, tail>>
clock == <<due, owner, sendDue>>
fsm == <<state, sending>>
pump == <<notified, txPending, queued>>
locals == <<got, loadedTail, iters>>
bounds == <<packets, sends, asyncs, setup>>
vars == <<chipVars, edge, ring, txActive, clock, fsm, pump, pc, locals, bounds, air>>

Threads == {"loop", "pump"}
Modes == {"Standby", "RxCont", "Tx"}
IrqFlags == {"RxDone", "TxDone"}
ProcessSteps == {"watchdog", "overdue", "give-up", "cut", "test", "load", "store",
                 "read", "clear", "ptr", "burst", "callback", "txdone"}
TransmitSteps == {"set-standby", "standby-state", "tx-standby", "tx-ptr", "tx-burst",
                  "tx-dio0", "tx-mode", "tx-active", "tx-deadline", "tx-state"}
ReceiveSteps == {"rx-standby", "rx-ptr", "rx-dio0", "rx-mode", "rx-state"}
CallSteps == TransmitSteps \cup ReceiveSteps \cup ProcessSteps
               \cup {"while", "late", "leave"}
PumpPlaces == CallSteps \cup {"take", "restore", "queue"}
LoopPlaces == CallSteps \cup {"idle"}

Succ(i) == (i + 1) % Size

LineHigh == dio0 \in flags
LatchEdge == edge' = (edge \/ (LineHigh' /\ ~LineHigh))

---------------------------------------------------------------------------
(* Scheduling *)

LoopRuns == setup = "apart" \/ (pc["pump"] = "take" /\ ~edge /\ ~notified)

Runs(t) == t = "loop" => LoopRuns

At(t, here) == Runs(t) /\ pc[t] = here
GoTo(t, there) == pc' = [pc EXCEPT ![t] = there]

(* What a step that only talks to the chip, or only to the driver's fields,  *)
(* leaves alone.                                                             *)
BesideChip == <<ring, txActive, clock, fsm, pump, locals, bounds>>
BesideFields == <<chipVars, edge, air, bounds>>

(* Slip: the handler publishes its marker without the fullness test. *)
InterruptUnchecked ==
  /\ edge
  /\ edge' = FALSE
  /\ head' = Succ(head)
  /\ notified' = TRUE
  /\ UNCHANGED <<chipVars, tail, txActive, clock, fsm, txPending, queued, pc, locals,
                 bounds, air>>

(* The ISR trampoline: handle_interrupt(), then the notification. *)
Interrupt == /\ edge
             /\ edge' = FALSE
             /\ head' = IF Succ(head) = tail THEN head ELSE Succ(head)
             /\ notified' = TRUE
             /\ UNCHANGED <<chipVars, tail, txActive, clock, fsm, txPending, queued, pc,
                            locals, bounds, air>>

---------------------------------------------------------------------------
(* Chip and clock (external) *)

ChipTxDone == /\ mode = "Tx"
              /\ mode' = "Standby" /\ flags' = flags \cup {"TxDone"}
              /\ air' = IF air = "air" THEN "sent" ELSE air
              /\ UNCHANGED <<dio0, ptr, loaded, packets>>

ChipPacket == /\ mode = "RxCont" /\ packets < MaxPackets
              /\ packets' = packets + 1
              /\ flags' = flags \cup {"RxDone"}
              /\ UNCHANGED <<mode, dio0, ptr, loaded, air>>

Chip == /\ ChipTxDone \/ ChipPacket
        /\ LatchEdge
        /\ UNCHANGED <<ring, txActive, clock, fsm, pump, pc, locals, sends, asyncs, setup>>

(* One turn of send()'s loop. *)
InTurn(t) == t \in sending /\ pc[t] \in ProcessSteps \cup {"late"}

(* A turn of send()'s loop takes no time, except that loop()'s stands still  *)
(* while the pump on its core is in a send() of its own.  The driver's       *)
(* deadline passes (>=) before that of the send() which stored it (>) does.  *)
Tick == /\ ~InTurn("pump")
        /\ InTurn("loop") => setup = "shared" /\ "pump" \in sending
        /\ \/ ~due /\ due' = TRUE /\ UNCHANGED sendDue
           \/ \E t \in sending :
                /\ pc[t] \notin TransmitSteps /\ ~sendDue[t] /\ (owner = t => due)
                /\ sendDue' = [sendDue EXCEPT ![t] = TRUE]
                /\ UNCHANGED due
        /\ UNCHANGED <<chipVars, edge, ring, txActive, owner, fsm, pump, pc, locals,
                       bounds, air>>

---------------------------------------------------------------------------
(* LoRaTransceiver::send(), in either thread *)

(* A mode change that leaves Tx cuts loop()'s packet short. *)
SetMode(m) == /\ mode' = m
              /\ air' = IF mode = "Tx" /\ air = "air" THEN "cut" ELSE air

Call(t) == /\ sending' = sending \cup {t}
           /\ GoTo(t, IF state = "Standby" THEN "tx-standby" ELSE "set-standby")
           /\ UNCHANGED state

(* set_standby(): the mode, then state_ *)
SetStandby(t) == /\ At(t, "set-standby") /\ GoTo(t, "standby-state")
                 /\ SetMode("Standby")
                 /\ UNCHANGED <<flags, dio0, ptr, loaded, edge, BesideChip>>

StandbyState(t) == /\ At(t, "standby-state") /\ GoTo(t, "tx-standby")
                   /\ state' = "Standby"
                   /\ UNCHANGED <<BesideFields, ring, txActive, clock, sending, pump,
                                  locals>>

(* start_transmit() *)
TxStandby(t) == /\ At(t, "tx-standby") /\ GoTo(t, "tx-ptr")
                /\ SetMode("Standby")
                /\ UNCHANGED <<flags, dio0, ptr, loaded, edge, BesideChip>>

(* Slip: start_transmit() trusts RegFifoAddrPtr. *)
TxPtrTrusted(t) == /\ At(t, "tx-ptr") /\ GoTo(t, "tx-burst")
                   /\ UNCHANGED <<chipVars, edge, air, BesideChip>>

TxPtr(t) == /\ At(t, "tx-ptr") /\ GoTo(t, "tx-burst")
            /\ ptr' = "tx"
            /\ UNCHANGED <<mode, flags, dio0, loaded, edge, air, BesideChip>>

(* The payload goes where RegFifoAddrPtr points by then, and moves it on. *)
TxBurst(t) == /\ At(t, "tx-burst") /\ GoTo(t, "tx-dio0")
              /\ loaded' = IF ptr = "tx" THEN t = "loop" ELSE loaded
              /\ ptr' = IF ptr = "tx" THEN "past" ELSE ptr
              /\ UNCHANGED <<mode, flags, dio0, edge, air, BesideChip>>

TxDio0(t) == /\ At(t, "tx-dio0") /\ GoTo(t, "tx-mode")
             /\ dio0' = "TxDone"
             /\ UNCHANGED <<mode, flags, ptr, loaded, air, BesideChip>>
             /\ LatchEdge

TxMode(t) == /\ At(t, "tx-mode") /\ GoTo(t, "tx-active")
             /\ mode' = "Tx"
             /\ air' = IF t = "loop" THEN "air" ELSE air
             /\ UNCHANGED <<flags, dio0, ptr, loaded, edge, BesideChip>>

TxActive(t) == /\ At(t, "tx-active") /\ GoTo(t, "tx-deadline")
               /\ txActive' = TRUE
               /\ UNCHANGED <<BesideFields, ring, clock, fsm, pump, locals>>

TxDeadline(t) == /\ At(t, "tx-deadline") /\ GoTo(t, "tx-state")
                 /\ due' = FALSE /\ owner' = t
                 /\ UNCHANGED <<BesideFields, ring, txActive, sendDue, fsm, pump, locals>>

(* state_, and send()'s own deadline *)
TxState(t) == /\ At(t, "tx-state") /\ GoTo(t, "while")
              /\ state' = "Tx"
              /\ sendDue' = [sendDue EXCEPT ![t] = FALSE]
              /\ UNCHANGED <<BesideFields, ring, txActive, due, owner, sending, pump,
                             locals>>

Transmit(t) == \/ SetStandby(t) \/ StandbyState(t) \/ TxStandby(t) \/ TxPtr(t)
               \/ TxBurst(t) \/ TxDio0(t) \/ TxMode(t) \/ TxActive(t)
               \/ TxDeadline(t) \/ TxState(t)

SendTurn(t) == /\ At(t, "while") /\ txActive
               /\ GoTo(t, "watchdog")
               /\ UNCHANGED <<BesideFields, ring, txActive, clock, fsm, pump, locals>>

SendOK(t) == /\ At(t, "while") /\ ~txActive
             /\ GoTo(t, "leave")
             /\ UNCHANGED <<BesideFields, ring, txActive, clock, fsm, pump, locals>>

(* The pump counts an error and forgets the packet. *)
SendTimeout(t) == /\ At(t, "late") /\ sendDue[t]
                  /\ GoTo(t, "leave")
                  /\ txPending' = (txPending /\ t # "pump")
                  /\ UNCHANGED <<BesideFields, ring, txActive, clock, fsm, notified,
                                 queued, locals>>

SendAgain(t) == /\ At(t, "late") /\ ~sendDue[t] /\ GoTo(t, "while")
                /\ UNCHANGED <<BesideFields, ring, txActive, clock, fsm, pump, locals>>

(* send() stores state_ and returns; its deadline and packet are no more. *)
Leave(t) == /\ At(t, "leave")
            /\ GoTo(t, IF t = "loop" THEN "idle" ELSE "take")
            /\ state' = "Standby"
            /\ sending' = sending \ {t}
            /\ sendDue' = [sendDue EXCEPT ![t] = TRUE]
            /\ air' = IF t = "loop" THEN "none" ELSE air
            /\ UNCHANGED <<chipVars, edge, ring, txActive, due, owner, pump, locals,
                           bounds>>

SendLoop(t) == SendTurn(t) \/ SendOK(t) \/ SendTimeout(t) \/ SendAgain(t) \/ Leave(t)

---------------------------------------------------------------------------
(* start_receive(true), in either thread *)

RxStandby(t) == /\ At(t, "rx-standby") /\ GoTo(t, "rx-ptr")
                /\ SetMode("Standby")
                /\ UNCHANGED <<flags, dio0, ptr, loaded, edge, BesideChip>>

RxPtr(t) == /\ At(t, "rx-ptr") /\ GoTo(t, "rx-dio0")
            /\ ptr' = "rx"
            /\ UNCHANGED <<mode, flags, dio0, loaded, edge, air, BesideChip>>

RxDio0(t) == /\ At(t, "rx-dio0") /\ GoTo(t, "rx-mode")
             /\ dio0' = "RxDone"
             /\ UNCHANGED <<mode, flags, ptr, loaded, air, BesideChip>>
             /\ LatchEdge

RxMode(t) == /\ At(t, "rx-mode") /\ GoTo(t, "rx-state")
             /\ SetMode("RxCont")
             /\ UNCHANGED <<flags, dio0, ptr, loaded, edge, BesideChip>>

RxState(t) == /\ At(t, "rx-state")
              /\ GoTo(t, IF t = "loop" THEN "idle" ELSE "queue")
              /\ state' = "RxCont"
              /\ UNCHANGED <<BesideFields, ring, txActive, clock, sending, pump, locals>>

ReceiveCall(t) == RxStandby(t) \/ RxPtr(t) \/ RxDio0(t) \/ RxMode(t) \/ RxState(t)

---------------------------------------------------------------------------
(* What loop() calls *)

CallsLeft == setup = "apart" => sends + asyncs < MaxApart

Send == /\ At("loop", "idle") /\ sends < MaxSends /\ CallsLeft
        /\ sends' = sends + 1
        /\ Call("loop")
        /\ loaded' = FALSE
        /\ UNCHANGED <<mode, flags, dio0, ptr, edge, ring, txActive, clock, pump, locals,
                       packets, asyncs, setup, air>>

(* send_async(): the queue has room *)
SendAsync == /\ At("loop", "idle") /\ asyncs < MaxAsyncs /\ CallsLeft
             /\ asyncs' = asyncs + 1 /\ queued' = queued + 1
             /\ UNCHANGED <<chipVars, edge, ring, txActive, clock, fsm, notified, txPending,
                            pc, locals, packets, sends, setup, air>>

Receive == /\ At("loop", "idle") /\ GoTo("loop", "rx-standby")
           /\ UNCHANGED <<chipVars, edge, air, BesideChip>>

---------------------------------------------------------------------------
(* The pump task's loop *)

(* It wakes at its period, or because it was notified, and polls. *)
Wake == /\ pc["pump"] = "take" /\ GoTo("pump", "watchdog")
        /\ notified' = FALSE
        /\ UNCHANGED <<BesideFields, ring, txActive, clock, fsm, txPending, queued,
                       locals>>

(* After the poll: a packet of the queue that is out gives way to reception. *)
Restore == /\ pc["pump"] = "restore"
           /\ GoTo("pump", IF txPending /\ state = "Standby" THEN "rx-standby"
                                                             ELSE "queue")
           /\ txPending' = (txPending /\ state = "Tx")
           /\ UNCHANGED <<BesideFields, ring, txActive, clock, fsm, notified, queued,
                          locals>>

QueueReceive == /\ pc["pump"] = "queue" /\ ~txPending /\ queued > 0
                /\ queued' = queued - 1 /\ txPending' = TRUE
                /\ Call("pump")
                /\ UNCHANGED <<BesideFields, ring, txActive, clock, notified, locals>>

QueueEmpty == /\ pc["pump"] = "queue" /\ (txPending \/ queued = 0)
              /\ GoTo("pump", "take")
              /\ UNCHANGED <<BesideFields, ring, txActive, clock, fsm, pump, locals>>

---------------------------------------------------------------------------
(* process_events(), in either thread; got is its local `flags`. *)

Watchdog(t) ==
  /\ At(t, "watchdog") /\ GoTo(t, IF txActive THEN "overdue" ELSE "test")
  /\ UNCHANGED <<BesideFields, ring, txActive, clock, fsm, pump, locals>>

Overdue(t) ==
  /\ At(t, "overdue") /\ GoTo(t, IF due THEN "give-up" ELSE "test")
  /\ UNCHANGED <<BesideFields, ring, txActive, clock, fsm, pump, locals>>

(* Slip: the watchdog forces Standby and leaves tx_in_progress_ set. *)
GiveUpKeeps(t) ==
  /\ At(t, "give-up") /\ GoTo(t, "cut")
  /\ UNCHANGED <<BesideFields, ring, txActive, clock, fsm, pump, locals>>

GiveUp(t) ==
  /\ At(t, "give-up") /\ GoTo(t, "cut")
  /\ txActive' = FALSE
  /\ UNCHANGED <<BesideFields, ring, clock, fsm, pump, locals>>

Cut(t) == /\ At(t, "cut") /\ GoTo(t, "test")
          /\ SetMode("Standby")
          /\ UNCHANGED <<flags, dio0, ptr, loaded, edge, BesideChip>>

Done(t) == IF t \in sending THEN "late" ELSE "restore"

MoreEvents(t) == tail # head /\ iters[t] < Size

LoopTest(t) ==
  /\ At(t, "test")
  /\ GoTo(t, IF MoreEvents(t) THEN "load" ELSE Done(t))
  /\ iters' = IF MoreEvents(t) THEN iters ELSE [iters EXCEPT ![t] = 0]
  /\ UNCHANGED <<BesideFields, ring, txActive, clock, fsm, pump, got, loadedTail>>

(* irq_tail_ = irq_tail_ + 1: a load and a store, with the other thread's    *)
(* between them.                                                             *)
LoadTail(t) ==
  /\ At(t, "load") /\ GoTo(t, "store")
  /\ loadedTail' = [loadedTail EXCEPT ![t] = tail]
  /\ UNCHANGED <<BesideFields, ring, txActive, clock, fsm, pump, got, iters>>

(* Slip: the marker is looked at and not taken. *)
PeekTail(t) ==
  /\ At(t, "store") /\ GoTo(t, "read")
  /\ UNCHANGED <<BesideFields, ring, txActive, clock, fsm, pump, locals>>

(* Slip: irq_tail_ runs past the ring. *)
StoreTailUnwrapped(t) ==
  /\ At(t, "store") /\ GoTo(t, "read")
  /\ tail' = loadedTail[t] + 1
  /\ iters' = [iters EXCEPT ![t] = @ + 1]
  /\ loadedTail' = [loadedTail EXCEPT ![t] = 0]
  /\ UNCHANGED <<BesideFields, head, txActive, clock, fsm, pump, got>>

StoreTail(t) ==
  /\ At(t, "store") /\ GoTo(t, "read")
  /\ tail' = Succ(loadedTail[t])
  /\ iters' = [iters EXCEPT ![t] = @ + 1]
  /\ loadedTail' = [loadedTail EXCEPT ![t] = 0]
  /\ UNCHANGED <<BesideFields, head, txActive, clock, fsm, pump, got>>

ReadFlags(t) ==
  /\ At(t, "read")
  /\ GoTo(t, IF flags = {} THEN "test" ELSE "clear")
  /\ got' = [got EXCEPT ![t] = flags]
  /\ UNCHANGED <<BesideFields, ring, txActive, clock, fsm, pump, loadedTail, iters>>

ClearFlags(t) ==
  /\ At(t, "clear")
  /\ GoTo(t, IF "RxDone" \in got[t] THEN "ptr" ELSE "txdone")
  /\ flags' = {}
  /\ UNCHANGED <<mode, dio0, ptr, loaded, air, BesideChip>>
  /\ LatchEdge

(* read_packet(): RegFifoAddrPtr to the packet, then the burst. *)
ReadPtr(t) ==
  /\ At(t, "ptr") /\ GoTo(t, "burst")
  /\ ptr' = "rx"
  /\ UNCHANGED <<mode, flags, dio0, loaded, edge, air, BesideChip>>

ReadBurst(t) ==
  /\ At(t, "burst") /\ GoTo(t, "callback")
  /\ UNCHANGED <<chipVars, edge, air, BesideChip>>

CallbackReturns(t) ==
  /\ At(t, "callback") /\ GoTo(t, "txdone")
  /\ UNCHANGED <<chipVars, edge, air, BesideChip>>

TxDoneEvent(t) ==
  /\ At(t, "txdone") /\ GoTo(t, "test")
  /\ txActive' = (txActive /\ "TxDone" \notin got[t])
  /\ got' = [got EXCEPT ![t] = {}]
  /\ UNCHANGED <<BesideFields, ring, clock, fsm, pump, loadedTail, iters>>

ProcessEvents(t) ==
  \/ Watchdog(t) \/ Overdue(t) \/ GiveUp(t) \/ Cut(t)
  \/ LoopTest(t) \/ LoadTail(t) \/ StoreTail(t)
  \/ ReadFlags(t) \/ ClearFlags(t) \/ ReadPtr(t) \/ ReadBurst(t)
  \/ CallbackReturns(t) \/ TxDoneEvent(t)

---------------------------------------------------------------------------
(* LoRa::begin() has started the pump and is about to call start_receive(). *)
Init == /\ mode = "Standby" /\ flags = {} /\ dio0 = "RxDone" /\ ptr = "tx"
        /\ loaded = FALSE /\ edge = FALSE /\ head = 0 /\ tail = 0
        /\ txActive = FALSE /\ due = TRUE /\ owner = "loop"
        /\ sendDue = [t \in Threads |-> TRUE]
        /\ state = "Standby" /\ sending = {}
        /\ notified = FALSE /\ txPending = FALSE /\ queued = 0
        /\ pc = [t \in Threads |-> IF t = "pump" THEN "take" ELSE "idle"]
        /\ got = [t \in Threads |-> {}]
        /\ loadedTail = [t \in Threads |-> 0]
        /\ iters = [t \in Threads |-> 0]
        /\ packets = 0 /\ sends = 0 /\ asyncs = 0 /\ setup \in Setups /\ air = "none"

Works(t) == Transmit(t) \/ SendLoop(t) \/ ReceiveCall(t) \/ ProcessEvents(t)
LoopThread == Works("loop")
PumpThread == Works("pump") \/ Wake \/ Restore \/ QueueReceive \/ QueueEmpty

Next == \/ Send \/ SendAsync \/ Receive
        \/ LoopThread \/ PumpThread
        \/ Interrupt \/ Chip \/ Tick

Spec == Init /\ [][Next]_vars

(* Both threads run when the scheduler lets them, callbacks come back, the   *)
(* clock advances and interrupts are taken.  The chip owes nothing.          *)
Fairness == /\ SF_vars(LoopThread) /\ WF_vars(PumpThread)
            /\ WF_vars(Interrupt) /\ SF_vars(Tick)

FairSpec == Spec /\ Fairness

---------------------------------------------------------------------------
(* Properties *)

(* Types of the chip, the driver and both threads' places and locals.        *)
TypeOK == /\ mode \in Modes /\ flags \subseteq IrqFlags /\ dio0 \in IrqFlags
          /\ ptr \in {"tx", "past", "rx"} /\ loaded \in BOOLEAN /\ edge \in BOOLEAN
          /\ head \in 0 .. Size - 1 /\ tail \in 0 .. Size - 1
          /\ txActive \in BOOLEAN /\ notified \in BOOLEAN /\ due \in BOOLEAN
          /\ owner \in Threads /\ sendDue \in [Threads -> BOOLEAN]
          /\ state \in Modes /\ sending \subseteq Threads
          /\ txPending \in BOOLEAN /\ queued \in 0 .. asyncs
          /\ pc \in [Threads -> LoopPlaces \cup PumpPlaces]
          /\ pc["pump"] \in PumpPlaces /\ pc["loop"] \in LoopPlaces
          /\ got \in [Threads -> SUBSET IrqFlags]
          /\ loadedTail \in [Threads -> 0 .. Size - 1]
          /\ iters \in [Threads -> 0 .. Size]
          /\ packets \in 0 .. MaxPackets /\ sends \in 0 .. MaxSends
          /\ asyncs \in 0 .. MaxAsyncs
          /\ setup \in Setups
          /\ air \in {"none", "air", "sent", "cut"}

Hearing(t) == pc[t] \in {"load", "store", "read", "clear"}

(* The line is edge-triggered, so whoever finds it high must not be asleep:  *)
(* while the flag on DIO0 is up, an interrupt is due, or the ring holds its  *)
(* marker, or some thread is between the ring's test and the clear.  The two *)
(* threads advance irq_tail_ without a lock and each can take it back or     *)
(* past the other's; the read that follows every such store makes up for it. *)
NoDeafLine == LineHigh => edge \/ head # tail \/ \E t \in Threads : Hearing(t)

(* When neither thread is inside send(), no transmission is registered,      *)
(* whichever of the two ran the watchdog or read TxDone, cut the other's      *)
(* packet short or stored its deadline over the other's.                     *)
NoOrphanTx == sending = {} => ~txActive

(* With the pump on loop()'s core and send_async() unused, what goes on the  *)
(* air is the payload send() was given: nobody moves RegFifoAddrPtr between  *)
(* its write and the burst, although the pump may wake and poll there.  Both *)
(* conditions are needed: ThreadsFifoPointer.cfg puts the pump on the other  *)
(* core, and in ThreadsQueuedPointer.cfg it wakes to a queued packet and     *)
(* loads that one.                                                           *)
AirCarriesPayload == setup = "shared" /\ asyncs = 0 => (mode = "Tx" => loaded)
PayloadAnywhere == mode = "Tx" /\ air = "air" => loaded

(* send() answers OK only for a packet that went out, or when the timeout it *)
(* was given has passed (Radio.OkMeansSent is the one-thread form).          *)
OkMeansSent ==
  [][SendOK("loop") =>
       air = "sent" \/ sendDue["loop"] \/ (owner = "loop" /\ due)]_vars

(* Every send() comes back, the pump's too, although either thread may take  *)
(* the other's TxDone, with a chip that may never raise one.                 *)
SendComesBack == \A t \in Threads : t \in sending ~> t \notin sending
=============================================================================
