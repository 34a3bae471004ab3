------------------------------- MODULE Radio -------------------------------
(***************************************************************************)
(* One radio session: the SX127x chip, SX127xDriver, and LoRaTransceiver,   *)
(* driven by the one thread that calls the API (the main loop, or the pump  *)
(* task).  Five things happen concurrently: the thread's steps, the DIO0    *)
(* interrupt, the chip, the millisecond clock and failing SPI transfers.    *)
(*                                                                          *)
(* process_events() is broken up where the other four can get in between:   *)
(* the TX watchdog, the RX-silence watchdog, the polling branch, the loop   *)
(* test with its pop, the read of RegIrqFlags, the clear of RegIrqFlags,    *)
(* the dispatch, and the CAD continuation.  The API calls that only program *)
(* the chip are one step each: the chip is in Standby until their last      *)
(* write, so nothing it does can come between (start_cad() is the exception *)
(* and says so).                                                            *)
(*                                                                          *)
(* The marker ring is its mailbox (module Mailbox, which module IrqRing     *)
(* implements).  A deadline is kept as the time left until it: the clock    *)
(* takes it down to 0, and `now >= deadline` is `left = 0`.                 *)
(***************************************************************************)
EXTENDS Integers, FiniteSets

CONSTANTS
  MaxMarkers,       \* kIrqQueueSize - 1
  Polling,          \* cfg_.polling_mode; DIO0 is then not connected
  SilenceTimeout,   \* cfg_.rx_silence_timeout_ms, 0 = disabled
  SendTimeouts,     \* the timeout_ms values send() is called with
  Calls,            \* the API calls the application makes
  CrcErrors,        \* whether packets may arrive corrupted
  Prompt,           \* whether one turn of send()'s loop takes less than 1 ms
  MaxFaults         \* how many SPI transfers fail in a behaviour

ASSUME MarkersAssumption == MaxMarkers \in Nat /\ MaxMarkers >= 1
ASSUME TimeAssumption == SilenceTimeout \in Nat /\ SendTimeouts \subseteq Nat
ASSUME FlagsAssumption == {Polling, CrcErrors, Prompt} \subseteq BOOLEAN
ASSUME FaultsAssumption == MaxFaults \in Nat
ASSUME CallsAssumption ==
  Calls \subseteq {"send", "rxcont", "rxsingle", "cad", "sleep", "standby", "end"}

VARIABLES
  mode,       \* chip: RegOpMode
  flags,      \* chip: RegIrqFlags, the bits the driver looks at
  dio0,       \* chip: RegDioMapping1, the flag that drives the DIO0 line
  edge,       \* GPIO: a rising edge of DIO0 whose interrupt has not run yet
  markers,    \* driver: entries in the interrupt ring
  txActive,   \* driver: tx_in_progress_
  txLeft,     \* driver: tx_deadline_ms_, 0 when no TX is in progress
  silence,    \* driver: rx_silence_deadline_ms_, Disarmed for 0
  cadAuto,    \* driver: cad_auto_rx_
  state,      \* transceiver: state_
  rxCont,     \* transceiver: rx_continuous_
  pc,         \* thread: where it stands; "app" between two API calls
  ret,        \* thread: where process_events() returns to
  iters,      \* thread: the local `iters` of process_events()
  got,        \* thread: the local `flags` of process_events()
  sendLeft,   \* thread: send()'s local deadline (it waits for now > deadline)
  faults,     \* environment: SPI transfers that may still fail
  fired,      \* history: the TX watchdog fired during this send()
  air         \* history: what became of this send()'s packet

chipVars == <<mode, flags, dio0>>
timers == <<txLeft, silence, sendLeft>>
fsm == <<state, rxCont>>
thread == <<pc, ret, iters, got>>
history == <<fired, air>>
vars == <<chipVars, edge, markers, txActive, timers, cadAuto, fsm, thread,
          faults, history>>

Modes == {"Sleep", "Standby", "Tx", "RxCont", "RxSingle", "Cad"}
IrqFlags == {"RxDone", "CrcError", "ValidHeader", "TxDone", "RxTimeout", "CadDone",
             "CadDetected"}
Dio0Sources == {"RxDone", "TxDone", "CadDone"}
States == {"Uninit", "Sleep", "Standby", "Tx", "RxSingle", "RxContinuous", "Cad"}
ProcessSteps == {"txwd", "silence", "synth", "loop", "read", "clear", "dispatch", "cad"}
SendSteps == {"arm", "while", "late"}
Size == MaxMarkers + 1
Disarmed == -1

RxMode(continuous) == IF continuous THEN "RxCont" ELSE "RxSingle"

---------------------------------------------------------------------------
(* The DIO0 line is high while the mapped flag is set; the GPIO interrupt is *)
(* attached on the rising edge only, and not at all in polling mode.         *)

LineHigh == dio0 \in flags

LatchEdge == edge' = (edge \/ (~Polling /\ LineHigh' /\ ~LineHigh))

(* Slips the runs must notice (kept beside the definition each one spoils):  *)
(* a ring filled to the last slot, so that full looks like empty; a ring     *)
(* whose fullness is not tested at all.                                      *)
PushWraps(n) == (n + 1) % Size
PushUnbounded(n) == n + 1

(* handle_interrupt(): a full ring drops the newest marker. *)
Push(n) == IF n < MaxMarkers THEN n + 1 ELSE n

Interrupt == /\ edge
             /\ edge' = FALSE
             /\ markers' = Push(markers)
             /\ UNCHANGED <<chipVars, txActive, timers, cadAuto, fsm, thread,
                            faults, history>>

---------------------------------------------------------------------------
(* The chip (external): it raises flags and falls back to Standby by itself. *)

Raise(new) == flags' = flags \cup new

PacketEnds == \/ Raise({"RxDone"})
              \/ CrcErrors /\ Raise({"RxDone", "CrcError"})

ChipTxDone == /\ mode = "Tx"
              /\ mode' = "Standby"
              /\ Raise({"TxDone"})
              /\ air' = IF air = "air" THEN "sent" ELSE air
              /\ UNCHANGED <<dio0, fired>>

(* A packet has been found; what follows of it is still on the air.          *)
ChipHeader == /\ mode \in {"RxCont", "RxSingle"}
              /\ "ValidHeader" \notin flags
              /\ Raise({"ValidHeader"})
              /\ UNCHANGED <<mode, dio0, history>>

ChipPacket == /\ mode \in {"RxCont", "RxSingle"}
              /\ mode' = IF mode = "RxSingle" THEN "Standby" ELSE mode
              /\ PacketEnds
              /\ UNCHANGED <<dio0, history>>

ChipRxTimeout == /\ mode = "RxSingle"
                 /\ mode' = "Standby"
                 /\ Raise({"RxTimeout"})
                 /\ UNCHANGED <<dio0, history>>

ChipCadDone == /\ mode = "Cad"
               /\ mode' = "Standby"
               /\ \/ Raise({"CadDone"})
                  \/ Raise({"CadDone", "CadDetected"})
               /\ UNCHANGED <<dio0, history>>

Chip == /\ ChipTxDone \/ ChipHeader \/ ChipPacket \/ ChipRxTimeout \/ ChipCadDone
        /\ UNCHANGED <<markers, txActive, timers, cadAuto, fsm, thread, faults>>
        /\ LatchEdge

---------------------------------------------------------------------------
(* The clock.  Prompt is the assumption that a turn of send()'s loop, from   *)
(* the watchdog's reading of the clock to send()'s own, takes no time.       *)

Down(left) == IF left > 0 THEN left - 1 ELSE left

Tick == /\ txLeft > 0 \/ silence > 0 \/ sendLeft > 0
        /\ Prompt => pc \in {"app", "while"}
        /\ txLeft' = Down(txLeft)
        /\ silence' = Down(silence)
        /\ sendLeft' = IF pc = "arm" THEN sendLeft ELSE Down(sendLeft)
        /\ UNCHANGED <<chipVars, edge, markers, txActive, cadAuto, fsm, thread,
                       faults, history>>

---------------------------------------------------------------------------
(* SPI: a transfer that fails, and the operations made of several. *)

Fault == faults > 0 /\ faults' = faults - 1
NoFault == UNCHANGED faults

(* A mode change that takes the chip out of Tx cuts the packet short. *)
SetMode(m) == /\ mode' = m
              /\ air' = IF mode = "Tx" /\ m # "Tx" /\ air = "air" THEN "cut" ELSE air

(* set_op_mode(Sleep or Standby): one write, not read back. *)
SetModeMayFail(m) == \/ NoFault /\ SetMode(m)
                     \/ Fault /\ UNCHANGED <<mode, air>>

(* Slip: the silence watchdog is armed for single receptions instead. *)
StartReceiveInverted(continuous) ==
  /\ NoFault
  /\ SetMode(RxMode(continuous))
  /\ dio0' = "RxDone"
  /\ silence' = IF ~continuous /\ SilenceTimeout > 0 THEN SilenceTimeout ELSE Disarmed

(* SX127xDriver::start_receive().  It fails in Standby's write or just after *)
(* it, leaving the watchdog as it was; or in the last mode change, whose     *)
(* write or read-back may be what failed, with the watchdog disarmed.        *)
StartReceive(continuous) ==
  /\ NoFault
  /\ SetMode(RxMode(continuous))
  /\ dio0' = "RxDone"
  /\ silence' = IF continuous /\ SilenceTimeout > 0 THEN SilenceTimeout ELSE Disarmed

StartReceiveFails(continuous) ==
  /\ Fault
  /\ \/ \E m \in {mode, "Standby"} : SetMode(m) /\ UNCHANGED <<dio0, silence>>
     \/ \E m \in {"Standby", RxMode(continuous)} :
           SetMode(m) /\ dio0' = "RxDone" /\ silence' = Disarmed

---------------------------------------------------------------------------
(* The API calls of LoRaTransceiver, from the thread's "app" *)

Calling(call) == pc = "app" /\ call \in Calls /\ state # "Uninit"

(* begin(): the init sequence ends in Standby with all IRQ flags cleared.    *)
(* rx_continuous_ keeps the value of the session before.                     *)
Begin == /\ pc = "app" /\ state = "Uninit"
         /\ NoFault
         /\ SetMode("Standby")
         /\ flags' = {} /\ dio0' = "RxDone"
         /\ state' = "Standby"
         /\ UNCHANGED <<markers, txActive, timers, cadAuto, rxCont,
                        thread, fired>>
         /\ LatchEdge

(* The init sequence failed somewhere: the driver stays uninitialised.       *)
BeginFails == /\ pc = "app" /\ state = "Uninit"
              /\ Fault
              /\ \E m \in {mode, "Sleep", "Standby"} : SetMode(m)
              /\ dio0' \in {dio0, "RxDone"}
              /\ UNCHANGED <<flags, markers, txActive, timers, cadAuto,
                             fsm, thread, fired>>
              /\ LatchEdge

(* end(): the driver's runtime state is reset whatever the chip answers.     *)
End == /\ Calling("end")
       /\ SetModeMayFail("Sleep")
       /\ state' = "Uninit"
       /\ txActive' = FALSE /\ txLeft' = 0
       /\ silence' = Disarmed
       /\ cadAuto' = FALSE
       /\ markers' = 0
       /\ UNCHANGED <<flags, dio0, edge, sendLeft, rxCont, thread, fired>>

(* set_sleep() and set_standby(): neither touches the driver's timers.       *)
Quiet(call, m, s) ==
  /\ Calling(call)
  /\ \/ NoFault /\ SetMode(m) /\ state' = s
     \/ Fault /\ UNCHANGED <<mode, air, state>>
  /\ UNCHANGED <<flags, dio0, edge, markers, txActive, timers, cadAuto,
                 rxCont, thread, fired>>

SetSleep == Quiet("sleep", "Sleep", "Sleep")
SetStandby == Quiet("standby", "Standby", "Standby")

Receive(call, continuous) ==
  /\ Calling(call)
  /\ \/ /\ StartReceive(continuous)
        /\ rxCont' = continuous
        /\ state' = IF continuous THEN "RxContinuous" ELSE "RxSingle"
     \/ StartReceiveFails(continuous) /\ UNCHANGED fsm
  /\ UNCHANGED <<flags, markers, txActive, txLeft, sendLeft, cadAuto,
                 thread, fired>>
  /\ LatchEdge

StartRx == Receive("rxcont", TRUE) \/ Receive("rxsingle", FALSE)

(* start_cad() does not go through Standby: DIO0 is remapped while the chip  *)
(* still is in its old mode, whose last event may come before the new one.   *)
LastEvent == \/ UNCHANGED flags
             \/ mode \in {"RxCont", "RxSingle"} /\ PacketEnds
             \/ mode = "Tx" /\ Raise({"TxDone"})

(* cad_auto_rx_ is set before the first transfer.                            *)
StartCad(auto) ==
  /\ Calling("cad")
  /\ cadAuto' = auto
  /\ \/ /\ dio0' = "CadDone" /\ LastEvent /\ SetMode("Cad")
        /\ (NoFault /\ state' = "Cad") \/ (Fault /\ UNCHANGED state)
     \/ Fault /\ dio0' \in {dio0, "CadDone"} /\ UNCHANGED <<flags, mode, air, state>>
  /\ UNCHANGED <<markers, txActive, timers, rxCont, thread, fired>>
  /\ LatchEdge

(* poll() *)
Poll == /\ pc = "app" /\ state # "Uninit"
        /\ pc' = "txwd" /\ ret' = "app" /\ iters' = 0
        /\ UNCHANGED <<chipVars, edge, markers, txActive, timers, cadAuto, fsm,
                       got, faults, history>>

---------------------------------------------------------------------------
(* send() *)

(* Slip: the driver's watchdog is given more time than send() waits. *)
SendLongWatchdog(timeout) ==
  /\ Calling("send")
  /\ NoFault
  /\ mode' = "Tx" /\ dio0' = "TxDone"
  /\ txActive' = TRUE /\ txLeft' = timeout + 2
  /\ state' = "Tx"
  /\ pc' = "arm" /\ sendLeft' = timeout + 1
  /\ air' = "air" /\ fired' = FALSE
  /\ UNCHANGED <<flags, markers, silence, cadAuto, rxCont, ret, iters, got>>
  /\ LatchEdge

(* set_standby() unless in Standby, then SX127xDriver::start_transmit().  It *)
(* arms the watchdog but leaves RegIrqFlags as they are.                     *)
Send(timeout) ==
  /\ Calling("send")
  /\ NoFault
  /\ mode' = "Tx" /\ dio0' = "TxDone"
  /\ txActive' = TRUE /\ txLeft' = timeout
  /\ state' = "Tx"
  /\ pc' = "arm" /\ sendLeft' = timeout + 1
  /\ air' = "air" /\ fired' = FALSE
  /\ UNCHANGED <<flags, markers, silence, cadAuto, rxCont, ret, iters, got>>
  /\ LatchEdge

(* A bad argument is found, or a transfer fails, after set_standby().        *)
(* If the last read-back is what failed the chip is transmitting.            *)
SendFails ==
  /\ Calling("send")
  /\ \/ /\ NoFault /\ SetMode(IF state = "Standby" THEN mode ELSE "Standby")
        /\ state' = "Standby" /\ UNCHANGED dio0
     \/ Fault /\ UNCHANGED <<mode, air, state, dio0>>
     \/ Fault /\ SetMode("Standby") /\ state' = "Standby" /\ dio0' \in {dio0, "TxDone"}
     \/ Fault /\ SetMode("Tx") /\ state' = "Standby" /\ dio0' = "TxDone"
  /\ UNCHANGED <<flags, markers, txActive, timers, cadAuto, rxCont, thread, fired>>
  /\ LatchEdge

(* deadline = now + timeout, read after the driver computed its own: until   *)
(* then the clock does not run against it.                                   *)
SendArm == /\ pc = "arm" /\ pc' = "while"
           /\ UNCHANGED <<chipVars, edge, markers, txActive, timers, cadAuto,
                          fsm, ret, iters, got, faults, history>>

(* while (is_transmitting()) process_events(); the loop's end is the OK.     *)
SendLoop == /\ pc = "while" /\ txActive
            /\ pc' = "txwd" /\ ret' = "late" /\ iters' = 0
            /\ UNCHANGED <<chipVars, edge, markers, txActive, timers, cadAuto,
                           fsm, got, faults, history>>

(* Slip: send() restores the reception it interrupted on paper only. *)
SendRestores(s) == /\ state' = IF rxCont THEN "RxContinuous" ELSE "Standby"
                   /\ sendLeft' = 0
                   /\ pc' = s
                   /\ fired' = FALSE /\ air' = "none"
                   /\ UNCHANGED <<chipVars, edge, markers, txActive, txLeft,
                                  silence, cadAuto, rxCont, ret, iters, got, faults>>

SendReturns(s) == /\ state' = "Standby"
                  /\ sendLeft' = 0
                  /\ pc' = s
                  /\ fired' = FALSE /\ air' = "none"
                  /\ UNCHANGED <<chipVars, edge, markers, txActive, txLeft,
                                 silence, cadAuto, rxCont, ret, iters, got, faults>>

SendOK == pc = "while" /\ ~txActive /\ SendReturns("app")

(* now > deadline *)
SendTimeout == pc = "late" /\ sendLeft = 0 /\ SendReturns("app")

SendAgain == /\ pc = "late" /\ sendLeft > 0 /\ pc' = "while"
             /\ UNCHANGED <<chipVars, edge, markers, txActive, timers, cadAuto,
                            fsm, ret, iters, got, faults, history>>

---------------------------------------------------------------------------
(* SX127xDriver::process_events() *)

Step(from, to) == pc = from /\ pc' = to

(* TX watchdog: force Standby, emit TxTimeout. *)
TxWatchdog ==
  /\ Step("txwd", "silence")
  /\ IF txActive /\ txLeft = 0
     THEN /\ txActive' = FALSE
          /\ fired' = TRUE
          /\ SetModeMayFail("Standby")
     ELSE UNCHANGED <<txActive, fired, mode, air, faults>>
  /\ UNCHANGED <<flags, dio0, edge, markers, timers, cadAuto, fsm, ret, iters, got>>

(* on_driver_event(RxDone or RxTimeout): a single reception is over. *)
ReceptionEnds == IF rxCont THEN state ELSE "Standby"

(* RX-silence watchdog: disarm, emit RxTimeout, then force Standby.          *)
SilenceFires == silence = 0

SilenceWatchdog ==
  /\ Step("silence", "synth")
  /\ IF SilenceFires
     THEN /\ silence' = Disarmed
          /\ state' = ReceptionEnds
          /\ SetModeMayFail("Standby")
     ELSE UNCHANGED <<silence, state, mode, air, faults>>
  /\ UNCHANGED <<flags, dio0, edge, markers, txActive, txLeft, sendLeft, cadAuto,
                 rxCont, ret, iters, got, fired>>

(* Polling mode pushes a marker of its own when the ring is empty. *)
Synthesize ==
  /\ Step("synth", "loop")
  /\ markers' = IF Polling /\ markers = 0 THEN Push(markers) ELSE markers
  /\ UNCHANGED <<chipVars, edge, txActive, timers, cadAuto, fsm, ret, iters,
                 got, faults, history>>

(* Slip: the marker stays in the ring until its flags have been handled. *)
PopLater ==
  /\ Step("loop", "read")
  /\ markers > 0
  /\ UNCHANGED <<markers, iters>>
  /\ UNCHANGED <<chipVars, edge, txActive, timers, cadAuto, fsm, ret, got,
                 faults, history>>

(* The marker leaves the ring before the flags are read. *)
PopMarker ==
  /\ Step("loop", "read")
  /\ markers > 0 /\ iters < Size
  /\ markers' = markers - 1
  /\ iters' = iters + 1
  /\ UNCHANGED <<chipVars, edge, txActive, timers, cadAuto, fsm, ret, got,
                 faults, history>>

LoopEnds ==
  /\ pc = "loop" /\ ~(markers > 0 /\ iters < Size)
  /\ pc' = ret /\ ret' = "app" /\ iters' = 0
  /\ UNCHANGED <<chipVars, edge, markers, txActive, timers, cadAuto, fsm, got,
                 faults, history>>

(* No flag set, or the read failed: on to the next marker. *)
ReadFlags ==
  /\ pc = "read"
  /\ \/ /\ NoFault
        /\ got' = flags
        /\ pc' = IF flags = {} THEN "loop" ELSE "clear"
     \/ Fault /\ pc' = "loop" /\ UNCHANGED got
  /\ UNCHANGED <<chipVars, edge, markers, txActive, timers, cadAuto, fsm, ret,
                 iters, history>>

(* Clears every flag, also one raised since the read.  The result of the     *)
(* write is ignored.                                                         *)
ClearFlags ==
  /\ Step("clear", "dispatch")
  /\ \/ NoFault /\ flags' = {}
     \/ Fault /\ UNCHANGED flags
  /\ UNCHANGED <<mode, dio0, markers, txActive, timers, cadAuto, fsm, ret, iters,
                 got, history>>
  /\ LatchEdge

(* The flags in the order they are examined: a good packet re-arms the       *)
(* silence watchdog whatever the mode; then TxDone; then RxTimeout.  The      *)
(* events RxCrcError and ValidHeader change nothing, in driver and           *)
(* transceiver alike.                                                        *)
GoodPacket == "RxDone" \in got /\ "CrcError" \notin got

(* Slips: any event at all ends the transmission; RxTimeout is not handled. *)
DispatchAnyEvent ==
  /\ Step("dispatch", IF "CadDone" \in got THEN "cad" ELSE "loop")
  /\ silence' = IF GoodPacket /\ SilenceTimeout > 0 THEN SilenceTimeout ELSE silence
  /\ state' = IF GoodPacket \/ "RxTimeout" \in got THEN ReceptionEnds ELSE state
  /\ txActive' = FALSE
  /\ txLeft' = IF txActive' THEN txLeft ELSE 0
  /\ got' = IF "CadDone" \in got THEN got ELSE {}
  /\ UNCHANGED <<chipVars, edge, markers, sendLeft, cadAuto, rxCont, ret, iters,
                 faults, history>>

DispatchNoTimeout ==
  /\ Step("dispatch", IF "CadDone" \in got THEN "cad" ELSE "loop")
  /\ silence' = IF GoodPacket /\ SilenceTimeout > 0 THEN SilenceTimeout ELSE silence
  /\ state' = IF GoodPacket THEN ReceptionEnds ELSE state
  /\ txActive' = (txActive /\ "TxDone" \notin got)
  /\ txLeft' = IF txActive' THEN txLeft ELSE 0
  /\ got' = IF "CadDone" \in got THEN got ELSE {}
  /\ UNCHANGED <<chipVars, edge, markers, sendLeft, cadAuto, rxCont, ret, iters,
                 faults, history>>

Dispatch ==
  /\ Step("dispatch", IF "CadDone" \in got THEN "cad" ELSE "loop")
  /\ silence' = IF GoodPacket /\ SilenceTimeout > 0 THEN SilenceTimeout ELSE silence
  /\ state' = IF GoodPacket \/ "RxTimeout" \in got THEN ReceptionEnds ELSE state
  /\ txActive' = (txActive /\ "TxDone" \notin got)
  /\ txLeft' = IF txActive' THEN txLeft ELSE 0
  /\ got' = IF "CadDone" \in got THEN got ELSE {}
  /\ UNCHANGED <<chipVars, edge, markers, sendLeft, cadAuto, rxCont, ret, iters,
                 faults, history>>

(* CadDone: the event first, then the automatic reception, whose result is   *)
(* ignored and of which the transceiver is not told.                         *)
CadContinues ==
  /\ Step("cad", "loop")
  /\ state' = "Standby"
  /\ IF cadAuto /\ "CadDetected" \in got
     THEN StartReceive(TRUE) \/ StartReceiveFails(TRUE)
     ELSE UNCHANGED <<mode, dio0, silence, faults, air>>
  /\ cadAuto' = FALSE
  /\ got' = {}
  /\ UNCHANGED <<flags, markers, txActive, txLeft, sendLeft, rxCont, ret, iters, fired>>
  /\ LatchEdge

---------------------------------------------------------------------------
Init == /\ mode = "Standby" /\ flags = {} /\ dio0 = "RxDone"
        /\ edge = FALSE /\ markers = 0
        /\ txActive = FALSE /\ txLeft = 0 /\ silence = Disarmed /\ cadAuto = FALSE
        /\ state = "Uninit" /\ rxCont = FALSE
        /\ pc = "app" /\ ret = "app" /\ iters = 0 /\ got = {} /\ sendLeft = 0
        /\ faults = MaxFaults /\ fired = FALSE /\ air = "none"

Application == \/ Begin \/ BeginFails \/ End \/ SetSleep \/ SetStandby \/ StartRx
               \/ \E auto \in BOOLEAN : StartCad(auto)
               \/ \E timeout \in SendTimeouts : Send(timeout)
               \/ SendFails

(* What the thread does inside a call: it never waits for anything. *)
Working == \/ SendArm \/ SendLoop \/ SendOK \/ SendTimeout \/ SendAgain
           \/ TxWatchdog \/ SilenceWatchdog \/ Synthesize \/ PopMarker \/ LoopEnds
           \/ ReadFlags \/ ClearFlags \/ Dispatch \/ CadContinues

Next == Application \/ Poll \/ Working \/ Interrupt \/ Chip \/ Tick

Spec == Init /\ [][Next]_vars

(* The thread runs, the clock advances, interrupts are taken, and the        *)
(* application polls again and again.  The chip owes nothing: it may never   *)
(* finish what it was told to do.                                            *)
Fairness == WF_vars(Working) /\ SF_vars(Tick) /\ WF_vars(Interrupt) /\ SF_vars(Poll)

FairSpec == Spec /\ Fairness

---------------------------------------------------------------------------
(* Properties *)

TypeOK == /\ mode \in Modes /\ flags \subseteq IrqFlags /\ dio0 \in Dio0Sources
          /\ edge \in BOOLEAN /\ markers \in 0 .. MaxMarkers
          /\ txActive \in BOOLEAN /\ txLeft \in Nat
          /\ silence \in {Disarmed} \cup 0 .. SilenceTimeout
          /\ cadAuto \in BOOLEAN
          /\ state \in States /\ rxCont \in BOOLEAN
          /\ pc \in {"app"} \cup ProcessSteps \cup SendSteps
          /\ ret \in {"app", "late"}
          /\ iters \in 0 .. Size /\ got \subseteq IrqFlags
          /\ sendLeft \in Nat
          /\ faults \in 0 .. MaxFaults
          /\ fired \in BOOLEAN /\ air \in {"none", "air", "sent", "cut"}

(* The interrupt is attached to the rising edge alone: a DIO0 line that is   *)
(* high with its edge spent makes the radio deaf for good.  While no SPI     *)
(* transfer has failed, a high line always has a marker to come, a marker in *)
(* the ring, or the thread about to read and clear the flags, although       *)
(* RegDioMapping1 changes under latched flags, the clear wipes flags that    *)
(* were never read and a full ring drops markers.                            *)
NoDeafLine ==
    ~Polling /\ faults = MaxFaults /\ state # "Uninit" /\ LineHigh
      => edge \/ markers > 0 \/ pc \in {"read", "clear"}

(* The silence watchdog is armed whenever the chip receives continuously,    *)
(* also when CAD started the reception and the transceiver knows nothing.    *)
SilenceArmed ==
    SilenceTimeout > 0 /\ faults = MaxFaults /\ mode = "RxCont" => silence # Disarmed

(* No send() leaves the driver transmitting: its watchdog has fired or       *)
(* TxDone was seen, on both of send()'s ways out.  It needs Prompt: if the   *)
(* clock runs on inside a turn of its loop, send() can give up first.        *)
NoOrphanTx == Prompt /\ pc = "app" => ~txActive

(* Between two calls state() and the chip tell the same story, with the      *)
(* chip at most ahead by an event that has not been polled yet.              *)
FsmAgrees ==
    pc = "app" /\ Prompt /\ SilenceTimeout = 0 /\ faults = MaxFaults
      => /\ state = "RxContinuous" => mode = "RxCont"
         /\ state = "RxSingle" => mode \in {"RxSingle", "Standby"}
         /\ state = "Cad" => mode \in {"Cad", "Standby"}
         /\ state = "Sleep" => mode = "Sleep"
         /\ state # "Tx"

(* An OK that is not the watchdog's means this packet left the antenna, not  *)
(* that an earlier packet's TxDone was still latched.  Polling mode only: an  *)
(* interrupt that comes late leaves a TxDone to the next send() when the      *)
(* watchdog has ended the first (RadioStaleDone.cfg).  A failed transfer can  *)
(* refute it: a start_transmit() whose last read-back fails is reported as an *)
(* error with its packet on the air, whose TxDone the next send() takes for   *)
(* its own.                                                                  *)
OkMeansSent == [][SendOK /\ faults = MaxFaults => fired \/ air = "sent"]_vars

(* send() comes back, whatever the chip does and however many SPI transfers  *)
(* fail: the watchdog needs no interrupt and no chip.                        *)
SendComesBack == pc \in SendSteps ~> pc = "app"

(* In polling mode state() leaves RxSingle after a reception that ended in a *)
(* timeout or in a good packet, although the chip ended it by itself and     *)
(* between any two steps of process_events().  Three things can lose it: the *)
(* driver clears all flags after a read that saw only the header of the      *)
(* packet, which is the step EndUnseen is about; a CRC error, old or new,    *)
(* hides RxDone from the dispatch; or a transfer has failed.                 *)
EndsReception(events) ==
    "RxTimeout" \in events \/ ("RxDone" \in events /\ "CrcError" \notin events)
EndUnseen == pc = "clear" /\ EndsReception(flags) /\ ~EndsReception(got)

RxSingleEnds ==
    state = "RxSingle" /\ EndsReception(flags)
      ~> \/ state # "RxSingle"
         \/ EndUnseen \/ "CrcError" \in flags \/ faults < MaxFaults

(* "STANDBY -> RX_SINGLE -> STANDBY (on RxDone/RxTimeout)" (rewrite design,   *)
(* section 4.9), whatever the packet was and whenever the flags were read.   *)
(* It does not hold in either mode: RadioRxSingleLost.cfg shows the header,  *)
(* the CRC error is the other way, and with interrupts RxTimeout is not      *)
(* mapped to DIO0 (RadioRxSingleStuck.cfg).                                  *)
RxSingleAlwaysEnds == state = "RxSingle" /\ mode = "Standby" ~> state # "RxSingle"

(* "send() returns TxTimeout -- Watchdog: chip didn't fire TxDone in time"   *)
(* (USAGE.md): a send() whose watchdog fired does not return OK.             *)
WatchdogIsReported == [][SendOK => ~fired]_vars

(* "emit RxTimeout if no RxDone seen in this window during RX_CONTINUOUS"    *)
(* (lora_config.hpp): the silence watchdog never fires in another mode.      *)
SilenceOnlyInRxCont ==
    [][SilenceWatchdog /\ SilenceFires => mode = "RxCont"]_vars
=============================================================================
