----------------------------- MODULE Callbacks -----------------------------
(***************************************************************************)
(* User callbacks that call back into the transceiver.  One thread, in       *)
(* polling mode: every frame of its call stack is process_events(),          *)
(* on_driver_event(), send()'s loop or a user callback, and a callback may    *)
(* make any call an application may make.  What a frame does after a          *)
(* callback has returned meets whatever the callback did.                    *)
(***************************************************************************)
EXTENDS Integers, Sequences, FiniteSets

CONSTANTS
  Calls,        \* calls the application and its callbacks make
  Silence,      \* rx_silence_timeout_ms > 0
  MaxCalls,     \* calls in a behaviour
  MaxPackets    \* packets received in a behaviour

CallNames == {"standby", "receive", "single", "send", "cad", "cad-auto", "end",
              "begin", "poll"}

ASSUME CallsAssumption == Calls \subseteq CallNames /\ Silence \in BOOLEAN
ASSUME BoundsAssumption == MaxCalls \in Nat /\ MaxPackets \in Nat

VARIABLES
  mode, flags,        \* chip: RegOpMode, RegIrqFlags
  packets,            \* chip: the last packet received
  carried,            \* chip: the send() whose packet is on the air, or 0
  alive,              \* driver: initialized_, with its event_cb_
  txActive, due,      \* driver: tx_in_progress_; clock: tx_deadline_ms_ is over
  silence,            \* driver and clock: rx_silence_deadline_ms_
  cadAuto,            \* driver: cad_auto_rx_
  state, rxCont,      \* transceiver: state_, rx_continuous_
  registered,         \* transceiver: the user's callbacks are set
  rxBuf,              \* transceiver: the packet in rx_buf_
  stack,              \* thread: its frames, the running one first
  calls,              \* bound; also names the calls of send()
  sent, late,         \* history: calls of send() whose packet went out, timed out
  nested,             \* history: send() or end() was called inside a send()
  listening,          \* history: start_receive(true) was the last to change mode
  closed              \* history: end() was the last of begin() and end()

chipVars == <<mode, flags, packets, carried>>
driverVars == <<alive, txActive, due, silence, cadAuto>>
fsmVars == <<state, rxCont, registered, rxBuf>>
history == <<sent, late, nested, listening, closed>>
vars == <<chipVars, driverVars, fsmVars, stack, calls, history>>

Modes == {"Sleep", "Standby", "RxCont", "RxSingle", "Tx", "Cad"}
IrqFlags == {"RxDone", "TxDone", "RxTimeout", "CadDone", "CadDetected"}
Events == {"RxDone", "TxDone", "TxTimeout", "RxTimeout", "CadDone"}

(* A frame: where it is, and what it knows. *)
Frame(at) == [at |-> at, got |-> {}, event |-> "none", id |-> 0]
EventFrame(e) == [Frame("event") EXCEPT !.event = e]
UserFrame(p) == [Frame("user") EXCEPT !.id = p]
SendFrame(id) == [Frame("while") EXCEPT !.id = id]

Top == Head(stack)
At(place) == stack # << >> /\ Top.at = place
Here(place) == [Top EXCEPT !.at = place]

GoTo(place) == stack' = <<Here(place)>> \o Tail(stack)
CallThen(frames, place) == stack' = frames \o <<Here(place)>> \o Tail(stack)
Return == stack' = Tail(stack)

(* emit() and the lambda behind event_cb_. *)
Emitted(e) == IF alive' THEN <<EventFrame(e)>> ELSE << >>
(* A user callback, if one is set. *)
Invoked(p) == IF registered THEN <<UserFrame(p)>> ELSE << >>

User == stack = << >> \/ At("user")

---------------------------------------------------------------------------
(* Chip and clock (external) *)

ChipPacket == /\ mode \in {"RxCont", "RxSingle"} /\ packets < MaxPackets
              /\ packets' = packets + 1
              /\ flags' = flags \cup {"RxDone"}
              /\ mode' = IF mode = "RxSingle" THEN "Standby" ELSE mode
              /\ UNCHANGED <<carried, sent>>

ChipRxTimeout == /\ mode = "RxSingle"
                 /\ mode' = "Standby" /\ flags' = flags \cup {"RxTimeout"}
                 /\ UNCHANGED <<packets, carried, sent>>

ChipTxDone == /\ mode = "Tx"
              /\ mode' = "Standby" /\ flags' = flags \cup {"TxDone"}
              /\ sent' = sent \cup {carried} /\ carried' = 0
              /\ UNCHANGED packets

ChipCadDone == /\ mode = "Cad"
               /\ mode' = "Standby"
               /\ \E d \in {{}, {"CadDetected"}} : flags' = flags \cup {"CadDone"} \cup d
               /\ UNCHANGED <<packets, carried, sent>>

Chip == /\ ChipPacket \/ ChipRxTimeout \/ ChipTxDone \/ ChipCadDone
        /\ UNCHANGED <<driverVars, fsmVars, stack, calls, late, nested, listening, closed>>

Sends == {i \in 1 .. Len(stack) : stack[i].at \in {"while", "late"}}

(* The transmission's timeout passes, or the silence timeout. *)
Tick == /\ \/ /\ ~due /\ due' = TRUE
              /\ late' = late \cup {stack[i].id : i \in Sends}
              /\ UNCHANGED silence
           \/ /\ silence = "running" /\ silence' = "over"
              /\ UNCHANGED <<due, late>>
        /\ UNCHANGED <<chipVars, alive, txActive, cadAuto, fsmVars, stack, calls,
                       sent, nested, listening, closed>>

---------------------------------------------------------------------------
(* Calls, from the application or from a callback *)

(* A mode change that leaves Tx cuts the packet short. *)
SetMode(m) == mode' = m /\ carried' = IF m = "Tx" THEN calls' ELSE 0

Calling(name) == /\ User /\ name \in Calls /\ calls < MaxCalls
                 /\ calls' = calls + 1

(* Slip: the driver trusts the transceiver's state. *)
UpForFsm == state # "Uninit"

(* The transceiver and the driver each refuse the call when they are not up.  *)
Up == state # "Uninit" /\ alive

(* set_standby(). *)
SetStandby == /\ Calling("standby") /\ Up
              /\ SetMode("Standby") /\ state' = "Standby"
              /\ listening' = FALSE
              /\ UNCHANGED <<flags, packets, driverVars, rxCont, registered, rxBuf,
                             stack, sent, late, nested, closed>>

(* The driver's start_receive(). *)
DriverReceives(c) == /\ SetMode(IF c THEN "RxCont" ELSE "RxSingle")
                     /\ silence' = IF c /\ Silence THEN "running" ELSE "off"

StartReceive(c) ==
  /\ Calling(IF c THEN "receive" ELSE "single") /\ Up
  /\ DriverReceives(c)
  /\ state' = IF c THEN "RxContinuous" ELSE "RxSingle"
  /\ rxCont' = c /\ listening' = c
  /\ UNCHANGED <<flags, packets, alive, txActive, due, cadAuto, registered, rxBuf,
                 stack, sent, late, nested, closed>>

StartCad(auto) ==
  /\ Calling(IF auto THEN "cad-auto" ELSE "cad") /\ Up
  /\ SetMode("Cad") /\ cadAuto' = auto /\ state' = "Cad"
  /\ listening' = FALSE
  /\ UNCHANGED <<flags, packets, alive, txActive, due, silence, rxCont, registered,
                 rxBuf, stack, sent, late, nested, closed>>

(* send() up to its loop. *)
Send == /\ Calling("send") /\ Up
        /\ SetMode("Tx") /\ txActive' = TRUE /\ due' = FALSE
        /\ state' = "Tx" /\ listening' = FALSE
        /\ stack' = <<SendFrame(calls')>> \o stack
        /\ nested' = (nested \/ Sends # {})
        /\ UNCHANGED <<flags, packets, alive, silence, cadAuto, rxCont, registered,
                       rxBuf, sent, late, closed>>

Poll == /\ Calling("poll") /\ state # "Uninit"
        /\ stack' = <<Frame("watchdog")>> \o stack
        /\ UNCHANGED <<chipVars, driverVars, fsmVars, history>>

(* Slip: end() is built on set_sleep(), which has a state of its own. *)
EndedAsleep == state' = "Sleep" /\ registered' = FALSE

(* Slip: end() detaches the driver and forgets the user's callbacks. *)
EndedKeeping == state' = "Uninit" /\ UNCHANGED registered

(* The transceiver's end(), after the driver's. *)
Ended == state' = "Uninit" /\ registered' = FALSE

End == /\ Calling("end") /\ state # "Uninit"
       /\ IF alive THEN SetMode("Sleep") ELSE UNCHANGED <<mode, carried>>
       /\ alive' = FALSE /\ txActive' = FALSE /\ silence' = "off" /\ cadAuto' = FALSE
       /\ Ended /\ listening' = FALSE /\ closed' = TRUE
       /\ nested' = (nested \/ Sends # {})
       /\ UNCHANGED <<flags, packets, due, rxCont, rxBuf, stack, sent, late>>

(* begin(), and the callbacks are set again. *)
Begin == /\ Calling("begin") /\ state = "Uninit"
         /\ SetMode("Standby") /\ flags' = {}
         /\ alive' = TRUE /\ state' = "Standby" /\ registered' = TRUE
         /\ closed' = FALSE
         /\ UNCHANGED <<packets, txActive, due, silence, cadAuto, rxCont, rxBuf, stack,
                        sent, late, nested, listening>>

Call == \/ SetStandby \/ StartReceive(TRUE) \/ StartReceive(FALSE)
        \/ StartCad(TRUE) \/ StartCad(FALSE) \/ Send \/ Poll \/ End \/ Begin

---------------------------------------------------------------------------
(* process_events() *)

TxWatchdog ==
  /\ At("watchdog")
  /\ IF txActive /\ due
       THEN /\ txActive' = FALSE /\ mode' = "Standby" /\ carried' = 0
            /\ UNCHANGED alive
            /\ CallThen(Emitted("TxTimeout"), "silence")
       ELSE GoTo("silence") /\ UNCHANGED <<txActive, alive, mode, carried>>
  /\ UNCHANGED <<flags, packets, due, silence, cadAuto, fsmVars, calls, history>>

(* The silence watchdog has stopped the reception from here on. *)
SilenceFires ==
  /\ At("silence") /\ silence = "over"
  /\ silence' = "off" /\ listening' = FALSE
  /\ UNCHANGED alive
  /\ CallThen(Emitted("RxTimeout"), "silenced")
  /\ UNCHANGED <<chipVars, txActive, due, cadAuto, fsmVars, calls, sent, late, nested,
                 closed>>

SilenceIdle ==
  /\ At("silence") /\ silence # "over" /\ GoTo("read")
  /\ UNCHANGED <<chipVars, driverVars, fsmVars, calls, history>>

(* set_op_mode(Standby), after the event. *)
Silenced ==
  /\ At("silenced") /\ GoTo("read")
  /\ mode' = "Standby" /\ carried' = 0
  /\ UNCHANGED <<flags, packets, driverVars, fsmVars, calls, history>>

(* end() has cleared polling_mode with the rest of the configuration. *)
NothingToRead ==
  /\ At("read") /\ ~alive /\ Return
  /\ UNCHANGED <<chipVars, driverVars, fsmVars, calls, history>>

ReadFlags ==
  /\ At("read") /\ alive
  /\ stack' = <<[Here("rx") EXCEPT !.got = flags]>> \o Tail(stack)
  /\ flags' = {}
  /\ UNCHANGED <<mode, packets, carried, driverVars, fsmVars, calls, history>>

(* One flag after the other: the event of the first is over, callbacks and   *)
(* all, before the next is looked at.                                        *)
RxDoneEvent ==
  /\ At("rx")
  /\ IF "RxDone" \in Top.got
       THEN /\ silence' = IF Silence THEN "running" ELSE silence
            /\ UNCHANGED alive /\ CallThen(Emitted("RxDone"), "tx")
       ELSE GoTo("tx") /\ UNCHANGED <<silence, alive>>
  /\ UNCHANGED <<chipVars, txActive, due, cadAuto, fsmVars, calls, history>>

(* Slip: whatever ends an operation ends the transmission. *)
TxDoneOrTimeout ==
  /\ At("tx")
  /\ IF {"TxDone", "RxTimeout"} \cap Top.got # {}
       THEN /\ txActive' = FALSE
            /\ UNCHANGED alive /\ CallThen(Emitted("TxDone"), "timeout")
       ELSE GoTo("timeout") /\ UNCHANGED <<txActive, alive>>
  /\ UNCHANGED <<chipVars, due, silence, cadAuto, fsmVars, calls, history>>

TxDoneEvent ==
  /\ At("tx")
  /\ IF "TxDone" \in Top.got
       THEN /\ txActive' = FALSE
            /\ UNCHANGED alive /\ CallThen(Emitted("TxDone"), "timeout")
       ELSE GoTo("timeout") /\ UNCHANGED <<txActive, alive>>
  /\ UNCHANGED <<chipVars, due, silence, cadAuto, fsmVars, calls, history>>

RxTimeoutEvent ==
  /\ At("timeout")
  /\ UNCHANGED alive
  /\ CallThen(IF "RxTimeout" \in Top.got THEN Emitted("RxTimeout") ELSE << >>, "cad")
  /\ UNCHANGED <<chipVars, txActive, due, silence, cadAuto, fsmVars, calls, history>>

CadDoneEvent ==
  /\ At("cad")
  /\ UNCHANGED alive
  /\ IF "CadDone" \in Top.got THEN CallThen(Emitted("CadDone"), "after-cad") ELSE Return
  /\ UNCHANGED <<chipVars, txActive, due, silence, cadAuto, fsmVars, calls, history>>

(* start_receive() is refused once a callback has called end(). *)
AutoReceives == cadAuto /\ "CadDetected" \in Top.got /\ alive

(* The automatic reception, after the event. *)
AfterCad ==
  /\ At("after-cad") /\ Return
  /\ IF AutoReceives
       THEN DriverReceives(TRUE) /\ calls' = calls
       ELSE UNCHANGED <<mode, carried, silence, calls>>
  /\ cadAuto' = FALSE
  /\ UNCHANGED <<flags, packets, alive, txActive, due, fsmVars, history>>

ProcessEvents == \/ TxWatchdog \/ SilenceFires \/ SilenceIdle \/ Silenced \/ NothingToRead
                 \/ ReadFlags \/ RxDoneEvent \/ TxDoneEvent \/ RxTimeoutEvent
                 \/ CadDoneEvent \/ AfterCad

---------------------------------------------------------------------------
(* on_driver_event() *)

(* The user's event callback comes first. *)
EventCallback ==
  /\ At("event") /\ CallThen(Invoked(0), "switch")
  /\ UNCHANGED <<chipVars, driverVars, fsmVars, calls, history>>

PacketCallback ==
  /\ At("switch") /\ Top.event = "RxDone"
  /\ IF alive THEN rxBuf' = packets /\ CallThen(Invoked(packets), "end-rx")
              ELSE GoTo("end-rx") /\ UNCHANGED rxBuf
  /\ UNCHANGED <<chipVars, driverVars, state, rxCont, registered, calls, history>>

TxDoneCallback ==
  /\ At("switch") /\ Top.event \in {"TxDone", "TxTimeout"}
  /\ stack' = Invoked(0) \o Tail(stack)
  /\ UNCHANGED <<chipVars, driverVars, fsmVars, calls, history>>

(* A reception that is not continuous is over, and so is CAD. *)
EventEnds ==
  /\ \/ At("end-rx")
     \/ At("switch") /\ Top.event \in {"RxTimeout", "CadDone"}
  /\ Return
  /\ state' = IF ~rxCont \/ Top.event = "CadDone" THEN "Standby" ELSE state
  /\ UNCHANGED <<chipVars, driverVars, rxCont, registered, rxBuf, calls, history>>

OnDriverEvent == EventCallback \/ PacketCallback \/ TxDoneCallback \/ EventEnds

UserReturns == /\ At("user") /\ Return
               /\ UNCHANGED <<chipVars, driverVars, fsmVars, calls, history>>

---------------------------------------------------------------------------
(* send()'s loop *)

SendTurn == /\ At("while") /\ txActive
            /\ CallThen(<<Frame("watchdog")>>, "late")
            /\ UNCHANGED <<chipVars, driverVars, fsmVars, calls, history>>

SendReturns == /\ Return /\ state' = "Standby"
               /\ UNCHANGED <<chipVars, driverVars, rxCont, registered, rxBuf, calls,
                              history>>

SendOK == At("while") /\ ~txActive /\ SendReturns

SendTimeout == At("late") /\ Top.id \in late /\ SendReturns

SendAgain == /\ At("late") /\ Top.id \notin late /\ GoTo("while")
             /\ UNCHANGED <<chipVars, driverVars, fsmVars, calls, history>>

SendLoop == SendTurn \/ SendOK \/ SendTimeout \/ SendAgain

---------------------------------------------------------------------------
(* After begin(), with every callback set. *)
Init == /\ mode = "Standby" /\ flags = {} /\ packets = 0 /\ carried = 0
        /\ alive = TRUE /\ txActive = FALSE /\ due = TRUE /\ silence = "off"
        /\ cadAuto = FALSE /\ state = "Standby" /\ rxCont = FALSE
        /\ registered = TRUE /\ rxBuf = 0 /\ stack = << >> /\ calls = 0
        /\ sent = {} /\ late = {} /\ nested = FALSE /\ listening = FALSE /\ closed = FALSE

Thread == ProcessEvents \/ OnDriverEvent \/ UserReturns \/ SendLoop

(* The application may stop calling; a frame has to go on. *)
Idle == stack = << >> /\ UNCHANGED vars

Next == Chip \/ Tick \/ Call \/ Thread \/ Idle

Spec == Init /\ [][Next]_vars

---------------------------------------------------------------------------
(* Properties *)

Places == {"watchdog", "silence", "silenced", "read", "rx", "tx", "timeout", "cad",
           "after-cad", "event", "switch", "end-rx", "user", "while", "late"}
Frames == [at : Places, got : SUBSET IrqFlags, event : {"none"} \cup Events, id : Nat]

(* Types of the chip, the driver, the transceiver and the stack. *)
TypeOK == /\ mode \in Modes /\ flags \subseteq IrqFlags
          /\ packets \in 0 .. MaxPackets /\ carried \in 0 .. MaxCalls
          /\ {alive, txActive, due, cadAuto, rxCont, registered, nested, listening,
              closed} \subseteq BOOLEAN
          /\ silence \in {"off", "running", "over"}
          /\ state \in {"Uninit", "Standby", "Tx", "RxSingle", "RxContinuous",
                        "Cad"}
          /\ rxBuf \in 0 .. MaxPackets /\ stack \in Seq(Frames)
          /\ calls \in 0 .. MaxCalls

(* The depths of a stack at which a callback of the user runs. *)
UserDepths(s) == {d \in 0 .. Len(s) - 1 : s[Len(s) - d].at = "user"}

(* After end() no callback of the user is started any more, whichever frames *)
(* were still to return.                                                     *)
NoCallbackAfterEnd == [][closed => UserDepths(stack') \subseteq UserDepths(stack)]_vars

(* After end() the chip neither sends, receives nor listens for activity,    *)
(* whatever process_events() and send() still have to do.                    *)
QuietAfterEnd == closed => mode \in {"Sleep", "Standby"}

(* What a callback was given stays in rx_buf_ until it returns.              *)
BufferIsStable == \A i \in 1 .. Len(stack) :
                    stack[i].at = "user" /\ stack[i].id # 0 => rxBuf = stack[i].id

(* Once the application has asked for continuous reception, the chip stays   *)
(* in it until it is told otherwise or the silence watchdog fires.           *)
KeepsListening == listening => mode = "RxCont"

(* After end() the transceiver is Uninit and the chip asleep.                *)
EndIsFinal == stack = << >> /\ closed => state = "Uninit" /\ mode = "Sleep"

(* As long as no transmission has timed out and no callback of a send() has   *)
(* called send() or end(), send() answers OK only for a packet that went out  *)
(* whole, whatever else the callbacks of its loop called.                     *)
OkMeansSent == [][SendOK /\ late = {} /\ ~nested => Top.id \in sent]_vars

(* A callback that answers a packet may expect the same: CallbacksReply.cfg.  *)
RepliesAreSent == [][SendOK /\ late = {} => Top.id \in sent]_vars

(* state() says RxContinuous when the application has asked for it.          *)
StateFollows == stack = << >> /\ listening => state = "RxContinuous"
=============================================================================
