---------------------------- MODULE RadioProofs ----------------------------
(***************************************************************************)
(* Theorems about Radio for every ring size, timeout, set of calls and      *)
(* number of failing SPI transfers.  Type correctness is proved in three    *)
(* groups of variables (numbers, flags that are true or false, the rest):   *)
(* the invariants after it are then about single facts of each action.      *)
(* The last three parts (the silence watchdog is armed whenever it is       *)
(* needed, state() follows the chip, in polling mode the OK of send() is    *)
(* true) are about histories in which no SPI transfer has failed.           *)
(***************************************************************************)
EXTENDS Radio, TLAPS

USE MarkersAssumption, TimeAssumption, FaultsAssumption

Numbers == /\ markers \in 0 .. MaxMarkers
           /\ txLeft \in Nat
           /\ silence \in {Disarmed} \cup 0 .. SilenceTimeout
           /\ iters \in 0 .. Size
           /\ sendLeft \in Nat
           /\ faults \in 0 .. MaxFaults

Booleans == /\ edge \in BOOLEAN /\ txActive \in BOOLEAN /\ cadAuto \in BOOLEAN
            /\ rxCont \in BOOLEAN /\ fired \in BOOLEAN

ChipSymbols == /\ mode \in Modes /\ flags \subseteq IrqFlags /\ dio0 \in Dio0Sources
               /\ got \subseteq IrqFlags
               /\ air \in {"none", "air", "sent", "cut"}

Places == /\ pc \in {"app"} \cup ProcessSteps \cup SendSteps
          /\ ret \in {"app", "late"}

StateOK == state \in States

LEMMA TypeGroups == TypeOK <=> Numbers /\ Booleans /\ ChipSymbols /\ Places /\ StateOK
  BY DEF TypeOK, Numbers, Booleans, ChipSymbols, Places, StateOK

LEMMA TypeInit == Init => TypeOK
  <1>. SUFFICES ASSUME Init PROVE Numbers /\ Booleans /\ ChipSymbols /\ Places /\ StateOK
    BY TypeGroups
  <1>1. Numbers
    BY DEF Init, Numbers, Disarmed, Size
  <1>2. Booleans
    BY DEF Init, Booleans
  <1>3. ChipSymbols
    BY DEF Init, ChipSymbols, Modes, Dio0Sources
  <1>4. Places /\ StateOK
    BY DEF Init, Places, StateOK, States
  <1>. QED
    BY <1>1, <1>2, <1>3, <1>4

(* Whatever start_receive() does, it counts at most one failing transfer     *)
(* and arms the silence watchdog with its timeout, leaves it, or disarms it. *)
LEMMA StartReceiveNumbers ==
    ASSUME Numbers, NEW c \in BOOLEAN, StartReceive(c) \/ StartReceiveFails(c)
    PROVE  /\ silence' \in {Disarmed} \cup 0 .. SilenceTimeout
           /\ faults' \in 0 .. MaxFaults
  <1>1. CASE StartReceive(c)
    <2>1. silence' = SilenceTimeout \/ silence' = Disarmed
      BY <1>1 DEF StartReceive
    <2>2. faults' = faults
      BY <1>1 DEF StartReceive, NoFault
    <2>. QED
      BY <2>1, <2>2 DEF Numbers
  <1>2. CASE StartReceiveFails(c)
    <2>1. silence' = silence \/ silence' = Disarmed
      BY <1>2 DEF StartReceiveFails
    <2>2. faults > 0 /\ faults' = faults - 1
      BY <1>2 DEF StartReceiveFails, Fault
    <2>. QED
      BY <2>1, <2>2 DEF Numbers
  <1>. QED
    BY <1>1, <1>2

(* The numbers. *)
LEMMA NumbersStep == Numbers /\ [Next]_vars => Numbers'
  <1>. SUFFICES ASSUME Numbers, [Next]_vars
                PROVE  Numbers'
    OBVIOUS
  <1>. USE DEF Numbers, timers, history, thread, fsm, chipVars, Size, Disarmed,
               Fault, NoFault, Calling, Step
  <1>1. CASE Interrupt
    BY <1>1 DEF Interrupt, Push
  <1>2. CASE Chip
    BY <1>2 DEF Chip
  <1>3. CASE Tick
    BY <1>3 DEF Tick, Down
  <1>4. CASE Begin \/ BeginFails \/ End
    BY <1>4 DEF Begin, BeginFails, End, SetModeMayFail
  <1>5. CASE SetSleep \/ SetStandby
    BY <1>5 DEF SetSleep, SetStandby, Quiet
  <1>6. CASE StartRx
    <2>1. PICK c \in BOOLEAN : StartReceive(c) \/ StartReceiveFails(c)
      BY <1>6 DEF StartRx, Receive
    <2>2. UNCHANGED <<markers, txLeft, sendLeft, iters>>
      BY <1>6 DEF StartRx, Receive
    <2>. QED
      BY <2>1, <2>2, StartReceiveNumbers
  <1>7. ASSUME NEW auto \in BOOLEAN, StartCad(auto)
        PROVE  Numbers'
    BY <1>7 DEF StartCad
  <1>8. ASSUME NEW timeout \in SendTimeouts, Send(timeout)
        PROVE  Numbers'
    BY <1>8 DEF Send
  <1>9. CASE SendFails
    BY <1>9 DEF SendFails
  <1>10. CASE Poll \/ SendArm \/ SendLoop \/ SendOK \/ SendTimeout \/ SendAgain
    BY <1>10 DEF Poll, SendArm, SendLoop, SendOK, SendTimeout, SendAgain, SendReturns
  <1>11. CASE TxWatchdog
    BY <1>11 DEF TxWatchdog, SetModeMayFail
  <1>12. CASE SilenceWatchdog
    BY <1>12 DEF SilenceWatchdog, SetModeMayFail
  <1>13. CASE Synthesize
    BY <1>13 DEF Synthesize, Push
  <1>14. CASE PopMarker \/ LoopEnds
    BY <1>14 DEF PopMarker, LoopEnds
  <1>15. CASE ReadFlags \/ ClearFlags
    BY <1>15 DEF ReadFlags, ClearFlags
  <1>16. CASE Dispatch
    BY <1>16 DEF Dispatch
  <1>17. CASE CadContinues
    <2>1. UNCHANGED <<markers, txLeft, sendLeft, iters>>
      BY <1>17 DEF CadContinues
    <2>2. StartReceive(TRUE) \/ StartReceiveFails(TRUE) \/ UNCHANGED <<silence, faults>>
      BY <1>17 DEF CadContinues
    <2>. QED
      BY <2>1, <2>2, StartReceiveNumbers
  <1>18. CASE UNCHANGED vars
    BY <1>18 DEF vars
  <1>. QED
    BY <1>1, <1>2, <1>3, <1>4, <1>5, <1>6, <1>7, <1>8, <1>9, <1>10, <1>11, <1>12,
       <1>13, <1>14, <1>15, <1>16, <1>17, <1>18 DEF Next, Application, Working

(* The flags that are true or false. *)
LEMMA BooleansStep == Booleans /\ [Next]_vars => Booleans'
  <1>. SUFFICES ASSUME Booleans, [Next]_vars
                PROVE  Booleans'
    OBVIOUS
  <1>. USE DEF Booleans, timers, history, thread, fsm, chipVars, LatchEdge
  <1>1. CASE Interrupt \/ Tick \/ Poll
    BY <1>1 DEF Interrupt, Tick, Poll
  <1>2. CASE Chip
    BY <1>2 DEF Chip, ChipTxDone, ChipHeader, ChipPacket, ChipRxTimeout,
                      ChipCadDone
  <1>3. CASE Begin \/ BeginFails \/ End
    BY <1>3 DEF Begin, BeginFails, End
  <1>4. CASE SetSleep \/ SetStandby
    BY <1>4 DEF SetSleep, SetStandby, Quiet
  <1>5. CASE StartRx
    BY <1>5 DEF StartRx, Receive
  <1>6. ASSUME NEW auto \in BOOLEAN, StartCad(auto)
        PROVE  Booleans'
    BY <1>6 DEF StartCad
  <1>7. ASSUME NEW timeout \in SendTimeouts, Send(timeout)
        PROVE  Booleans'
    BY <1>7 DEF Send
  <1>8. CASE SendFails
    BY <1>8 DEF SendFails
  <1>9. CASE SendArm \/ SendLoop \/ SendOK \/ SendTimeout \/ SendAgain
    BY <1>9 DEF SendArm, SendLoop, SendOK, SendTimeout, SendAgain, SendReturns
  <1>10. CASE TxWatchdog \/ SilenceWatchdog
    BY <1>10 DEF TxWatchdog, SilenceWatchdog
  <1>11. CASE Synthesize \/ PopMarker \/ LoopEnds
    BY <1>11 DEF Synthesize, PopMarker, LoopEnds
  <1>12. CASE ReadFlags \/ ClearFlags \/ Dispatch \/ CadContinues
    BY <1>12 DEF ReadFlags, ClearFlags, Dispatch, CadContinues
  <1>13. CASE UNCHANGED vars
    BY <1>13 DEF vars
  <1>. QED
    BY <1>1, <1>2, <1>3, <1>4, <1>5, <1>6, <1>7, <1>8, <1>9, <1>10, <1>11, <1>12,
       <1>13 DEF Next, Application, Working

(* set_op_mode() and start_receive() leave the chip in a mode it has. *)
LEMMA SetModeSymbols ==
    ASSUME ChipSymbols, NEW m, SetMode(m)
    PROVE  mode' = m /\ air' \in {"none", "air", "sent", "cut"}
  BY DEF ChipSymbols, SetMode

LEMMA StartReceiveSymbols ==
    ASSUME ChipSymbols, NEW c \in BOOLEAN, StartReceive(c) \/ StartReceiveFails(c)
    PROVE  /\ mode' \in Modes
           /\ air' \in {"none", "air", "sent", "cut"}
           /\ dio0' \in Dio0Sources
  <1>1. RxMode(c) \in Modes
    BY DEF RxMode, Modes
  <1>2. PICK m \in Modes : SetMode(m)
    BY <1>1 DEF StartReceive, StartReceiveFails, ChipSymbols, Modes
  <1>3. dio0' \in Dio0Sources
    BY DEF StartReceive, StartReceiveFails, ChipSymbols, Dio0Sources
  <1>. QED
    BY <1>2, <1>3, SetModeSymbols

(* The chip's modes, its flags and the copy of them the thread works on. *)
LEMMA ChipSymbolsStep == ChipSymbols /\ [Next]_vars => ChipSymbols'
  <1>. SUFFICES ASSUME ChipSymbols, [Next]_vars
                PROVE  ChipSymbols'
    OBVIOUS
  <1>. USE DEF ChipSymbols, chipVars, thread, history
  <1>1. CASE Interrupt
    BY <1>1 DEF Interrupt
  <1>2. CASE Tick
    BY <1>2 DEF Tick
  <1>3. CASE Poll
    BY <1>3 DEF Poll
  <1>4. CASE ChipTxDone /\ Chip
    BY <1>4 DEF ChipTxDone, Chip, Raise, IrqFlags, Modes
  <1>5. CASE ChipPacket /\ Chip
    BY <1>5 DEF ChipPacket, Chip, PacketEnds, Raise, IrqFlags, Modes
  <1>6. CASE ChipRxTimeout /\ Chip
    BY <1>6 DEF ChipRxTimeout, Chip, Raise, IrqFlags, Modes
  <1>7. CASE ChipCadDone /\ Chip
    BY <1>7 DEF ChipCadDone, Chip, Raise, IrqFlags, Modes
  <1>26. CASE ChipHeader /\ Chip
    BY <1>26 DEF ChipHeader, Chip, Raise, IrqFlags, Modes
  <1>8. CASE Begin
    BY <1>8, SetModeSymbols DEF Begin, Modes, Dio0Sources
  <1>9. CASE BeginFails
    BY <1>9, SetModeSymbols DEF BeginFails, Modes, Dio0Sources
  <1>10. CASE End
    BY <1>10, SetModeSymbols DEF End, SetModeMayFail, Modes
  <1>11. CASE SetSleep
    BY <1>11, SetModeSymbols DEF SetSleep, Quiet, Modes
  <1>12. CASE SetStandby
    BY <1>12, SetModeSymbols DEF SetStandby, Quiet, Modes
  <1>13. CASE StartRx
    BY <1>13, StartReceiveSymbols DEF StartRx, Receive
  <1>14. ASSUME NEW auto \in BOOLEAN, StartCad(auto)
         PROVE  ChipSymbols'
    BY <1>14, SetModeSymbols DEF StartCad, LastEvent, PacketEnds, Raise, IrqFlags, Modes,
                                 Dio0Sources
  <1>15. ASSUME NEW timeout \in SendTimeouts, Send(timeout)
         PROVE  ChipSymbols'
    BY <1>15 DEF Send, Modes, Dio0Sources
  <1>16. CASE SendFails
    BY <1>16, SetModeSymbols DEF SendFails, Modes, Dio0Sources
  <1>17. CASE SendArm \/ SendLoop \/ SendAgain
    BY <1>17 DEF SendArm, SendLoop, SendAgain
  <1>18. CASE SendOK \/ SendTimeout
    BY <1>18 DEF SendOK, SendTimeout, SendReturns
  <1>19. CASE TxWatchdog
    BY <1>19, SetModeSymbols DEF TxWatchdog, SetModeMayFail, Modes
  <1>20. CASE SilenceWatchdog
    BY <1>20, SetModeSymbols DEF SilenceWatchdog, SetModeMayFail, Modes
  <1>21. CASE Synthesize \/ PopMarker \/ LoopEnds
    BY <1>21 DEF Synthesize, PopMarker, LoopEnds
  <1>22. CASE ReadFlags \/ ClearFlags
    BY <1>22 DEF ReadFlags, ClearFlags
  <1>23. CASE Dispatch
    BY <1>23 DEF Dispatch
  <1>24. CASE CadContinues
    BY <1>24, StartReceiveSymbols DEF CadContinues
  <1>25. CASE UNCHANGED vars
    BY <1>25 DEF vars
  <1>. QED
    BY <1>1, <1>2, <1>3, <1>4, <1>5, <1>6, <1>7, <1>8, <1>9, <1>10, <1>11, <1>12,
       <1>13, <1>14, <1>15, <1>16, <1>17, <1>18, <1>19, <1>20, <1>21, <1>22,
       <1>23, <1>24, <1>25, <1>26 DEF Next, Application, Working, Chip

(* Where the thread stands. *)
LEMMA PlacesStep == Places /\ [Next]_vars => Places'
  <1>. SUFFICES ASSUME Places, [Next]_vars
                PROVE  Places'
    OBVIOUS
  <1>. USE DEF Places, thread, ProcessSteps, SendSteps, Step
  <1>1. CASE thread' = thread
    BY <1>1
  <1>2. CASE Poll \/ SendArm \/ SendLoop \/ SendOK \/ SendTimeout \/ SendAgain
    BY <1>2 DEF Poll, SendArm, SendLoop, SendOK, SendTimeout, SendAgain, SendReturns
  <1>3. CASE TxWatchdog \/ SilenceWatchdog
    BY <1>3 DEF TxWatchdog, SilenceWatchdog
  <1>4. CASE Synthesize \/ PopMarker \/ LoopEnds
    BY <1>4 DEF Synthesize, PopMarker, LoopEnds
  <1>5. CASE ReadFlags \/ ClearFlags \/ CadContinues
    BY <1>5 DEF ReadFlags, ClearFlags, CadContinues
  <1>6. CASE Dispatch
    BY <1>6 DEF Dispatch
  <1>7. ASSUME NEW timeout \in SendTimeouts, Send(timeout)
        PROVE  Places'
    BY <1>7 DEF Send
  <1>8. CASE Interrupt \/ Chip \/ Tick \/ UNCHANGED vars
    BY <1>8, <1>1 DEF Interrupt, Chip, Tick, vars
  <1>9. CASE Begin \/ BeginFails \/ End \/ SetSleep \/ SetStandby \/ StartRx \/ SendFails
    BY <1>9, <1>1 DEF Begin, BeginFails, End, SetSleep, SetStandby, Quiet, StartRx,
                      Receive, SendFails
  <1>10. ASSUME NEW auto \in BOOLEAN, StartCad(auto)
         PROVE  Places'
    BY <1>10, <1>1 DEF StartCad
  <1>. QED
    BY <1>2, <1>3, <1>4, <1>5, <1>6, <1>7, <1>8, <1>9, <1>10
       DEF Next, Application, Working

(* The transceiver's state. *)
LEMMA StateStep == StateOK /\ [Next]_vars => StateOK'
  <1>. SUFFICES ASSUME StateOK, [Next]_vars
                PROVE  StateOK'
    OBVIOUS
  <1>. USE DEF StateOK, States, fsm
  <1>1. CASE Interrupt \/ Chip \/ Tick \/ Poll \/ UNCHANGED vars
    BY <1>1 DEF Interrupt, Chip, Tick, Poll, vars
  <1>2. CASE Begin \/ BeginFails \/ End \/ SendFails
    BY <1>2 DEF Begin, BeginFails, End, SendFails
  <1>3. CASE SetSleep \/ SetStandby
    BY <1>3 DEF SetSleep, SetStandby, Quiet
  <1>4. CASE StartRx
    BY <1>4 DEF StartRx, Receive
  <1>5. ASSUME NEW auto \in BOOLEAN, StartCad(auto)
        PROVE  StateOK'
    BY <1>5 DEF StartCad
  <1>6. ASSUME NEW timeout \in SendTimeouts, Send(timeout)
        PROVE  StateOK'
    BY <1>6 DEF Send
  <1>7. CASE SendArm \/ SendLoop \/ SendOK \/ SendTimeout \/ SendAgain
    BY <1>7 DEF SendArm, SendLoop, SendOK, SendTimeout, SendAgain, SendReturns
  <1>8. CASE TxWatchdog \/ Synthesize \/ PopMarker \/ LoopEnds \/ ReadFlags \/ ClearFlags
    BY <1>8 DEF TxWatchdog, Synthesize, PopMarker, LoopEnds, ReadFlags, ClearFlags
  <1>9. CASE SilenceWatchdog \/ Dispatch \/ CadContinues
    BY <1>9 DEF SilenceWatchdog, Dispatch, CadContinues, ReceptionEnds
  <1>. QED
    BY <1>1, <1>2, <1>3, <1>4, <1>5, <1>6, <1>7, <1>8, <1>9
       DEF Next, Application, Working

LEMMA TypeStep == TypeOK /\ [Next]_vars => TypeOK'
  <1>1. TypeOK' <=> Numbers' /\ Booleans' /\ ChipSymbols' /\ Places' /\ StateOK'
    BY DEF TypeOK, Numbers, Booleans, ChipSymbols, Places, StateOK
  <1>. QED
    BY <1>1, TypeGroups, NumbersStep, BooleansStep, ChipSymbolsStep, PlacesStep, StateStep

(* Every state the two machines, the chip, the timers and the thread reach   *)
(* is one the code has a name for.                                           *)
THEOREM TypeCorrect == Spec => []TypeOK
  BY TypeInit, TypeStep, PTL DEF Spec

---------------------------------------------------------------------------
(* No deaf line *)

(* A failed transfer is never forgiven: where the count still is MaxFaults   *)
(* the step had no failure.                                                  *)
LEMMA FaultsStep ==
    ASSUME [Next]_vars
    PROVE  faults' = faults \/ Fault
  <1>. USE DEF NoFault, vars
  <1>1. CASE Interrupt \/ Chip \/ Tick \/ Poll \/ UNCHANGED vars
    BY <1>1 DEF Interrupt, Chip, Tick, Poll
  <1>2. CASE Begin \/ BeginFails \/ End \/ SendFails
    BY <1>2 DEF Begin, BeginFails, End, SendFails, SetModeMayFail
  <1>3. CASE SetSleep \/ SetStandby \/ StartRx
    BY <1>3 DEF SetSleep, SetStandby, Quiet, StartRx, Receive, StartReceive,
                StartReceiveFails
  <1>4. ASSUME NEW auto \in BOOLEAN, StartCad(auto)
        PROVE  faults' = faults \/ Fault
    BY <1>4 DEF StartCad
  <1>5. ASSUME NEW timeout \in SendTimeouts, Send(timeout)
        PROVE  faults' = faults \/ Fault
    BY <1>5 DEF Send
  <1>6. CASE SendArm \/ SendLoop \/ SendOK \/ SendTimeout \/ SendAgain
    BY <1>6 DEF SendArm, SendLoop, SendOK, SendTimeout, SendAgain, SendReturns
  <1>7. CASE TxWatchdog \/ SilenceWatchdog
    BY <1>7 DEF TxWatchdog, SilenceWatchdog, SetModeMayFail
  <1>8. CASE Synthesize \/ PopMarker \/ LoopEnds \/ ReadFlags \/ ClearFlags \/ Dispatch
    BY <1>8 DEF Synthesize, PopMarker, LoopEnds, ReadFlags, ClearFlags, Dispatch
  <1>9. CASE CadContinues
    BY <1>9 DEF CadContinues, StartReceive, StartReceiveFails
  <1>. QED
    BY <1>1, <1>2, <1>3, <1>4, <1>5, <1>6, <1>7, <1>8, <1>9
       DEF Next, Application, Working

LEMMA NoFaultSoFar ==
    ASSUME Numbers, [Next]_vars, faults' = MaxFaults
    PROVE  faults = MaxFaults /\ ~Fault
  BY FaultsStep DEF Fault, Numbers

(* Only begin() leaves Uninit, and nothing runs there.                       *)
UninitIsIdle == state = "Uninit" => pc = "app"

LEMMA UninitStep == UninitIsIdle /\ [Next]_vars => UninitIsIdle'
  <1>. SUFFICES ASSUME UninitIsIdle, [Next]_vars
                PROVE  UninitIsIdle'
    OBVIOUS
  <1>. USE DEF UninitIsIdle, fsm, thread, Step, Calling
  <1>1. CASE Interrupt \/ Chip \/ Tick \/ Poll \/ UNCHANGED vars
    BY <1>1 DEF Interrupt, Chip, Tick, Poll, vars
  <1>2. CASE Begin \/ BeginFails \/ End \/ SendFails
    BY <1>2 DEF Begin, BeginFails, End, SendFails
  <1>3. CASE SetSleep \/ SetStandby \/ StartRx
    BY <1>3 DEF SetSleep, SetStandby, Quiet, StartRx, Receive
  <1>4. ASSUME NEW auto \in BOOLEAN, StartCad(auto)
        PROVE  UninitIsIdle'
    BY <1>4 DEF StartCad
  <1>5. ASSUME NEW timeout \in SendTimeouts, Send(timeout)
        PROVE  UninitIsIdle'
    BY <1>5 DEF Send
  <1>6. CASE SendArm \/ SendLoop \/ SendOK \/ SendTimeout \/ SendAgain
    BY <1>6 DEF SendArm, SendLoop, SendOK, SendTimeout, SendAgain, SendReturns
  <1>7. CASE TxWatchdog \/ Synthesize \/ PopMarker \/ LoopEnds \/ ReadFlags \/ ClearFlags
    BY <1>7 DEF TxWatchdog, Synthesize, PopMarker, LoopEnds, ReadFlags, ClearFlags
  <1>8. CASE SilenceWatchdog \/ Dispatch \/ CadContinues
    BY <1>8 DEF SilenceWatchdog, Dispatch, CadContinues, ReceptionEnds
  <1>. QED
    BY <1>1, <1>2, <1>3, <1>4, <1>5, <1>6, <1>7, <1>8 DEF Next, Application, Working

(* What keeps a high line from being forgotten. *)
Heard == edge \/ markers > 0 \/ pc \in {"read", "clear"}

(* A step that may raise the line latches the edge it makes. *)
LEMMA LatchKeepsHeard ==
    ASSUME ~Polling, LatchEdge, UNCHANGED markers, LineHigh => Heard, LineHigh',
           pc \in {"read", "clear"} => UNCHANGED pc
    PROVE  Heard'
  BY DEF LatchEdge, Heard

LEMMA HeardStep ==
    ASSUME Numbers, UninitIsIdle, NoDeafLine, [Next]_vars
    PROVE  NoDeafLine'
  <1>. SUFFICES ASSUME ~Polling, faults' = MaxFaults, state' # "Uninit", LineHigh'
                PROVE  Heard'
    BY DEF NoDeafLine, Heard
  <1>0. ~Fault /\ (state # "Uninit" /\ LineHigh => Heard)
    BY NoFaultSoFar DEF NoDeafLine, Heard
  <1>. USE DEF thread, Step, Calling
  <1>1. CASE Interrupt
    BY <1>1 DEF Interrupt, Push, Numbers, Heard
  <1>2. CASE Chip
    <2>1. state # "Uninit" /\ LatchEdge /\ UNCHANGED <<markers, pc>>
      BY <1>2 DEF Chip, fsm
    <2>. QED
      BY <1>0, <2>1, LatchKeepsHeard
  <1>3. CASE Tick \/ Poll \/ UNCHANGED vars
    BY <1>0, <1>3 DEF Tick, Poll, vars, chipVars, fsm, Heard, LineHigh
  <1>4. CASE Begin
    BY <1>4 DEF Begin, LineHigh
  <1>5. CASE BeginFails \/ End
    BY <1>0, <1>5 DEF BeginFails, End, fsm
  <1>6. CASE SetSleep \/ SetStandby
    BY <1>0, <1>6 DEF SetSleep, SetStandby, Quiet, Heard, LineHigh
  <1>7. CASE StartRx \/ SendFails \/ CadContinues
    <2>1. state # "Uninit" /\ LatchEdge /\ UNCHANGED markers /\ pc \notin {"read", "clear"}
      BY <1>7 DEF StartRx, Receive, SendFails, CadContinues, UninitIsIdle
    <2>. QED
      BY <1>0, <2>1, LatchKeepsHeard
  <1>8. ASSUME NEW auto \in BOOLEAN, StartCad(auto)
        PROVE  Heard'
    <2>1. state # "Uninit" /\ LatchEdge /\ UNCHANGED markers /\ pc \notin {"read", "clear"}
      BY <1>8 DEF StartCad
    <2>. QED
      BY <1>0, <2>1, LatchKeepsHeard
  <1>9. ASSUME NEW timeout \in SendTimeouts, Send(timeout)
        PROVE  Heard'
    <2>1. state # "Uninit" /\ LatchEdge /\ UNCHANGED markers /\ pc \notin {"read", "clear"}
      BY <1>9 DEF Send
    <2>. QED
      BY <1>0, <2>1, LatchKeepsHeard
  <1>10. CASE SendArm \/ SendLoop \/ SendOK \/ SendTimeout \/ SendAgain
    BY <1>0, <1>10 DEF SendArm, SendLoop, SendOK, SendTimeout, SendAgain, SendReturns,
                       UninitIsIdle, chipVars, Heard, LineHigh
  <1>11. CASE TxWatchdog \/ SilenceWatchdog \/ Dispatch
    BY <1>0, <1>11 DEF TxWatchdog, SilenceWatchdog, Dispatch, UninitIsIdle, chipVars,
                       Heard, LineHigh
  <1>12. CASE Synthesize
    (* In polling mode only; without it the ring is left alone. *)
    BY <1>0, <1>12 DEF Synthesize, UninitIsIdle, chipVars, Heard, LineHigh
  <1>13. CASE PopMarker
    (* The popped marker lives on as the read that follows it. *)
    BY <1>13 DEF PopMarker, Heard
  <1>14. CASE LoopEnds
    BY <1>0, <1>14 DEF LoopEnds, UninitIsIdle, chipVars, fsm, Heard, LineHigh
  <1>15. CASE ReadFlags
    (* The read sees the mapped flag, so the clear follows. *)
    BY <1>0, <1>15 DEF ReadFlags, chipVars, Heard, LineHigh
  <1>16. CASE ClearFlags
    BY <1>0, <1>16 DEF ClearFlags, LineHigh
  <1>. QED
    BY <1>1, <1>2, <1>3, <1>4, <1>5, <1>6, <1>7, <1>8, <1>9, <1>10, <1>11, <1>12,
       <1>13, <1>14, <1>15, <1>16 DEF Next, Application, Working

(* process_events(), the interrupt handler, the calls that reprogram         *)
(* RegDioMapping1 and the chip never leave DIO0 high with its edge spent:    *)
(* the radio does not go deaf unless an SPI transfer fails.                  *)
THEOREM NeverDeaf == Spec => []NoDeafLine
  <1>1. Init => UninitIsIdle /\ NoDeafLine
    BY DEF Init, UninitIsIdle, NoDeafLine, LineHigh
  <1>2. TypeOK => Numbers
    BY TypeGroups
  <1>3. TypeOK /\ UninitIsIdle /\ NoDeafLine /\ [Next]_vars => NoDeafLine'
    BY <1>2, HeardStep
  <1>. QED
    BY <1>1, <1>3, TypeInit, TypeStep, UninitStep, PTL DEF Spec

---------------------------------------------------------------------------
(* No orphan transmission *)

(* While the driver transmits, the thread is inside send() and send()'s own  *)
(* deadline lies after the driver's: the clock moves both together.  Once    *)
(* the watchdog has looked and not fired, the driver's deadline is still     *)
(* ahead until the loop is back at its test, because under Prompt no time    *)
(* passes inside a turn; so send() cannot find its own deadline passed.      *)
InTurn == {"silence", "synth", "loop", "read", "clear", "dispatch", "cad", "late"}

SendInv == Prompt /\ txActive
             => /\ pc # "app"
                /\ pc \in ProcessSteps => ret = "late"
                /\ txLeft > 0 => sendLeft > txLeft
                /\ pc \in InTurn => txLeft > 0

LEMMA SendStep ==
    ASSUME Numbers, Places, SendInv, [Next]_vars
    PROVE  SendInv'
  <1>. SUFFICES ASSUME Prompt, txActive'
                PROVE  /\ pc' # "app"
                       /\ pc' \in ProcessSteps => ret' = "late"
                       /\ txLeft' > 0 => sendLeft' > txLeft'
                       /\ pc' \in InTurn => txLeft' > 0
    BY DEF SendInv
  <1>. USE DEF InTurn, ProcessSteps, timers, thread, Step, Calling
  <1>0. /\ txLeft \in Nat /\ sendLeft \in Nat
        /\ txActive => /\ pc # "app"
                       /\ pc \in ProcessSteps => ret = "late"
                       /\ txLeft > 0 => sendLeft > txLeft
                       /\ pc \in InTurn => txLeft > 0
    BY DEF SendInv, Numbers
  <1>1. CASE Interrupt \/ Chip \/ UNCHANGED vars
    BY <1>0, <1>1 DEF Interrupt, Chip, vars
  <1>2. CASE Tick
    <2>1. /\ txActive /\ pc = "while" /\ UNCHANGED <<pc, ret>>
          /\ txLeft' = Down(txLeft) /\ sendLeft' = Down(sendLeft)
      BY <1>0, <1>2 DEF Tick
    <2>. QED
      BY <1>0, <2>1 DEF Down
  <1>3. CASE Poll \/ Begin \/ BeginFails \/ SetSleep \/ SetStandby \/ StartRx \/ SendFails
    (* Not while transmitting: the thread is inside send(). *)
    BY <1>0, <1>3 DEF Poll, Begin, BeginFails, SetSleep, SetStandby, Quiet, StartRx,
                      Receive, SendFails
  <1>4. CASE End
    BY <1>4 DEF End
  <1>5. ASSUME NEW auto \in BOOLEAN, StartCad(auto)
        PROVE  FALSE
    BY <1>0, <1>5 DEF StartCad
  <1>6. ASSUME NEW timeout \in SendTimeouts, Send(timeout)
        PROVE  pc' = "arm" /\ sendLeft' > txLeft'
    <2>1. timeout \in Nat /\ txLeft' = timeout /\ sendLeft' = timeout + 1 /\ pc' = "arm"
      BY <1>6 DEF Send
    <2>. QED
      BY <2>1
  <1>7. CASE SendArm \/ SendLoop \/ SendAgain
    BY <1>0, <1>7 DEF SendArm, SendLoop, SendAgain
  <1>8. CASE SendOK
    BY <1>8 DEF SendOK, SendReturns
  <1>9. CASE SendTimeout
    (* The turn left txLeft > 0, so send()'s own deadline has not passed. *)
    <2>1. txActive /\ pc = "late" /\ sendLeft = 0
      BY <1>9 DEF SendTimeout, SendReturns
    <2>. QED
      BY <1>0, <2>1
  <1>10. CASE TxWatchdog
    <2>1. /\ txActive /\ pc = "txwd" /\ pc' = "silence"
          /\ txLeft # 0 /\ UNCHANGED <<ret, txLeft, sendLeft>>
      BY <1>10 DEF TxWatchdog
    <2>. QED
      BY <1>0, <2>1
  <1>11. CASE SilenceWatchdog
    BY <1>0, <1>11 DEF SilenceWatchdog
  <1>12. CASE Synthesize \/ PopMarker
    BY <1>0, <1>12 DEF Synthesize, PopMarker
  <1>13. CASE LoopEnds
    BY <1>0, <1>13 DEF LoopEnds
  <1>14. CASE ReadFlags \/ ClearFlags
    BY <1>0, <1>14 DEF ReadFlags, ClearFlags
  <1>15. CASE Dispatch
    <2>1. /\ txActive /\ pc = "dispatch" /\ pc' \in {"cad", "loop"}
          /\ UNCHANGED <<ret, sendLeft, txLeft>>
      BY <1>15 DEF Dispatch
    <2>. QED
      BY <1>0, <2>1
  <1>16. CASE CadContinues
    BY <1>0, <1>16 DEF CadContinues
  <1>. QED
    BY <1>1, <1>2, <1>3, <1>4, <1>5, <1>6, <1>7, <1>8, <1>9, <1>10, <1>11, <1>12,
       <1>13, <1>14, <1>15, <1>16 DEF Next, Application, Working

(* Provided a turn of its loop takes less than a millisecond, send() never   *)
(* comes back with tx_in_progress_ still set: for every timeout, whatever    *)
(* the chip does and however many transfers fail.                            *)
THEOREM SendLeavesNothingBehind == Spec => []NoOrphanTx
  <1>1. Init => SendInv
    BY DEF Init, SendInv
  <1>2. TypeOK => Numbers /\ Places
    BY TypeGroups
  <1>3. TypeOK /\ SendInv /\ [Next]_vars => SendInv'
    BY <1>2, SendStep
  <1>4. SendInv => NoOrphanTx
    BY DEF SendInv, NoOrphanTx
  <1>. QED
    BY <1>1, <1>3, <1>4, TypeInit, TypeStep, PTL DEF Spec

---------------------------------------------------------------------------
(* The silence watchdog.  SilenceArmed is inductive: where the watchdog is   *)
(* disarmed the chip leaves continuous reception in the same step.           *)

LEMMA SilenceStep ==
    ASSUME Numbers, SilenceArmed, [Next]_vars
    PROVE  SilenceArmed'
  <1>. SUFFICES ASSUME SilenceTimeout > 0, faults' = MaxFaults, mode' = "RxCont"
                PROVE  silence' # Disarmed
    BY DEF SilenceArmed
  <1>0. ~Fault /\ (mode = "RxCont" => silence # Disarmed)
    BY NoFaultSoFar DEF SilenceArmed
  <1>. USE DEF SetMode, SetModeMayFail, chipVars, timers
  <1>1. CASE Interrupt \/ Poll \/ UNCHANGED vars
    BY <1>0, <1>1 DEF Interrupt, Poll, vars
  <1>2. CASE Chip
    BY <1>0, <1>2 DEF Chip, ChipTxDone, ChipHeader, ChipPacket, ChipRxTimeout,
                      ChipCadDone
  <1>3. CASE Tick
    BY <1>0, <1>3 DEF Tick, Down, Disarmed, Numbers
  <1>4. CASE Begin \/ BeginFails \/ End
    BY <1>0, <1>4 DEF Begin, BeginFails, End
  <1>5. CASE SetSleep \/ SetStandby
    BY <1>0, <1>5 DEF SetSleep, SetStandby, Quiet
  <1>6. ASSUME NEW c \in BOOLEAN, StartReceive(c)
        PROVE  silence' # Disarmed
    BY <1>6 DEF StartReceive, RxMode, Disarmed
  <1>7. CASE StartRx
    BY <1>0, <1>6, <1>7 DEF StartRx, Receive, StartReceiveFails
  <1>8. ASSUME NEW auto \in BOOLEAN, StartCad(auto)
        PROVE  silence' # Disarmed
    BY <1>0, <1>8 DEF StartCad
  <1>9. ASSUME NEW timeout \in SendTimeouts, Send(timeout)
        PROVE  silence' # Disarmed
    BY <1>9 DEF Send
  <1>10. CASE SendFails
    BY <1>0, <1>10 DEF SendFails
  <1>11. CASE SendArm \/ SendLoop \/ SendOK \/ SendTimeout \/ SendAgain
    BY <1>0, <1>11 DEF SendArm, SendLoop, SendOK, SendTimeout, SendAgain, SendReturns
  <1>12. CASE TxWatchdog \/ SilenceWatchdog
    BY <1>0, <1>12 DEF TxWatchdog, SilenceWatchdog
  <1>13. CASE Synthesize \/ PopMarker \/ LoopEnds \/ ReadFlags \/ ClearFlags
    BY <1>0, <1>13 DEF Synthesize, PopMarker, LoopEnds, ReadFlags, ClearFlags
  <1>14. CASE Dispatch
    BY <1>0, <1>14 DEF Dispatch, Disarmed
  <1>15. CASE CadContinues
    BY <1>0, <1>6, <1>15 DEF CadContinues, StartReceiveFails
  <1>. QED
    BY <1>1, <1>2, <1>3, <1>4, <1>5, <1>7, <1>8, <1>9, <1>10, <1>11, <1>12, <1>13,
       <1>14, <1>15 DEF Next, Application, Working

(* The chip never receives continuously without the silence watchdog, on      *)
(* whichever way it came to, CAD's automatic reception included: for every    *)
(* timeout, in both modes and with any calls.                                 *)
THEOREM SilenceIsWatched == Spec => []SilenceArmed
  <1>1. Init => SilenceArmed
    BY DEF Init, SilenceArmed
  <1>2. TypeOK /\ SilenceArmed /\ [Next]_vars => SilenceArmed'
    BY TypeGroups, SilenceStep
  <1>. QED
    BY <1>1, <1>2, TypeInit, TypeStep, PTL DEF Spec

---------------------------------------------------------------------------
(* state() and the chip.  FsmAgrees speaks of the time between two calls; it *)
(* is kept there by what holds inside them: state() is Tx only inside        *)
(* send(), and while the driver transmits it says Tx or Standby, so that the *)
(* TX watchdog takes no reception down.                                      *)

InSend == pc \in SendSteps \/ (pc \in ProcessSteps /\ ret = "late")

TxIsInSend == state = "Tx" => InSend

NeverSilent == SilenceTimeout = 0 => silence = Disarmed

Told == /\ state = "RxContinuous" => mode = "RxCont"
        /\ state = "RxSingle" => mode \in {"RxSingle", "Standby"}
        /\ state = "Cad" => mode \in {"Cad", "Standby"}
        /\ state = "Sleep" => mode = "Sleep"

FsmInv == Prompt /\ SilenceTimeout = 0 /\ faults = MaxFaults
            => Told /\ (txActive => state \in {"Tx", "Standby"})

LEMMA TxIsInSendStep ==
    ASSUME Places, TxIsInSend, [Next]_vars
    PROVE  TxIsInSend'
  <1>. SUFFICES ASSUME state' = "Tx" PROVE InSend'
    BY DEF TxIsInSend
  <1>0. state = "Tx" => InSend
    BY DEF TxIsInSend
  <1>. USE DEF InSend, SendSteps, ProcessSteps, fsm, thread, Step, Calling
  <1>1. CASE Interrupt \/ Chip \/ Tick \/ Poll \/ UNCHANGED vars
    BY <1>0, <1>1 DEF Interrupt, Chip, Tick, Poll, vars
  <1>2. CASE Begin \/ BeginFails \/ End \/ SendFails
    BY <1>0, <1>2 DEF Begin, BeginFails, End, SendFails
  <1>3. CASE SetSleep \/ SetStandby \/ StartRx
    BY <1>0, <1>3 DEF SetSleep, SetStandby, Quiet, StartRx, Receive
  <1>4. ASSUME NEW auto \in BOOLEAN, StartCad(auto)
        PROVE  InSend'
    BY <1>0, <1>4 DEF StartCad
  <1>5. ASSUME NEW timeout \in SendTimeouts, Send(timeout)
        PROVE  InSend'
    BY <1>5 DEF Send
  <1>6. CASE SendArm \/ SendLoop \/ SendOK \/ SendTimeout \/ SendAgain
    BY <1>0, <1>6 DEF SendArm, SendLoop, SendOK, SendTimeout, SendAgain, SendReturns
  <1>7. CASE TxWatchdog \/ Synthesize \/ PopMarker \/ ReadFlags \/ ClearFlags
    BY <1>0, <1>7 DEF TxWatchdog, Synthesize, PopMarker, ReadFlags, ClearFlags
  <1>8. CASE LoopEnds
    BY <1>0, <1>8 DEF LoopEnds
  <1>9. CASE SilenceWatchdog \/ Dispatch \/ CadContinues
    BY <1>0, <1>9 DEF SilenceWatchdog, Dispatch, CadContinues, ReceptionEnds
  <1>. QED
    BY <1>1, <1>2, <1>3, <1>4, <1>5, <1>6, <1>7, <1>8, <1>9
       DEF Next, Application, Working

LEMMA NeverSilentStep ==
    ASSUME Numbers, NeverSilent, [Next]_vars
    PROVE  NeverSilent'
  <1>. SUFFICES ASSUME SilenceTimeout = 0, silence = Disarmed
                PROVE  silence' = Disarmed
    BY DEF NeverSilent
  <1>. USE DEF timers
  <1>1. CASE Interrupt \/ Chip \/ Poll \/ UNCHANGED vars
    BY <1>1 DEF Interrupt, Chip, Poll, vars
  <1>2. CASE Tick
    BY <1>2 DEF Tick, Down, Disarmed
  <1>3. CASE Begin \/ BeginFails \/ End \/ SetSleep \/ SetStandby \/ SendFails
    BY <1>3 DEF Begin, BeginFails, End, SetSleep, SetStandby, Quiet, SendFails
  <1>0. ASSUME NEW c \in BOOLEAN, StartReceive(c) \/ StartReceiveFails(c)
        PROVE  silence' = Disarmed
    <2>1. CASE StartReceive(c)
      BY <2>1 DEF StartReceive
    <2>2. CASE StartReceiveFails(c)
      BY <2>2 DEF StartReceiveFails
    <2>. QED
      BY <1>0, <2>1, <2>2
  <1>4. CASE StartRx
    BY <1>0, <1>4 DEF StartRx, Receive
  <1>5. ASSUME NEW auto \in BOOLEAN, StartCad(auto)
        PROVE  silence' = Disarmed
    BY <1>5 DEF StartCad
  <1>6. ASSUME NEW timeout \in SendTimeouts, Send(timeout)
        PROVE  silence' = Disarmed
    BY <1>6 DEF Send
  <1>7. CASE SendArm \/ SendLoop \/ SendOK \/ SendTimeout \/ SendAgain
    BY <1>7 DEF SendArm, SendLoop, SendOK, SendTimeout, SendAgain, SendReturns
  <1>8. CASE TxWatchdog \/ SilenceWatchdog \/ Synthesize \/ PopMarker \/ LoopEnds
    BY <1>8 DEF TxWatchdog, SilenceWatchdog, Synthesize, PopMarker, LoopEnds
  <1>9. CASE ReadFlags \/ ClearFlags \/ Dispatch
    BY <1>9 DEF ReadFlags, ClearFlags, Dispatch
  <1>10. CASE CadContinues
    BY <1>0, <1>10 DEF CadContinues
  <1>. QED
    BY <1>1, <1>2, <1>3, <1>4, <1>5, <1>6, <1>7, <1>8, <1>9, <1>10
       DEF Next, Application, Working

LEMMA FsmStep ==
    ASSUME Numbers, SendInv, NeverSilent, FsmInv, [Next]_vars
    PROVE  FsmInv'
  <1>. SUFFICES ASSUME Prompt, SilenceTimeout = 0, faults' = MaxFaults
                PROVE  Told' /\ (txActive' => state' \in {"Tx", "Standby"})
    BY DEF FsmInv
  <1>0. /\ ~Fault /\ silence = Disarmed
        /\ txActive => pc # "app" /\ state \in {"Tx", "Standby"}
        /\ Told
    BY NoFaultSoFar DEF FsmInv, SendInv, NeverSilent
  <1>. USE DEF Told, SetMode, SetModeMayFail, fsm, chipVars, Step, Calling
  <1>1. CASE Interrupt \/ Tick \/ Poll \/ UNCHANGED vars
    BY <1>0, <1>1 DEF Interrupt, Tick, Poll, vars
  <1>2. CASE Chip
    BY <1>0, <1>2 DEF Chip, ChipTxDone, ChipHeader, ChipPacket, ChipRxTimeout,
                      ChipCadDone
  <1>3. CASE Begin \/ BeginFails \/ End \/ SendFails
    BY <1>0, <1>3 DEF Begin, BeginFails, End, SendFails
  <1>4. CASE SetSleep \/ SetStandby
    BY <1>0, <1>4 DEF SetSleep, SetStandby, Quiet
  <1>5. CASE StartRx
    BY <1>0, <1>5 DEF StartRx, Receive, StartReceive, StartReceiveFails, RxMode
  <1>6. ASSUME NEW auto \in BOOLEAN, StartCad(auto)
        PROVE  Told' /\ ~txActive'
    BY <1>0, <1>6 DEF StartCad
  <1>7. ASSUME NEW timeout \in SendTimeouts, Send(timeout)
        PROVE  Told' /\ state' = "Tx"
    BY <1>7 DEF Send
  <1>8. CASE SendArm \/ SendLoop \/ SendAgain
    BY <1>0, <1>8 DEF SendArm, SendLoop, SendAgain
  <1>9. CASE SendOK \/ SendTimeout
    BY <1>9 DEF SendOK, SendTimeout, SendReturns
  <1>10. CASE TxWatchdog
    BY <1>0, <1>10 DEF TxWatchdog
  <1>11. CASE SilenceWatchdog
    BY <1>0, <1>11 DEF SilenceWatchdog, SilenceFires, Disarmed
  <1>12. CASE Synthesize \/ PopMarker \/ LoopEnds \/ ReadFlags \/ ClearFlags
    BY <1>0, <1>12 DEF Synthesize, PopMarker, LoopEnds, ReadFlags, ClearFlags
  <1>13. CASE Dispatch
    BY <1>0, <1>13 DEF Dispatch, ReceptionEnds
  <1>14. CASE CadContinues
    BY <1>0, <1>14 DEF CadContinues
  <1>. QED
    BY <1>1, <1>2, <1>3, <1>4, <1>5, <1>6, <1>7, <1>8, <1>9, <1>10, <1>11, <1>12,
       <1>13, <1>14 DEF Next, Application, Working

(* The invariant SendInv of RadioProofs, as a theorem of its own.            *)
LEMMA SendInvAlways == Spec => [](TypeOK /\ SendInv)
  <1>1. Init => TypeOK /\ SendInv
    BY TypeInit DEF Init, SendInv
  <1>2. TypeOK /\ SendInv /\ [Next]_vars => TypeOK' /\ SendInv'
    BY TypeGroups, TypeStep, SendStep
  <1>. QED
    BY <1>1, <1>2, PTL DEF Spec

(* Between two calls what state() says is what the chip does, or did until    *)
(* an event that has not been polled yet: for every ring size and every       *)
(* mixture of calls, with a prompt thread and no silence timeout.             *)
THEOREM StateFollowsChip == Spec => []FsmAgrees
  <1>1. Init => TxIsInSend /\ NeverSilent /\ FsmInv
    BY DEF Init, TxIsInSend, NeverSilent, FsmInv, Told
  <1>2. TypeOK /\ SendInv /\ TxIsInSend /\ NeverSilent /\ FsmInv /\ [Next]_vars
          => TxIsInSend' /\ NeverSilent' /\ FsmInv'
    BY TypeGroups, TxIsInSendStep, NeverSilentStep, FsmStep
  <1>3. TxIsInSend /\ FsmInv => FsmAgrees
    BY DEF TxIsInSend, InSend, SendSteps, ProcessSteps, FsmInv, Told, FsmAgrees
  <1>. QED
    BY <1>1, <1>2, <1>3, SendInvAlways, PTL DEF Spec

---------------------------------------------------------------------------
(* The OK of send() in polling mode.  A turn of process_events() makes one   *)
(* marker and takes it, so that the flags are read and cleared once per turn *)
(* and no interrupt comes in between; what happens to send()'s packet then   *)
(* follows from where its TxDone is: not raised, latched, read or taken.     *)

Turn == Polling =>
    /\ ~edge
    /\ pc # "loop" => markers = 0
    /\ pc = "loop" => markers = IF iters = 0 THEN 1 ELSE 0
    /\ pc \in {"txwd", "silence", "synth"} => iters = 0
    /\ pc \in {"read", "clear", "dispatch", "cad"} => iters > 0
    /\ pc \notin {"clear", "dispatch", "cad"} => got = {}

(* The turn has not cleared the flags yet. *)
Ahead == pc \in {"txwd", "silence", "synth", "read", "clear"} \/ (pc = "loop" /\ iters = 0)

AirInv == Polling /\ Prompt /\ faults = MaxFaults =>
    /\ mode = "Tx" => txActive /\ air = "air"
    /\ "TxDone" \in flags => air = "sent" /\ (Ahead \/ txActive)
    /\ "TxDone" \in got => air = "sent"
    /\ InSend /\ ~txActive => fired \/ air = "sent"
    /\ ~InSend => air = "none"
    /\ pc = "dispatch" => "TxDone" \notin flags \cap got

LEMMA TurnStep ==
    ASSUME Numbers, Places, Turn, [Next]_vars
    PROVE  Turn'
  <1>. SUFFICES ASSUME Polling
                PROVE  /\ ~edge'
                       /\ pc' # "loop" => markers' = 0
                       /\ pc' = "loop" => markers' = IF iters' = 0 THEN 1 ELSE 0
                       /\ pc' \in {"txwd", "silence", "synth"} => iters' = 0
                       /\ pc' \in {"read", "clear", "dispatch", "cad"} => iters' > 0
                       /\ pc' \notin {"clear", "dispatch", "cad"} => got' = {}
    BY DEF Turn
  <1>0. /\ ~edge
        /\ pc # "loop" => markers = 0
        /\ pc = "loop" => markers = IF iters = 0 THEN 1 ELSE 0
        /\ pc \in {"txwd", "silence", "synth"} => iters = 0
        /\ pc \in {"read", "clear", "dispatch", "cad"} => iters > 0
        /\ pc \notin {"clear", "dispatch", "cad"} => got = {}
        /\ ret \in {"app", "late"} /\ iters \in Nat
        /\ Size \in Nat /\ Size > 1
    BY MarkersAssumption DEF Turn, Places, Numbers, Size
  <1>e. LatchEdge => ~edge'
    BY <1>0 DEF LatchEdge
  <1>. USE DEF thread, Step, Calling
  <1>1. CASE Interrupt \/ Chip \/ Tick \/ Poll \/ UNCHANGED vars
    BY <1>0, <1>e, <1>1 DEF Interrupt, Chip, Tick, Poll, vars
  <1>2. CASE Begin \/ BeginFails \/ StartRx \/ SendFails
    <2>1. UNCHANGED <<thread, markers>> /\ LatchEdge
      BY <1>2 DEF Begin, BeginFails, StartRx, Receive, SendFails
    <2>. QED
      BY <1>0, <1>e, <2>1
  <1>11. CASE End \/ SetSleep \/ SetStandby
    BY <1>0, <1>11 DEF End, SetSleep, SetStandby, Quiet
  <1>3. ASSUME NEW auto \in BOOLEAN, StartCad(auto)
        PROVE  UNCHANGED <<thread, markers>> /\ ~edge'
    BY <1>e, <1>3 DEF StartCad
  <1>4. ASSUME NEW timeout \in SendTimeouts, Send(timeout)
        PROVE  UNCHANGED <<markers, iters, got>> /\ ~edge' /\ pc' = "arm" /\ pc = "app"
    BY <1>e, <1>4 DEF Send
  <1>5. CASE SendArm \/ SendLoop \/ SendOK \/ SendTimeout \/ SendAgain
    BY <1>0, <1>5 DEF SendArm, SendLoop, SendOK, SendTimeout, SendAgain, SendReturns
  <1>6. CASE TxWatchdog \/ SilenceWatchdog
    BY <1>0, <1>6 DEF TxWatchdog, SilenceWatchdog
  <1>7. CASE Synthesize
    <2>1. markers = 0 /\ Push(markers) = 1
      BY <1>0, <1>7, MarkersAssumption DEF Synthesize, Push
    <2>. QED
      BY <1>0, <1>7, <2>1 DEF Synthesize
  <1>8. CASE PopMarker \/ LoopEnds
    BY <1>0, <1>8 DEF PopMarker, LoopEnds
  <1>9. CASE ClearFlags \/ CadContinues
    <2>1. /\ UNCHANGED <<markers, iters>> /\ LatchEdge
          /\ \/ pc = "clear" /\ pc' = "dispatch"
             \/ pc = "cad" /\ pc' = "loop" /\ got' = {}
      BY <1>9 DEF ClearFlags, CadContinues
    <2>. QED
      BY <1>0, <1>e, <2>1
  <1>12. CASE ReadFlags
    BY <1>0, <1>12 DEF ReadFlags
  <1>10. CASE Dispatch
    BY <1>0, <1>10 DEF Dispatch
  <1>. QED
    BY <1>0, <1>1, <1>2, <1>3, <1>4, <1>5, <1>6, <1>7, <1>8, <1>9, <1>10,
       <1>11, <1>12
       DEF Next, Application, Working

LEMMA AirStep ==
    ASSUME TypeOK, SendInv, Turn, AirInv, [Next]_vars
    PROVE  AirInv'
  <1>. SUFFICES ASSUME Polling, Prompt, faults' = MaxFaults
                PROVE  /\ mode' = "Tx" => txActive' /\ air' = "air"
                       /\ "TxDone" \in flags' => air' = "sent" /\ (Ahead' \/ txActive')
                       /\ "TxDone" \in got' => air' = "sent"
                       /\ InSend' /\ ~txActive' => fired' \/ air' = "sent"
                       /\ ~InSend' => air' = "none"
                       /\ pc' = "dispatch" => "TxDone" \notin flags' \cap got'
    BY DEF AirInv
  <1>t. Numbers /\ ChipSymbols /\ Places
    BY TypeGroups
  <1>0. /\ ~Fault
        /\ txActive => pc # "app" /\ (pc = "late" => sendLeft > 0)
        /\ txActive /\ pc \in ProcessSteps => ret = "late"
        /\ mode = "Tx" => txActive /\ air = "air"
        /\ "TxDone" \in flags => air = "sent" /\ (Ahead \/ txActive)
        /\ "TxDone" \in got => air = "sent"
        /\ InSend /\ ~txActive => fired \/ air = "sent"
        /\ ~InSend => air = "none"
        /\ pc = "dispatch" => "TxDone" \notin flags \cap got
    BY <1>t, NoFaultSoFar DEF AirInv, SendInv, InTurn, Numbers
  <1>00. /\ pc \in {"txwd", "silence", "synth"} => iters = 0
         /\ pc \in {"read", "clear", "dispatch", "cad"} => iters > 0
         /\ pc = "loop" => markers = IF iters = 0 THEN 1 ELSE 0
         /\ pc \notin {"clear", "dispatch", "cad"} => got = {}
         /\ ret \in {"app", "late"} /\ iters \in Nat
         /\ Size \in Nat /\ Size > 1
    BY <1>t, MarkersAssumption DEF Turn, Numbers, Places, Size
  (* Between two calls nothing is in the air and no TxDone is latched. *)
  <1>a. pc = "app" => mode # "Tx" /\ "TxDone" \notin flags /\ air = "none" /\ got = {}
    BY <1>0, <1>00 DEF Ahead, InSend, SendSteps, ProcessSteps
  <1>. USE DEF Ahead, InSend, SendSteps, ProcessSteps, thread, history, chipVars,
               Step, Calling, SetMode, SetModeMayFail
  <1>1. CASE Interrupt \/ Tick \/ UNCHANGED vars
    BY <1>0, <1>1 DEF Interrupt, Tick, vars
  <1>2. CASE Chip
    <2>0. UNCHANGED <<thread, txActive>>
      BY <1>2 DEF Chip
    <2>1. CASE ChipTxDone
      BY <1>0, <2>0, <2>1 DEF ChipTxDone, Raise
    <2>2. CASE ChipPacket
      BY <1>0, <2>0, <2>2 DEF ChipPacket, PacketEnds, Raise
    <2>3. CASE ChipHeader \/ ChipRxTimeout \/ ChipCadDone
      BY <1>0, <2>0, <2>3 DEF ChipHeader, ChipRxTimeout, ChipCadDone, Raise
    <2>. QED
      BY <1>2, <2>1, <2>2, <2>3 DEF Chip
  <1>3. CASE Poll
    BY <1>0, <1>a, <1>3 DEF Poll
  <1>4. CASE Begin \/ BeginFails \/ End \/ SetSleep \/ SetStandby
    BY <1>0, <1>a, <1>4 DEF Begin, BeginFails, End, SetSleep, SetStandby, Quiet
  <1>5. ASSUME NEW c \in BOOLEAN, StartReceive(c)
        PROVE  mode' # "Tx" /\ (mode # "Tx" => air' = air)
    BY <1>5 DEF StartReceive, RxMode
  <1>6. CASE StartRx
    BY <1>0, <1>a, <1>5, <1>6 DEF StartRx, Receive, StartReceiveFails
  <1>7. CASE SendFails
    BY <1>0, <1>a, <1>7 DEF SendFails
  <1>8. ASSUME NEW auto \in BOOLEAN, StartCad(auto)
        PROVE  /\ pc = "app" /\ UNCHANGED <<thread, fired, txActive>>
               /\ mode' # "Tx" /\ "TxDone" \notin flags' /\ air' = "none"
    BY <1>0, <1>a, <1>8 DEF StartCad, LastEvent, PacketEnds, Raise
  <1>9. ASSUME NEW timeout \in SendTimeouts, Send(timeout)
        PROVE  /\ pc = "app" /\ pc' = "arm" /\ txActive' /\ air' = "air"
               /\ "TxDone" \notin flags' /\ got' = {}
    BY <1>a, <1>9 DEF Send
  <1>10. CASE SendArm \/ SendLoop \/ SendAgain
    BY <1>0, <1>10 DEF SendArm, SendLoop, SendAgain
  <1>11. CASE SendOK \/ SendTimeout
    (* The driver is idle, so its mode is not Tx; what TxDone would be latched *)
    (* belongs to a turn that is over.                                        *)
    <2>1. ~txActive /\ pc' = "app" /\ air' = "none" /\ got' = {}
      <3>1. CASE SendOK
        BY <1>00, <3>1 DEF SendOK, SendReturns
      <3>2. CASE SendTimeout
        BY <1>0, <1>00, <3>2 DEF SendTimeout, SendReturns
      <3>. QED
        BY <1>11, <3>1, <3>2
    <2>. QED
      BY <1>0, <1>11, <2>1 DEF SendOK, SendTimeout, SendReturns
  <1>12. CASE TxWatchdog
    BY <1>0, <1>00, <1>12 DEF TxWatchdog
  <1>13. CASE SilenceWatchdog
    BY <1>0, <1>00, <1>13 DEF SilenceWatchdog
  <1>14. CASE Synthesize \/ PopMarker \/ LoopEnds
    BY <1>0, <1>00, <1>14 DEF Synthesize, PopMarker, LoopEnds
  <1>15. CASE ReadFlags \/ ClearFlags
    BY <1>0, <1>00, <1>15 DEF ReadFlags, ClearFlags
  <1>16. CASE Dispatch
    BY <1>0, <1>00, <1>16 DEF Dispatch
  <1>17. CASE CadContinues
    BY <1>0, <1>00, <1>5, <1>17 DEF CadContinues, StartReceiveFails
  <1>. QED
    BY <1>0, <1>a, <1>1, <1>2, <1>3, <1>4, <1>6, <1>7, <1>8, <1>9, <1>10, <1>11, <1>12,
       <1>13, <1>14, <1>15, <1>16, <1>17 DEF Next, Application, Working

(* In polling mode, with a prompt thread, an OK of send() that is not the     *)
(* watchdog's means that its own packet left the antenna.                     *)
THEOREM OkIsHonest == Polling /\ Prompt => (Spec => OkMeansSent)
  <1>. SUFFICES ASSUME Polling, Prompt PROVE Spec => OkMeansSent
    OBVIOUS
  <1>1. Init => Turn /\ AirInv
    BY DEF Init, Turn, AirInv, InSend, SendSteps, ProcessSteps
  <1>2. TypeOK /\ SendInv /\ Turn /\ AirInv /\ [Next]_vars => Turn' /\ AirInv'
    BY TypeGroups, TurnStep, AirStep
  <1>3. AirInv /\ [Next]_vars
          => [SendOK /\ faults = MaxFaults => fired \/ air = "sent"]_vars
    BY DEF AirInv, InSend, SendSteps, SendOK
  <1>. QED
    BY <1>1, <1>2, <1>3, SendInvAlways, PTL DEF Spec, OkMeansSent

---------------------------------------------------------------------------
(* Without single receptions and CAD.  A reception has only ever begun with   *)
(* rx_continuous_ set, so no event finds it clear.                           *)

ContinuousOnly == faults = MaxFaults =>
    /\ mode \notin {"RxSingle", "Cad"} /\ "CadDone" \notin flags \cup got /\ pc # "cad"
    /\ ~rxCont => /\ mode # "RxCont" /\ silence = Disarmed
                  /\ {"RxDone", "RxTimeout"} \cap (flags \cup got) = {}

LEMMA ContinuousOnlyStep ==
    ASSUME Calls \cap {"rxsingle", "cad"} = {}, TypeOK, ContinuousOnly, [Next]_vars
    PROVE  ContinuousOnly'
  <1>. SUFFICES ASSUME faults' = MaxFaults
                PROVE  /\ mode' \notin {"RxSingle", "Cad"}
                       /\ "CadDone" \notin flags' \cup got' /\ pc' # "cad"
                       /\ ~rxCont' => /\ mode' # "RxCont" /\ silence' = Disarmed
                                      /\ {"RxDone", "RxTimeout"} \cap (flags' \cup got') = {}
    BY DEF ContinuousOnly
  <1>. Numbers /\ Booleans
    BY TypeGroups
  <1>0. /\ ~Fault /\ mode \notin {"RxSingle", "Cad"} /\ "CadDone" \notin flags \cup got
        /\ pc # "cad"
        /\ ~rxCont => /\ mode # "RxCont" /\ silence = Disarmed
                      /\ {"RxDone", "RxTimeout"} \cap (flags \cup got) = {}
    BY NoFaultSoFar DEF ContinuousOnly
  <1>. USE DEF SetMode, SetModeMayFail, chipVars, timers, fsm, thread, Calling, Step
  <1>1. CASE Interrupt \/ Poll \/ UNCHANGED vars
    BY <1>0, <1>1 DEF Interrupt, Poll, vars
  <1>2. CASE Chip
    BY <1>0, <1>2 DEF Chip, ChipTxDone, ChipHeader, ChipPacket, ChipRxTimeout,
                      ChipCadDone, Raise, PacketEnds
  <1>3. CASE Tick
    BY <1>0, <1>3 DEF Tick, Down, Disarmed
  <1>4. CASE Begin \/ BeginFails \/ End
    BY <1>0, <1>4 DEF Begin, BeginFails, End
  <1>5. CASE SetSleep \/ SetStandby
    BY <1>0, <1>5 DEF SetSleep, SetStandby, Quiet
  <1>6. CASE StartRx
    <2>1. Receive("rxcont", TRUE)
      BY <1>6 DEF StartRx, Receive
    <2>. QED
      BY <1>0, <2>1 DEF Receive, StartReceive, StartReceiveFails, RxMode
  <1>7. ASSUME NEW auto \in BOOLEAN, StartCad(auto)
        PROVE  FALSE
    BY <1>7 DEF StartCad
  <1>8. ASSUME NEW timeout \in SendTimeouts, Send(timeout)
        PROVE  ContinuousOnly'
    BY <1>0, <1>8 DEF Send, ContinuousOnly
  <1>9. CASE SendFails
    BY <1>0, <1>9 DEF SendFails
  <1>10. CASE SendArm \/ SendLoop \/ SendOK \/ SendTimeout \/ SendAgain
    BY <1>0, <1>10 DEF SendArm, SendLoop, SendOK, SendTimeout, SendAgain, SendReturns
  <1>11. CASE TxWatchdog
    BY <1>0, <1>11 DEF TxWatchdog
  <1>12. CASE SilenceWatchdog
    BY <1>0, <1>12 DEF SilenceWatchdog
  <1>13. CASE Synthesize \/ PopMarker \/ LoopEnds
    BY <1>0, <1>13, TypeGroups DEF Synthesize, PopMarker, LoopEnds, Places
  <1>14. CASE ReadFlags \/ ClearFlags
    BY <1>0, <1>14 DEF ReadFlags, ClearFlags
  <1>15. CASE Dispatch
    <2>1. /\ rxCont' = rxCont /\ flags' = flags /\ mode' = mode /\ got' \in {got, {}}
          /\ pc' # "cad"
      BY <1>0, <1>15 DEF Dispatch
    <2>2. ~rxCont => silence' = silence
      BY <1>0, <1>15 DEF Dispatch, GoodPacket
    <2>. QED
      BY <1>0, <2>1, <2>2
  <1>16. CASE CadContinues
    BY <1>0, <1>16 DEF CadContinues
  <1>. QED
    BY <1>1, <1>2, <1>3, <1>4, <1>5, <1>6, <1>7, <1>8, <1>9, <1>10, <1>11, <1>12,
       <1>13, <1>14, <1>15, <1>16 DEF Next, Application, Working, ContinuousOnly

(* process_events() does not change state_: what Facade assumes of a poll     *)
(* when it reduces the transceiver to state_.                                *)
PollKeepsState ==
    [][(pc \in ProcessSteps /\ faults' = MaxFaults) => state' = state]_vars

THEOREM PollsKeepState ==
    Calls \cap {"rxsingle", "cad"} = {} => (Spec => PollKeepsState)
  <1>. SUFFICES ASSUME Calls \cap {"rxsingle", "cad"} = {} PROVE Spec => PollKeepsState
    OBVIOUS
  <1>1. Init => ContinuousOnly
    BY DEF Init, ContinuousOnly
  <1>2. TypeOK /\ ContinuousOnly /\ [Next]_vars => ContinuousOnly'
    BY ContinuousOnlyStep
  <1>3. ASSUME TypeOK, ContinuousOnly, [Next]_vars, pc \in ProcessSteps,
               faults' = MaxFaults
        PROVE  state' = state
    <2>1. /\ ~Fault /\ "CadDone" \notin got /\ pc # "cad" /\ pc # "app"
          /\ pc \notin SendSteps
          /\ ~rxCont => silence = Disarmed /\ {"RxDone", "RxTimeout"} \cap got = {}
      BY <1>3, NoFaultSoFar, TypeGroups DEF ContinuousOnly, ProcessSteps, SendSteps
    <2>2. CASE Interrupt \/ Chip \/ Tick \/ UNCHANGED vars
      BY <2>2 DEF Interrupt, Chip, Tick, vars, fsm
    <2>3. CASE TxWatchdog \/ Synthesize \/ PopMarker \/ LoopEnds \/ ReadFlags \/ ClearFlags
      BY <2>3 DEF TxWatchdog, Synthesize, PopMarker, LoopEnds, ReadFlags, ClearFlags, fsm
    <2>4. CASE SilenceWatchdog
      BY <2>1, <2>4 DEF SilenceWatchdog, SilenceFires, ReceptionEnds, Disarmed
    <2>5. CASE Dispatch
      BY <2>1, <2>5 DEF Dispatch, GoodPacket, ReceptionEnds
    <2>6. CASE CadContinues
      BY <2>1, <2>6 DEF CadContinues, Step
    <2>7. ASSUME Poll \/ SendArm \/ SendLoop \/ SendOK \/ SendTimeout \/ SendAgain
          PROVE  FALSE
      BY <2>1, <2>7 DEF Poll, SendArm, SendLoop, SendOK, SendTimeout, SendAgain, SendSteps
    <2>8. ASSUME Application PROVE FALSE
      BY <2>1, <2>8 DEF Application, Begin, BeginFails, End, SetSleep, SetStandby, Quiet,
                        StartRx, Receive, StartCad, Send, SendFails, Calling
    <2>. QED
      BY <1>3, <2>2, <2>3, <2>4, <2>5, <2>6, <2>7, <2>8 DEF Next, Working
  <1>4. TypeOK /\ ContinuousOnly /\ [Next]_vars =>
          [(pc \in ProcessSteps /\ faults' = MaxFaults) => state' = state]_vars
    BY <1>3
  <1>. QED
    BY <1>1, <1>2, <1>4, TypeInit, TypeStep, PTL DEF Spec, PollKeepsState
=============================================================================
