--------------------------- MODULE ThreadsProofs ---------------------------
(***************************************************************************)
(* Theorems about Threads for every ring size, placement of the pump task,   *)
(* number of packets and number of calls.                                   *)
(***************************************************************************)
EXTENDS Threads, TLAPS

USE BoundsAssumption

(* Types, in four groups: where the threads are, their locals and the ring,  *)
(* the values from small sets, and the Booleans.                             *)
PlaceTypes == /\ pc \in [Threads -> LoopPlaces \cup PumpPlaces]
              /\ pc["pump"] \in PumpPlaces /\ pc["loop"] \in LoopPlaces

LocalTypes == /\ got \in [Threads -> SUBSET IrqFlags]
              /\ loadedTail \in [Threads -> 0 .. Size - 1]
              /\ iters \in [Threads -> 0 .. Size]
              /\ flags \subseteq IrqFlags /\ sending \subseteq Threads
              /\ head \in 0 .. Size - 1 /\ tail \in 0 .. Size - 1

ThreadTypes == PlaceTypes /\ LocalTypes

Symbols == /\ mode \in Modes /\ dio0 \in IrqFlags /\ ptr \in {"tx", "past", "rx"}
           /\ air \in {"none", "air", "sent", "cut"}
           /\ owner \in Threads /\ state \in Modes
           /\ packets \in 0 .. MaxPackets /\ sends \in 0 .. MaxSends
           /\ asyncs \in 0 .. MaxAsyncs /\ queued \in 0 .. asyncs
           /\ setup \in Setups

Booleans == /\ loaded \in BOOLEAN /\ edge \in BOOLEAN
            /\ txActive \in BOOLEAN /\ notified \in BOOLEAN /\ txPending \in BOOLEAN
            /\ due \in BOOLEAN /\ sendDue \in [Threads -> BOOLEAN]

LEMMA TypeGroups == TypeOK <=> ThreadTypes /\ Symbols /\ Booleans
  BY DEF TypeOK, ThreadTypes, PlaceTypes, LocalTypes, Symbols, Booleans

(* Where a thread is while it is in send(), and where it need not be.        *)
CallPlaces == TransmitSteps \cup {"while", "late", "leave"}

InsideAt(t) == /\ pc[t] \in CallPlaces => t \in sending
               /\ t \in sending => pc[t] \in CallPlaces \cup ProcessSteps

Inside == /\ InsideAt("loop") /\ InsideAt("pump")
          /\ pc["loop"] \in ProcessSteps => "loop" \in sending

(* A thread that is about to take a marker has rounds left, and it starts    *)
(* to count at zero.                                                         *)
DrainSteps == {"test", "load", "store", "read", "clear", "ptr", "burst",
               "callback", "txdone"}
RoundLeft == \A t \in Threads :
               /\ pc[t] \in {"load", "store"} => iters[t] < Size
               /\ pc[t] \notin DrainSteps => iters[t] = 0

Places == Inside /\ RoundLeft

LEMMA SuccInRing == ASSUME NEW i \in 0 .. Size - 1
                    PROVE  Succ(i) \in 0 .. Size - 1 /\ Succ(i) # i
  BY DEF Succ

(* The actions by the thread that takes them. *)
LEMMA ActionsByThread ==
  ASSUME [Next]_vars
  PROVE  \/ Send \/ SendAsync \/ Receive
         \/ \E t \in Threads : \/ Transmit(t) \/ SendLoop(t) \/ ReceiveCall(t)
                               \/ ProcessEvents(t)
         \/ Wake \/ Restore \/ QueueReceive \/ QueueEmpty
         \/ Interrupt \/ Chip \/ Tick \/ UNCHANGED vars
  BY DEF Next, LoopThread, PumpThread, Works, Threads

LEMMA TypeInit == Init => TypeOK
  <1>. SUFFICES ASSUME Init PROVE ThreadTypes /\ Symbols /\ Booleans
    BY TypeGroups
  <1>1. ThreadTypes
    BY DEF Init, ThreadTypes, PlaceTypes, LocalTypes, Threads, LoopPlaces,
           PumpPlaces, IrqFlags
  <1>2. Symbols
    BY DEF Init, Symbols, Modes, IrqFlags, Threads
  <1>3. Booleans
    BY DEF Init, Booleans
  <1>. QED
    BY <1>1, <1>2, <1>3

(* A thread stays in its places when it goes to a step of a call. *)
LEMMA StaysInPlace ==
  ASSUME PlaceTypes, NEW t \in Threads, NEW p, GoTo(t, p),
         \/ p \in CallSteps
         \/ t = "loop" /\ p = "idle"
         \/ t = "pump" /\ p \in {"take", "restore", "queue"}
  PROVE  PlaceTypes'
  BY DEF PlaceTypes, GoTo, LoopPlaces, PumpPlaces, Threads

LEMMA PlaceTypesStep == PlaceTypes /\ Inside /\ [Next]_vars => PlaceTypes'
  <1>. SUFFICES ASSUME PlaceTypes, Inside, [Next]_vars
                PROVE  PlaceTypes'
    OBVIOUS
  <1>. "loop" \in Threads /\ "pump" \in Threads
    BY DEF Threads
  <1>. USE DEF CallSteps, ProcessSteps, TransmitSteps, ReceiveSteps
  <1>1. CASE Send
    BY <1>1, StaysInPlace DEF Send, Call
  <1>2. CASE SendAsync
    BY <1>2 DEF SendAsync, PlaceTypes
  <1>3. CASE Receive
    BY <1>3, StaysInPlace DEF Receive
  <1>4. ASSUME NEW t \in Threads, Transmit(t)
        PROVE  PlaceTypes'
    <2>1. CASE SetStandby(t) \/ StandbyState(t)
      BY <2>1, StaysInPlace DEF SetStandby, StandbyState
    <2>2. CASE TxStandby(t) \/ TxPtr(t)
      BY <2>2, StaysInPlace DEF TxStandby, TxPtr
    <2>3. CASE TxBurst(t) \/ TxDio0(t)
      BY <2>3, StaysInPlace DEF TxBurst, TxDio0
    <2>4. CASE TxMode(t) \/ TxActive(t)
      BY <2>4, StaysInPlace DEF TxMode, TxActive
    <2>5. CASE TxDeadline(t) \/ TxState(t)
      BY <2>5, StaysInPlace DEF TxDeadline, TxState
    <2>. QED
      BY <1>4, <2>1, <2>2, <2>3, <2>4, <2>5 DEF Transmit
  <1>5. ASSUME NEW t \in Threads, SendLoop(t)
        PROVE  PlaceTypes'
    <2>1. CASE SendTurn(t) \/ SendOK(t)
      BY <2>1, StaysInPlace DEF SendTurn, SendOK
    <2>2. CASE SendTimeout(t) \/ SendAgain(t)
      BY <2>2, StaysInPlace DEF SendTimeout, SendAgain
    <2>3. CASE Leave(t)
      BY <2>3, StaysInPlace DEF Leave, Threads
    <2>. QED
      BY <1>5, <2>1, <2>2, <2>3 DEF SendLoop
  <1>6. ASSUME NEW t \in Threads, ReceiveCall(t)
        PROVE  PlaceTypes'
    <2>1. CASE RxStandby(t) \/ RxPtr(t)
      BY <2>1, StaysInPlace DEF RxStandby, RxPtr
    <2>2. CASE RxDio0(t) \/ RxMode(t)
      BY <2>2, StaysInPlace DEF RxDio0, RxMode
    <2>3. CASE RxState(t)
      BY <2>3, StaysInPlace DEF RxState, Threads
    <2>. QED
      BY <1>6, <2>1, <2>2, <2>3 DEF ReceiveCall
  <1>7. ASSUME NEW t \in Threads, ProcessEvents(t)
        PROVE  PlaceTypes'
    <2>1. CASE Watchdog(t) \/ Overdue(t)
      BY <2>1, StaysInPlace DEF Watchdog, Overdue
    <2>2. CASE GiveUp(t) \/ Cut(t)
      BY <2>2, StaysInPlace DEF GiveUp, Cut
    <2>3. CASE LoopTest(t)
      <3>1. GoTo(t, "load") \/ GoTo(t, Done(t))
        BY <2>3 DEF LoopTest, MoreEvents
      <3>2. t \in sending \/ t = "pump"
        BY <2>3 DEF LoopTest, Inside, InsideAt, Threads, At
      <3>. QED
        BY <3>1, <3>2, StaysInPlace DEF Done
    <2>4. CASE LoadTail(t) \/ StoreTail(t)
      BY <2>4, StaysInPlace DEF LoadTail, StoreTail
    <2>5. CASE ReadFlags(t) \/ ClearFlags(t)
      BY <2>5, StaysInPlace DEF ReadFlags, ClearFlags
    <2>6. CASE ReadPtr(t) \/ ReadBurst(t)
      BY <2>6, StaysInPlace DEF ReadPtr, ReadBurst
    <2>7. CASE CallbackReturns(t) \/ TxDoneEvent(t)
      BY <2>7, StaysInPlace DEF CallbackReturns, TxDoneEvent
    <2>. QED
      BY <1>7, <2>1, <2>2, <2>3, <2>4, <2>5, <2>6, <2>7 DEF ProcessEvents
  <1>8. CASE Wake
    BY <1>8, StaysInPlace DEF Wake
  <1>9. CASE Restore
    BY <1>9, StaysInPlace DEF Restore
  <1>10. CASE QueueReceive
    BY <1>10, StaysInPlace DEF QueueReceive, Call
  <1>11. CASE QueueEmpty
    BY <1>11, StaysInPlace DEF QueueEmpty
  <1>12. CASE Interrupt \/ Chip
    BY <1>12 DEF Interrupt, Chip, PlaceTypes
  <1>13. CASE Tick \/ UNCHANGED vars
    BY <1>13 DEF Tick, vars, PlaceTypes
  <1>. QED
    BY ActionsByThread, <1>1, <1>2, <1>3, <1>4, <1>5, <1>6, <1>7, <1>8, <1>9,
       <1>10, <1>11, <1>12, <1>13

LEMMA LocalTypesStep == LocalTypes /\ RoundLeft /\ [Next]_vars => LocalTypes'
  <1>. SUFFICES ASSUME LocalTypes, RoundLeft, [Next]_vars
                PROVE  LocalTypes'
    OBVIOUS
  <1>. USE DEF LocalTypes, Threads, IrqFlags, At, chipVars, ring, clock, fsm,
               pump, locals, bounds, BesideChip, BesideFields
  <1>1. CASE Send \/ SendAsync
    BY <1>1 DEF Send, SendAsync, Call
  <1>2. CASE Receive
    BY <1>2 DEF Receive
  <1>3. ASSUME NEW t \in Threads, Transmit(t)
        PROVE  LocalTypes'
    <2>1. CASE SetStandby(t) \/ StandbyState(t) \/ TxStandby(t)
      BY <2>1 DEF SetStandby, StandbyState, TxStandby
    <2>2. CASE TxPtr(t) \/ TxBurst(t) \/ TxDio0(t)
      BY <2>2 DEF TxPtr, TxBurst, TxDio0
    <2>3. CASE TxMode(t) \/ TxActive(t)
      BY <2>3 DEF TxMode, TxActive
    <2>4. CASE TxDeadline(t) \/ TxState(t)
      BY <2>4 DEF TxDeadline, TxState
    <2>. QED
      BY <1>3, <2>1, <2>2, <2>3, <2>4 DEF Transmit
  <1>4. ASSUME NEW t \in Threads, SendLoop(t)
        PROVE  LocalTypes'
    <2>1. CASE SendTurn(t) \/ SendOK(t)
      BY <2>1 DEF SendTurn, SendOK
    <2>2. CASE SendTimeout(t) \/ SendAgain(t)
      BY <2>2 DEF SendTimeout, SendAgain
    <2>3. CASE Leave(t)
      BY <2>3 DEF Leave
    <2>. QED
      BY <1>4, <2>1, <2>2, <2>3 DEF SendLoop
  <1>5. ASSUME NEW t \in Threads, ReceiveCall(t)
        PROVE  LocalTypes'
    <2>1. CASE RxStandby(t) \/ RxPtr(t) \/ RxDio0(t)
      BY <2>1 DEF RxStandby, RxPtr, RxDio0
    <2>2. CASE RxMode(t) \/ RxState(t)
      BY <2>2 DEF RxMode, RxState
    <2>. QED
      BY <1>5, <2>1, <2>2 DEF ReceiveCall
  <1>6. ASSUME NEW t \in Threads, ProcessEvents(t)
        PROVE  LocalTypes'
    <2>1. CASE Watchdog(t) \/ Overdue(t)
      BY <2>1 DEF Watchdog, Overdue
    <2>2. CASE GiveUp(t) \/ Cut(t)
      BY <2>2 DEF GiveUp, Cut
    <2>3. CASE LoopTest(t)
      BY <2>3 DEF LoopTest, MoreEvents, Done
    <2>4. CASE LoadTail(t)
      BY <2>4 DEF LoadTail
    <2>5. CASE StoreTail(t)
      <3>1. tail' \in 0 .. Size - 1
        BY <2>5, SuccInRing DEF StoreTail
      <3>2. iters' \in [Threads -> 0 .. Size]
        BY <2>5 DEF StoreTail, RoundLeft
      <3>. QED
        BY <2>5, <3>1, <3>2 DEF StoreTail
    <2>6. CASE ReadFlags(t)
      BY <2>6 DEF ReadFlags
    <2>7. CASE ClearFlags(t)
      BY <2>7 DEF ClearFlags
    <2>8. CASE ReadPtr(t) \/ ReadBurst(t) \/ CallbackReturns(t)
      BY <2>8 DEF ReadPtr, ReadBurst, CallbackReturns
    <2>9. CASE TxDoneEvent(t)
      BY <2>9 DEF TxDoneEvent
    <2>. QED
      BY <1>6, <2>1, <2>2, <2>3, <2>4, <2>5, <2>6, <2>7, <2>8, <2>9
         DEF ProcessEvents
  <1>7. CASE Wake \/ Restore
    BY <1>7 DEF Wake, Restore
  <1>8. CASE QueueReceive \/ QueueEmpty
    BY <1>8 DEF QueueReceive, QueueEmpty, Call
  <1>9. CASE Interrupt
    BY <1>9, SuccInRing DEF Interrupt
  <1>10. CASE Chip
    BY <1>10 DEF Chip, ChipTxDone, ChipPacket
  <1>11. CASE Tick \/ UNCHANGED vars
    BY <1>11 DEF Tick, vars
  <1>. QED
    BY ActionsByThread, <1>1, <1>2, <1>3, <1>4, <1>5, <1>6, <1>7, <1>8, <1>9,
       <1>10, <1>11

LEMMA ThreadTypesStep == ThreadTypes /\ Places /\ [Next]_vars => ThreadTypes'
  BY PlaceTypesStep, LocalTypesStep DEF ThreadTypes, Places

LEMMA InsideStep == ThreadTypes /\ Inside /\ [Next]_vars => Inside'
  <1>. SUFFICES ASSUME ThreadTypes, Inside, [Next]_vars
                PROVE  Inside'
    OBVIOUS
  <1>. USE DEF ThreadTypes, PlaceTypes, LocalTypes, Inside, InsideAt,
               CallPlaces, Threads, ProcessSteps, TransmitSteps, ReceiveSteps,
               At, GoTo, chipVars, ring, clock, fsm, pump, locals, bounds,
               BesideChip, BesideFields
  <1>1. CASE Send \/ SendAsync
    BY <1>1 DEF Send, SendAsync, Call
  <1>2. CASE Receive
    BY <1>2 DEF Receive
  <1>3. ASSUME NEW t \in Threads, Transmit(t)
        PROVE  Inside'
    <2>1. CASE SetStandby(t) \/ StandbyState(t) \/ TxStandby(t)
      BY <2>1 DEF SetStandby, StandbyState, TxStandby
    <2>2. CASE TxPtr(t) \/ TxBurst(t) \/ TxDio0(t)
      BY <2>2 DEF TxPtr, TxBurst, TxDio0
    <2>3. CASE TxMode(t) \/ TxActive(t)
      BY <2>3 DEF TxMode, TxActive
    <2>4. CASE TxDeadline(t) \/ TxState(t)
      BY <2>4 DEF TxDeadline, TxState
    <2>. QED
      BY <1>3, <2>1, <2>2, <2>3, <2>4 DEF Transmit
  <1>4. ASSUME NEW t \in Threads, SendLoop(t)
        PROVE  Inside'
    <2>1. CASE SendTurn(t) \/ SendOK(t)
      BY <2>1 DEF SendTurn, SendOK
    <2>2. CASE SendTimeout(t) \/ SendAgain(t)
      BY <2>2 DEF SendTimeout, SendAgain
    <2>3. CASE Leave(t)
      BY <2>3 DEF Leave
    <2>. QED
      BY <1>4, <2>1, <2>2, <2>3 DEF SendLoop
  <1>5. ASSUME NEW t \in Threads, ReceiveCall(t)
        PROVE  Inside'
    <2>1. CASE RxStandby(t) \/ RxPtr(t) \/ RxDio0(t)
      BY <2>1 DEF RxStandby, RxPtr, RxDio0
    <2>2. CASE RxMode(t) \/ RxState(t)
      BY <2>2 DEF RxMode, RxState
    <2>. QED
      BY <1>5, <2>1, <2>2 DEF ReceiveCall
  <1>6. ASSUME NEW t \in Threads, ProcessEvents(t)
        PROVE  Inside'
    <2>1. CASE Watchdog(t) \/ Overdue(t) \/ GiveUp(t) \/ Cut(t)
      BY <2>1 DEF Watchdog, Overdue, GiveUp, Cut
    <2>2. CASE LoopTest(t)
      BY <2>2 DEF LoopTest, MoreEvents, Done
    <2>3. CASE LoadTail(t) \/ StoreTail(t)
      BY <2>3 DEF LoadTail, StoreTail
    <2>4. CASE ReadFlags(t) \/ ClearFlags(t)
      BY <2>4 DEF ReadFlags, ClearFlags
    <2>5. CASE ReadPtr(t) \/ ReadBurst(t) \/ CallbackReturns(t)
      BY <2>5 DEF ReadPtr, ReadBurst, CallbackReturns
    <2>6. CASE TxDoneEvent(t)
      BY <2>6 DEF TxDoneEvent
    <2>. QED
      BY <1>6, <2>1, <2>2, <2>3, <2>4, <2>5, <2>6 DEF ProcessEvents
  <1>7. CASE Wake \/ Restore
    BY <1>7 DEF Wake, Restore
  <1>8. CASE QueueReceive \/ QueueEmpty
    BY <1>8 DEF QueueReceive, QueueEmpty, Call
  <1>9. CASE Interrupt
    BY <1>9 DEF Interrupt
  <1>10. CASE Chip
    BY <1>10 DEF Chip, ChipTxDone, ChipPacket
  <1>11. CASE Tick \/ UNCHANGED vars
    BY <1>11 DEF Tick, vars
  <1>. QED
    BY ActionsByThread, <1>1, <1>2, <1>3, <1>4, <1>5, <1>6, <1>7, <1>8, <1>9,
       <1>10, <1>11

LEMMA RoundLeftStep == ThreadTypes /\ RoundLeft /\ [Next]_vars => RoundLeft'
  <1>. SUFFICES ASSUME ThreadTypes, RoundLeft, [Next]_vars
                PROVE  RoundLeft'
    OBVIOUS
  <1>. USE DEF ThreadTypes, PlaceTypes, LocalTypes, RoundLeft, DrainSteps,
               Threads, At, GoTo, chipVars, ring, clock, fsm, pump, locals,
               bounds, BesideChip, BesideFields
  <1>1. CASE Send \/ SendAsync
    BY <1>1 DEF Send, SendAsync, Call
  <1>2. CASE Receive
    BY <1>2 DEF Receive
  <1>3. ASSUME NEW t \in Threads, Transmit(t)
        PROVE  RoundLeft'
    <2>1. CASE SetStandby(t) \/ StandbyState(t) \/ TxStandby(t)
      BY <2>1 DEF SetStandby, StandbyState, TxStandby
    <2>2. CASE TxPtr(t) \/ TxBurst(t) \/ TxDio0(t)
      BY <2>2 DEF TxPtr, TxBurst, TxDio0
    <2>3. CASE TxMode(t) \/ TxActive(t)
      BY <2>3 DEF TxMode, TxActive
    <2>4. CASE TxDeadline(t) \/ TxState(t)
      BY <2>4 DEF TxDeadline, TxState
    <2>. QED
      BY <1>3, <2>1, <2>2, <2>3, <2>4 DEF Transmit
  <1>4. ASSUME NEW t \in Threads, SendLoop(t)
        PROVE  RoundLeft'
    <2>1. CASE SendTurn(t) \/ SendOK(t)
      BY <2>1 DEF SendTurn, SendOK
    <2>2. CASE SendTimeout(t) \/ SendAgain(t)
      BY <2>2 DEF SendTimeout, SendAgain
    <2>3. CASE Leave(t)
      BY <2>3 DEF Leave
    <2>. QED
      BY <1>4, <2>1, <2>2, <2>3 DEF SendLoop
  <1>5. ASSUME NEW t \in Threads, ReceiveCall(t)
        PROVE  RoundLeft'
    <2>1. CASE RxStandby(t) \/ RxPtr(t) \/ RxDio0(t)
      BY <2>1 DEF RxStandby, RxPtr, RxDio0
    <2>2. CASE RxMode(t) \/ RxState(t)
      BY <2>2 DEF RxMode, RxState
    <2>. QED
      BY <1>5, <2>1, <2>2 DEF ReceiveCall
  <1>6. ASSUME NEW t \in Threads, ProcessEvents(t)
        PROVE  RoundLeft'
    <2>1. CASE Watchdog(t) \/ Overdue(t) \/ GiveUp(t) \/ Cut(t)
      BY <2>1 DEF Watchdog, Overdue, GiveUp, Cut
    <2>2. CASE LoopTest(t)
      BY <2>2 DEF LoopTest, MoreEvents, Done
    <2>3. CASE LoadTail(t) \/ StoreTail(t)
      BY <2>3 DEF LoadTail, StoreTail
    <2>4. CASE ReadFlags(t) \/ ClearFlags(t)
      BY <2>4 DEF ReadFlags, ClearFlags
    <2>5. CASE ReadPtr(t) \/ ReadBurst(t) \/ CallbackReturns(t)
      BY <2>5 DEF ReadPtr, ReadBurst, CallbackReturns
    <2>6. CASE TxDoneEvent(t)
      BY <2>6 DEF TxDoneEvent
    <2>. QED
      BY <1>6, <2>1, <2>2, <2>3, <2>4, <2>5, <2>6 DEF ProcessEvents
  <1>7. CASE Wake \/ Restore
    BY <1>7 DEF Wake, Restore
  <1>8. CASE QueueReceive \/ QueueEmpty
    BY <1>8 DEF QueueReceive, QueueEmpty, Call
  <1>9. CASE Interrupt
    BY <1>9 DEF Interrupt
  <1>10. CASE Chip
    BY <1>10 DEF Chip, ChipTxDone, ChipPacket
  <1>11. CASE Tick \/ UNCHANGED vars
    BY <1>11 DEF Tick, vars
  <1>. QED
    BY ActionsByThread, <1>1, <1>2, <1>3, <1>4, <1>5, <1>6, <1>7, <1>8, <1>9,
       <1>10, <1>11

LEMMA SymbolsStep == Symbols /\ [Next]_vars => Symbols'
  <1>. SUFFICES ASSUME Symbols, [Next]_vars
                PROVE  Symbols'
    OBVIOUS
  <1>. USE DEF Symbols, Modes, IrqFlags, SetMode, chipVars, ring, clock, fsm,
               pump, locals, bounds, BesideChip, BesideFields
  <1>1. CASE Send \/ SendAsync
    BY <1>1 DEF Send, SendAsync, Call
  <1>2. CASE Receive
    BY <1>2 DEF Receive
  <1>3. ASSUME NEW t \in Threads, Transmit(t)
        PROVE  Symbols'
    <2>1. CASE SetStandby(t) \/ StandbyState(t) \/ TxStandby(t)
      BY <2>1 DEF SetStandby, StandbyState, TxStandby
    <2>2. CASE TxPtr(t) \/ TxBurst(t) \/ TxDio0(t)
      BY <2>2 DEF TxPtr, TxBurst, TxDio0
    <2>3. CASE TxMode(t) \/ TxActive(t)
      BY <2>3 DEF TxMode, TxActive
    <2>4. CASE TxDeadline(t) \/ TxState(t)
      BY <2>4 DEF TxDeadline, TxState
    <2>. QED
      BY <1>3, <2>1, <2>2, <2>3, <2>4 DEF Transmit
  <1>4. ASSUME NEW t \in Threads, SendLoop(t)
        PROVE  Symbols'
    <2>1. CASE SendTurn(t) \/ SendOK(t)
      BY <2>1 DEF SendTurn, SendOK
    <2>2. CASE SendTimeout(t) \/ SendAgain(t)
      BY <2>2 DEF SendTimeout, SendAgain
    <2>3. CASE Leave(t)
      BY <2>3 DEF Leave
    <2>. QED
      BY <1>4, <2>1, <2>2, <2>3 DEF SendLoop
  <1>5. ASSUME NEW t \in Threads, ReceiveCall(t)
        PROVE  Symbols'
    <2>1. CASE RxStandby(t) \/ RxPtr(t) \/ RxDio0(t)
      BY <2>1 DEF RxStandby, RxPtr, RxDio0
    <2>2. CASE RxMode(t) \/ RxState(t)
      BY <2>2 DEF RxMode, RxState
    <2>. QED
      BY <1>5, <2>1, <2>2 DEF ReceiveCall
  <1>6. ASSUME NEW t \in Threads, ProcessEvents(t)
        PROVE  Symbols'
    <2>1. CASE Watchdog(t) \/ Overdue(t) \/ GiveUp(t) \/ Cut(t)
      BY <2>1 DEF Watchdog, Overdue, GiveUp, Cut
    <2>2. CASE LoopTest(t)
      BY <2>2 DEF LoopTest, MoreEvents, Done
    <2>3. CASE LoadTail(t) \/ StoreTail(t)
      BY <2>3 DEF LoadTail, StoreTail
    <2>4. CASE ReadFlags(t) \/ ClearFlags(t)
      BY <2>4 DEF ReadFlags, ClearFlags
    <2>5. CASE ReadPtr(t) \/ ReadBurst(t) \/ CallbackReturns(t)
      BY <2>5 DEF ReadPtr, ReadBurst, CallbackReturns
    <2>6. CASE TxDoneEvent(t)
      BY <2>6 DEF TxDoneEvent
    <2>. QED
      BY <1>6, <2>1, <2>2, <2>3, <2>4, <2>5, <2>6 DEF ProcessEvents
  <1>7. CASE Wake \/ Restore
    BY <1>7 DEF Wake, Restore
  <1>8. CASE QueueReceive \/ QueueEmpty
    BY <1>8 DEF QueueReceive, QueueEmpty, Call
  <1>9. CASE Interrupt
    BY <1>9 DEF Interrupt
  <1>10. CASE Chip
    BY <1>10 DEF Chip, ChipTxDone, ChipPacket
  <1>11. CASE Tick \/ UNCHANGED vars
    BY <1>11 DEF Tick, vars
  <1>. QED
    BY ActionsByThread, <1>1, <1>2, <1>3, <1>4, <1>5, <1>6, <1>7, <1>8, <1>9,
       <1>10, <1>11

LEMMA BooleansStep == Booleans /\ [Next]_vars => Booleans'
  <1>. SUFFICES ASSUME Booleans, [Next]_vars
                PROVE  Booleans'
    OBVIOUS
  <1>. USE DEF Booleans, LatchEdge, LineHigh, chipVars, ring, clock, fsm, pump,
               locals, bounds, BesideChip, BesideFields
  <1>1. CASE Send \/ SendAsync
    BY <1>1 DEF Send, SendAsync, Call
  <1>2. CASE Receive
    BY <1>2 DEF Receive
  <1>3. ASSUME NEW t \in Threads, Transmit(t)
        PROVE  Booleans'
    <2>1. CASE SetStandby(t) \/ StandbyState(t) \/ TxStandby(t)
      BY <2>1 DEF SetStandby, StandbyState, TxStandby
    <2>2. CASE TxPtr(t) \/ TxBurst(t) \/ TxDio0(t)
      BY <2>2 DEF TxPtr, TxBurst, TxDio0
    <2>3. CASE TxMode(t) \/ TxActive(t)
      BY <2>3 DEF TxMode, TxActive
    <2>4. CASE TxDeadline(t) \/ TxState(t)
      BY <2>4 DEF TxDeadline, TxState
    <2>. QED
      BY <1>3, <2>1, <2>2, <2>3, <2>4 DEF Transmit
  <1>4. ASSUME NEW t \in Threads, SendLoop(t)
        PROVE  Booleans'
    <2>1. CASE SendTurn(t) \/ SendOK(t)
      BY <2>1 DEF SendTurn, SendOK
    <2>2. CASE SendTimeout(t) \/ SendAgain(t)
      BY <2>2 DEF SendTimeout, SendAgain
    <2>3. CASE Leave(t)
      BY <2>3 DEF Leave
    <2>. QED
      BY <1>4, <2>1, <2>2, <2>3 DEF SendLoop
  <1>5. ASSUME NEW t \in Threads, ReceiveCall(t)
        PROVE  Booleans'
    <2>1. CASE RxStandby(t) \/ RxPtr(t) \/ RxDio0(t)
      BY <2>1 DEF RxStandby, RxPtr, RxDio0
    <2>2. CASE RxMode(t) \/ RxState(t)
      BY <2>2 DEF RxMode, RxState
    <2>. QED
      BY <1>5, <2>1, <2>2 DEF ReceiveCall
  <1>6. ASSUME NEW t \in Threads, ProcessEvents(t)
        PROVE  Booleans'
    <2>1. CASE Watchdog(t) \/ Overdue(t) \/ GiveUp(t) \/ Cut(t)
      BY <2>1 DEF Watchdog, Overdue, GiveUp, Cut
    <2>2. CASE LoopTest(t)
      BY <2>2 DEF LoopTest, MoreEvents, Done
    <2>3. CASE LoadTail(t) \/ StoreTail(t)
      BY <2>3 DEF LoadTail, StoreTail
    <2>4. CASE ReadFlags(t) \/ ClearFlags(t)
      BY <2>4 DEF ReadFlags, ClearFlags
    <2>5. CASE ReadPtr(t) \/ ReadBurst(t) \/ CallbackReturns(t)
      BY <2>5 DEF ReadPtr, ReadBurst, CallbackReturns
    <2>6. CASE TxDoneEvent(t)
      BY <2>6 DEF TxDoneEvent
    <2>. QED
      BY <1>6, <2>1, <2>2, <2>3, <2>4, <2>5, <2>6 DEF ProcessEvents
  <1>7. CASE Wake \/ Restore
    BY <1>7 DEF Wake, Restore
  <1>8. CASE QueueReceive \/ QueueEmpty
    BY <1>8 DEF QueueReceive, QueueEmpty, Call
  <1>9. CASE Interrupt
    BY <1>9 DEF Interrupt
  <1>10. CASE Chip
    BY <1>10 DEF Chip, ChipTxDone, ChipPacket
  <1>11. CASE Tick \/ UNCHANGED vars
    BY <1>11 DEF Tick, vars
  <1>. QED
    BY ActionsByThread, <1>1, <1>2, <1>3, <1>4, <1>5, <1>6, <1>7, <1>8, <1>9,
       <1>10, <1>11

(* Both threads, the chip and the driver keep their types, whatever the two  *)
(* of them do to the ring's tail, and each keeps to its place.               *)
THEOREM TypeCorrect == Spec => [](TypeOK /\ Places)
  <1>1. Init => TypeOK /\ Places
    BY TypeInit
       DEF Init, Places, Inside, InsideAt, RoundLeft, Threads, CallPlaces,
           TransmitSteps,
                    ProcessSteps, DrainSteps
  <1>2. TypeOK /\ Places /\ [Next]_vars => (TypeOK /\ Places)'
    <2>. SUFFICES ASSUME TypeOK, Places, [Next]_vars
                  PROVE  (TypeOK /\ Places)'
      OBVIOUS
    <2>1. ThreadTypes' /\ Symbols' /\ Booleans'
      BY TypeGroups, ThreadTypesStep, SymbolsStep, BooleansStep
    <2>2. Places'
      BY TypeGroups, InsideStep, RoundLeftStep DEF Places
    <2>. QED
      BY <2>1, <2>2
         DEF TypeOK, ThreadTypes, PlaceTypes, LocalTypes, Symbols, Booleans
  <1>. QED
    BY <1>1, <1>2, PTL DEF Spec

LEMMA NoDeafLineStep == TypeOK /\ NoDeafLine /\ [Next]_vars => NoDeafLine'
  <1>. SUFFICES ASSUME ThreadTypes, NoDeafLine, [Next]_vars, LineHigh'
                PROVE  edge' \/ head' # tail' \/ \E u \in Threads : Hearing(u)'
    BY TypeGroups DEF NoDeafLine
  <1>. USE DEF ThreadTypes, PlaceTypes, LocalTypes, Threads, NoDeafLine,
               LineHigh, Hearing, At, GoTo, LatchEdge, chipVars, ring, clock,
               fsm, pump, locals, bounds, BesideChip, BesideFields
  <1>1. CASE Send \/ SendAsync
    BY <1>1 DEF Send, SendAsync, Call
  <1>2. CASE Receive
    BY <1>2 DEF Receive
  <1>3. ASSUME NEW t \in Threads, Transmit(t)
        PROVE  edge' \/ head' # tail' \/ \E u \in Threads : Hearing(u)'
    <2>1. CASE SetStandby(t) \/ StandbyState(t) \/ TxStandby(t)
      BY <2>1 DEF SetStandby, StandbyState, TxStandby
    <2>2. CASE TxPtr(t) \/ TxBurst(t)
      BY <2>2 DEF TxPtr, TxBurst
    <2>3. CASE TxDio0(t)
      <3>1. \A u \in Threads : Hearing(u) => Hearing(u)'
        BY <2>3 DEF TxDio0
      <3>2. edge' = (edge \/ (LineHigh' /\ ~LineHigh)) /\ head' = head /\ tail' = tail
        BY <2>3 DEF TxDio0
      <3>. QED
        BY <3>1, <3>2
    <2>4. CASE TxMode(t) \/ TxActive(t)
      BY <2>4 DEF TxMode, TxActive
    <2>5. CASE TxDeadline(t) \/ TxState(t)
      BY <2>5 DEF TxDeadline, TxState
    <2>. QED
      BY <1>3, <2>1, <2>2, <2>3, <2>4, <2>5 DEF Transmit
  <1>4. ASSUME NEW t \in Threads, SendLoop(t)
        PROVE  edge' \/ head' # tail' \/ \E u \in Threads : Hearing(u)'
    <2>1. CASE SendTurn(t) \/ SendOK(t)
      BY <2>1 DEF SendTurn, SendOK
    <2>2. CASE SendTimeout(t) \/ SendAgain(t)
      BY <2>2 DEF SendTimeout, SendAgain
    <2>3. CASE Leave(t)
      BY <2>3 DEF Leave
    <2>. QED
      BY <1>4, <2>1, <2>2, <2>3 DEF SendLoop
  <1>5. ASSUME NEW t \in Threads, ReceiveCall(t)
        PROVE  edge' \/ head' # tail' \/ \E u \in Threads : Hearing(u)'
    <2>1. CASE RxStandby(t) \/ RxPtr(t)
      BY <2>1 DEF RxStandby, RxPtr
    <2>2. CASE RxDio0(t)
      <3>1. \A u \in Threads : Hearing(u) => Hearing(u)'
        BY <2>2 DEF RxDio0
      <3>2. edge' = (edge \/ (LineHigh' /\ ~LineHigh)) /\ head' = head /\ tail' = tail
        BY <2>2 DEF RxDio0
      <3>. QED
        BY <3>1, <3>2
    <2>3. CASE RxMode(t) \/ RxState(t)
      BY <2>3 DEF RxMode, RxState
    <2>. QED
      BY <1>5, <2>1, <2>2, <2>3 DEF ReceiveCall
  <1>6. ASSUME NEW t \in Threads, ProcessEvents(t)
        PROVE  edge' \/ head' # tail' \/ \E u \in Threads : Hearing(u)'
    <2>1. CASE Watchdog(t) \/ Overdue(t) \/ GiveUp(t) \/ Cut(t)
      BY <2>1 DEF Watchdog, Overdue, GiveUp, Cut
    <2>2. CASE LoopTest(t)
      BY <2>2 DEF LoopTest, MoreEvents, Done
    <2>3. CASE LoadTail(t) \/ StoreTail(t)
      BY <2>3 DEF LoadTail, StoreTail
    <2>4. CASE ReadFlags(t) \/ ClearFlags(t)
      BY <2>4 DEF ReadFlags, ClearFlags
    <2>5. CASE ReadPtr(t) \/ ReadBurst(t) \/ CallbackReturns(t)
      BY <2>5 DEF ReadPtr, ReadBurst, CallbackReturns
    <2>6. CASE TxDoneEvent(t)
      BY <2>6 DEF TxDoneEvent
    <2>. QED
      BY <1>6, <2>1, <2>2, <2>3, <2>4, <2>5, <2>6 DEF ProcessEvents
  <1>7. CASE Wake \/ Restore
    BY <1>7 DEF Wake, Restore
  <1>8. CASE QueueReceive \/ QueueEmpty
    BY <1>8 DEF QueueReceive, QueueEmpty, Call
  <1>9. CASE Interrupt
    BY <1>9, SuccInRing DEF Interrupt
  <1>10. CASE Chip
    BY <1>10 DEF Chip
  <1>11. CASE Tick \/ UNCHANGED vars
    BY <1>11 DEF Tick, vars
  <1>. QED
    BY ActionsByThread, <1>1, <1>2, <1>3, <1>4, <1>5, <1>6, <1>7, <1>8, <1>9,
       <1>10, <1>11

(* Two threads that share irq_tail_ without a lock never leave the line high *)
(* with nobody to look: NoDeafLine, for every ring size and both placements, *)
(* while both send and both receive.                                         *)
THEOREM NeverDeaf == Spec => []NoDeafLine
  <1>1. Init => NoDeafLine
    BY DEF Init, NoDeafLine, LineHigh
  <1>. QED
    BY <1>1, TypeCorrect, NoDeafLineStep, PTL DEF Spec

(* Why nothing is left behind.  A transmission is registered only while some *)
(* thread is in send(), and one of three will end it: a thread that is about *)
(* to store its deadline; on one core the pump, which is about to start one; *)
(* or the thread whose deadline is stored.  That thread gives up only when   *)
(* its own deadline is over, which is after the driver's, and no time passes *)
(* between the watchdog's test in a turn and the end of that turn -- except  *)
(* while the pump, on one core, is in a send() of its own.                   *)
PumpStarts == TransmitSteps \ {"tx-deadline", "tx-state"}
AfterTest == (ProcessSteps \ {"watchdog", "overdue", "give-up"}) \cup {"late"}

Ordered == owner \in sending /\ pc[owner] \notin TransmitSteps
             => (sendDue[owner] => due)

PumpOwns == setup = "shared" /\ "pump" \in sending
              /\ pc["pump"] \notin PumpStarts \cup {"tx-deadline"}
              => owner = "pump"

Watched(t) == /\ owner = t /\ t \in sending
              /\ pc[t] \in {"tx-state", "while", "late"} \cup ProcessSteps
              /\ pc[t] \in AfterTest => ~sendDue[t]

WillEnd == \/ pc["loop"] = "tx-deadline" \/ pc["pump"] = "tx-deadline"
           \/ setup = "shared" /\ pc["pump"] \in PumpStarts
           \/ Watched("loop") \/ Watched("pump")

Guarded == Ordered /\ PumpOwns /\ (txActive => WillEnd)

LEMMA OrderedStep == TypeOK /\ Places /\ Ordered /\ [Next]_vars => Ordered'
  <1>. SUFFICES ASSUME ThreadTypes, Booleans, owner \in Threads, Inside, Ordered,
                       [Next]_vars
                PROVE  Ordered'
    BY TypeGroups DEF Places, Symbols
  <1>. USE DEF ThreadTypes, PlaceTypes, LocalTypes, Booleans, Threads, Inside,
               InsideAt, CallPlaces, ProcessSteps, TransmitSteps, At, GoTo,
               Ordered, chipVars, ring, clock, fsm, pump, locals, bounds,
               BesideChip, BesideFields
  <1>1. CASE Send \/ SendAsync
    BY <1>1 DEF Send, SendAsync, Call
  <1>2. CASE Receive
    BY <1>2 DEF Receive
  <1>3. ASSUME NEW t \in Threads, Transmit(t)
        PROVE  Ordered'
    <2>1. CASE SetStandby(t) \/ StandbyState(t) \/ TxStandby(t)
      BY <2>1 DEF SetStandby, StandbyState, TxStandby
    <2>2. CASE TxPtr(t) \/ TxBurst(t) \/ TxDio0(t)
      BY <2>2 DEF TxPtr, TxBurst, TxDio0
    <2>3. CASE TxMode(t) \/ TxActive(t)
      BY <2>3 DEF TxMode, TxActive
    <2>4. CASE TxDeadline(t) \/ TxState(t)
      BY <2>4 DEF TxDeadline, TxState
    <2>. QED
      BY <1>3, <2>1, <2>2, <2>3, <2>4 DEF Transmit
  <1>4. ASSUME NEW t \in Threads, SendLoop(t)
        PROVE  Ordered'
    <2>1. CASE SendTurn(t) \/ SendOK(t)
      BY <2>1 DEF SendTurn, SendOK
    <2>2. CASE SendTimeout(t) \/ SendAgain(t)
      BY <2>2 DEF SendTimeout, SendAgain
    <2>3. CASE Leave(t)
      BY <2>3 DEF Leave
    <2>. QED
      BY <1>4, <2>1, <2>2, <2>3 DEF SendLoop
  <1>5. ASSUME NEW t \in Threads, ReceiveCall(t)
        PROVE  Ordered'
    <2>1. CASE RxStandby(t) \/ RxPtr(t) \/ RxDio0(t)
      BY <2>1 DEF RxStandby, RxPtr, RxDio0
    <2>2. CASE RxMode(t) \/ RxState(t)
      BY <2>2 DEF RxMode, RxState
    <2>. QED
      BY <1>5, <2>1, <2>2 DEF ReceiveCall
  <1>6. ASSUME NEW t \in Threads, ProcessEvents(t)
        PROVE  Ordered'
    <2>1. CASE Watchdog(t) \/ Overdue(t) \/ GiveUp(t) \/ Cut(t)
      BY <2>1 DEF Watchdog, Overdue, GiveUp, Cut
    <2>2. CASE LoopTest(t)
      BY <2>2 DEF LoopTest, MoreEvents, Done
    <2>3. CASE LoadTail(t) \/ StoreTail(t)
      BY <2>3 DEF LoadTail, StoreTail
    <2>4. CASE ReadFlags(t) \/ ClearFlags(t)
      BY <2>4 DEF ReadFlags, ClearFlags
    <2>5. CASE ReadPtr(t) \/ ReadBurst(t) \/ CallbackReturns(t)
      BY <2>5 DEF ReadPtr, ReadBurst, CallbackReturns
    <2>6. CASE TxDoneEvent(t)
      BY <2>6 DEF TxDoneEvent
    <2>. QED
      BY <1>6, <2>1, <2>2, <2>3, <2>4, <2>5, <2>6 DEF ProcessEvents
  <1>7. CASE Wake \/ Restore
    BY <1>7 DEF Wake, Restore
  <1>8. CASE QueueReceive \/ QueueEmpty
    BY <1>8 DEF QueueReceive, QueueEmpty, Call
  <1>9. CASE Interrupt
    BY <1>9 DEF Interrupt
  <1>10. CASE Chip
    BY <1>10 DEF Chip, ChipTxDone, ChipPacket
  <1>11. CASE Tick \/ UNCHANGED vars
    BY <1>11 DEF Tick, vars
  <1>. QED
    BY ActionsByThread, <1>1, <1>2, <1>3, <1>4, <1>5, <1>6, <1>7, <1>8, <1>9,
       <1>10, <1>11

LEMMA PumpOwnsStep == TypeOK /\ Places /\ PumpOwns /\ [Next]_vars => PumpOwns'
  <1>. SUFFICES ASSUME ThreadTypes, Booleans, owner \in Threads, Inside, PumpOwns,
                       [Next]_vars
                PROVE  PumpOwns'
    BY TypeGroups DEF Places, Symbols
  <1>. USE DEF ThreadTypes, PlaceTypes, LocalTypes, Booleans, Threads, Inside,
               InsideAt, CallPlaces, ProcessSteps, TransmitSteps, At, GoTo,
               PumpOwns, PumpStarts, Runs, LoopRuns, chipVars, ring, clock, fsm,
               pump, locals, bounds, BesideChip, BesideFields
  <1>1. CASE Send \/ SendAsync
    BY <1>1 DEF Send, SendAsync, Call
  <1>2. CASE Receive
    BY <1>2 DEF Receive
  <1>3. ASSUME NEW t \in Threads, Transmit(t)
        PROVE  PumpOwns'
    <2>1. CASE SetStandby(t) \/ StandbyState(t) \/ TxStandby(t)
      BY <2>1 DEF SetStandby, StandbyState, TxStandby
    <2>2. CASE TxPtr(t) \/ TxBurst(t) \/ TxDio0(t)
      BY <2>2 DEF TxPtr, TxBurst, TxDio0
    <2>3. CASE TxMode(t) \/ TxActive(t)
      BY <2>3 DEF TxMode, TxActive
    <2>4. CASE TxDeadline(t) \/ TxState(t)
      BY <2>4 DEF TxDeadline, TxState
    <2>. QED
      BY <1>3, <2>1, <2>2, <2>3, <2>4 DEF Transmit
  <1>4. ASSUME NEW t \in Threads, SendLoop(t)
        PROVE  PumpOwns'
    <2>1. CASE SendTurn(t) \/ SendOK(t)
      BY <2>1 DEF SendTurn, SendOK
    <2>2. CASE SendTimeout(t) \/ SendAgain(t)
      BY <2>2 DEF SendTimeout, SendAgain
    <2>3. CASE Leave(t)
      BY <2>3 DEF Leave
    <2>. QED
      BY <1>4, <2>1, <2>2, <2>3 DEF SendLoop
  <1>5. ASSUME NEW t \in Threads, ReceiveCall(t)
        PROVE  PumpOwns'
    <2>1. CASE RxStandby(t) \/ RxPtr(t) \/ RxDio0(t)
      BY <2>1 DEF RxStandby, RxPtr, RxDio0
    <2>2. CASE RxMode(t) \/ RxState(t)
      BY <2>2 DEF RxMode, RxState
    <2>. QED
      BY <1>5, <2>1, <2>2 DEF ReceiveCall
  <1>6. ASSUME NEW t \in Threads, ProcessEvents(t)
        PROVE  PumpOwns'
    <2>1. CASE Watchdog(t) \/ Overdue(t) \/ GiveUp(t) \/ Cut(t)
      BY <2>1 DEF Watchdog, Overdue, GiveUp, Cut
    <2>2. CASE LoopTest(t)
      BY <2>2 DEF LoopTest, MoreEvents, Done
    <2>3. CASE LoadTail(t) \/ StoreTail(t)
      BY <2>3 DEF LoadTail, StoreTail
    <2>4. CASE ReadFlags(t) \/ ClearFlags(t)
      BY <2>4 DEF ReadFlags, ClearFlags
    <2>5. CASE ReadPtr(t) \/ ReadBurst(t) \/ CallbackReturns(t)
      BY <2>5 DEF ReadPtr, ReadBurst, CallbackReturns
    <2>6. CASE TxDoneEvent(t)
      BY <2>6 DEF TxDoneEvent
    <2>. QED
      BY <1>6, <2>1, <2>2, <2>3, <2>4, <2>5, <2>6 DEF ProcessEvents
  <1>7. CASE Wake \/ Restore
    BY <1>7 DEF Wake, Restore
  <1>8. CASE QueueReceive \/ QueueEmpty
    BY <1>8 DEF QueueReceive, QueueEmpty, Call
  <1>9. CASE Interrupt
    BY <1>9 DEF Interrupt
  <1>10. CASE Chip
    BY <1>10 DEF Chip, ChipTxDone, ChipPacket
  <1>11. CASE Tick \/ UNCHANGED vars
    BY <1>11 DEF Tick, vars
  <1>. QED
    BY ActionsByThread, <1>1, <1>2, <1>3, <1>4, <1>5, <1>6, <1>7, <1>8, <1>9,
       <1>10, <1>11

LEMMA WillEndStep ==
  TypeOK /\ Places /\ Guarded /\ [Next]_vars => (txActive => WillEnd)'
  <1>. SUFFICES ASSUME PlaceTypes, sendDue \in [Threads -> BOOLEAN], Inside,
                       Ordered, PumpOwns, txActive => WillEnd, [Next]_vars, txActive'
                PROVE  WillEnd'
    BY TypeGroups DEF ThreadTypes, Booleans, Places, Guarded
  <1>. USE DEF PlaceTypes, Threads, ProcessSteps, TransmitSteps, At, GoTo,
               WillEnd, Watched, PumpStarts, AfterTest, Runs, LoopRuns,
               chipVars, ring, clock, fsm, pump, locals, bounds, BesideChip,
               BesideFields
  <1>1. CASE Send \/ SendAsync
    BY <1>1 DEF Send, SendAsync, Call
  <1>2. CASE Receive
    BY <1>2 DEF Receive
  <1>3. ASSUME NEW t \in Threads, Transmit(t)
        PROVE  WillEnd'
    <2>1. CASE SetStandby(t)
      BY <2>1 DEF SetStandby
    <2>2. CASE StandbyState(t)
      BY <2>2 DEF StandbyState
    <2>3. CASE TxStandby(t)
      BY <2>3 DEF TxStandby
    <2>4. CASE TxPtr(t)
      BY <2>4 DEF TxPtr
    <2>5. CASE TxBurst(t)
      BY <2>5 DEF TxBurst
    <2>6. CASE TxDio0(t)
      BY <2>6 DEF TxDio0
    <2>7. CASE TxMode(t)
      BY <2>7 DEF TxMode
    <2>8. CASE TxActive(t)
      BY <2>8 DEF TxActive
    <2>9. CASE TxDeadline(t)
      BY <2>9 DEF TxDeadline, Inside, InsideAt, CallPlaces
    <2>10. CASE TxState(t)
      BY <2>10 DEF TxState
    <2>. QED
      BY <1>3, <2>1, <2>2, <2>3, <2>4, <2>5, <2>6, <2>7, <2>8, <2>9, <2>10
         DEF Transmit
  <1>4. ASSUME NEW t \in Threads, SendLoop(t)
        PROVE  WillEnd'
    <2>1. CASE SendTurn(t)
      BY <2>1 DEF SendTurn
    <2>2. CASE SendOK(t)
      BY <2>2 DEF SendOK
    <2>3. CASE SendTimeout(t)
      BY <2>3 DEF SendTimeout
    <2>4. CASE SendAgain(t)
      BY <2>4 DEF SendAgain
    <2>5. CASE Leave(t)
      BY <2>5 DEF Leave
    <2>. QED
      BY <1>4, <2>1, <2>2, <2>3, <2>4, <2>5 DEF SendLoop
  <1>5. ASSUME NEW t \in Threads, ReceiveCall(t)
        PROVE  WillEnd'
    <2>1. CASE RxStandby(t)
      BY <2>1 DEF RxStandby
    <2>2. CASE RxPtr(t)
      BY <2>2 DEF RxPtr
    <2>3. CASE RxDio0(t)
      BY <2>3 DEF RxDio0
    <2>4. CASE RxMode(t)
      BY <2>4 DEF RxMode
    <2>5. CASE RxState(t)
      BY <2>5 DEF RxState
    <2>. QED
      BY <1>5, <2>1, <2>2, <2>3, <2>4, <2>5 DEF ReceiveCall
  <1>6. ASSUME NEW t \in Threads, ProcessEvents(t)
        PROVE  WillEnd'
    <2>1. CASE Watchdog(t)
      BY <2>1 DEF Watchdog
    <2>2. CASE Overdue(t)
      BY <2>2 DEF Overdue, Ordered
    <2>3. CASE GiveUp(t)
      BY <2>3 DEF GiveUp
    <2>4. CASE Cut(t)
      BY <2>4 DEF Cut
    <2>5. CASE LoopTest(t)
      BY <2>5 DEF LoopTest, MoreEvents, Done
    <2>6. CASE LoadTail(t)
      BY <2>6 DEF LoadTail
    <2>7. CASE StoreTail(t)
      BY <2>7 DEF StoreTail
    <2>8. CASE ReadFlags(t)
      BY <2>8 DEF ReadFlags
    <2>9. CASE ClearFlags(t)
      BY <2>9 DEF ClearFlags
    <2>10. CASE ReadPtr(t)
      BY <2>10 DEF ReadPtr
    <2>11. CASE ReadBurst(t)
      BY <2>11 DEF ReadBurst
    <2>12. CASE CallbackReturns(t)
      BY <2>12 DEF CallbackReturns
    <2>13. CASE TxDoneEvent(t)
      BY <2>13 DEF TxDoneEvent
    <2>. QED
      BY <1>6, <2>1, <2>2, <2>3, <2>4, <2>5, <2>6, <2>7, <2>8, <2>9, <2>10,
         <2>11, <2>12, <2>13
         DEF ProcessEvents
  <1>7. CASE Wake
    BY <1>7 DEF Wake
  <1>8. CASE Restore
    BY <1>8 DEF Restore
  <1>9. CASE QueueReceive
    BY <1>9 DEF QueueReceive, Call
  <1>10. CASE QueueEmpty
    BY <1>10 DEF QueueEmpty
  <1>11. CASE Interrupt
    BY <1>11 DEF Interrupt
  <1>12. CASE Chip
    BY <1>12 DEF Chip
  <1>13. CASE Tick
    <2>1. CASE \E t \in sending : sendDue' = [sendDue EXCEPT ![t] = TRUE]
      <3>1. CASE InTurn("loop")
        BY <1>13, <2>1, <3>1
           DEF Tick, InTurn, PumpOwns, Inside, InsideAt, CallPlaces
      <3>2. CASE ~InTurn("loop")
        BY <1>13, <2>1, <3>2 DEF Tick, InTurn
      <3>. QED
        BY <3>1, <3>2
    <2>2. CASE UNCHANGED sendDue
      BY <1>13, <2>2 DEF Tick
    <2>. QED
      BY <1>13, <2>1, <2>2 DEF Tick
  <1>14. CASE UNCHANGED vars
    BY <1>14 DEF vars
  <1>. QED
    BY ActionsByThread, <1>1, <1>2, <1>3, <1>4, <1>5, <1>6, <1>7, <1>8, <1>9,
       <1>10, <1>11, <1>12, <1>13, <1>14

LEMMA GuardedStep == TypeOK /\ Places /\ Guarded /\ [Next]_vars => Guarded'
  BY OrderedStep, PumpOwnsStep, WillEndStep DEF Guarded

LEMMA GuardedInit == Init => Guarded
  BY DEF Init, Guarded, Ordered, PumpOwns

(* No transmission is left registered, whichever thread ran the watchdog,    *)
(* read TxDone or sent beside the other: NoOrphanTx, on one core and on two. *)
THEOREM SendLeavesNothingBehind == Spec => []NoOrphanTx
  <1>1. TypeOK /\ Places /\ Guarded => NoOrphanTx
    BY TypeGroups
       DEF Guarded, WillEnd, Watched, NoOrphanTx, Places, Inside, InsideAt,
           CallPlaces, PumpStarts, TransmitSteps, Threads
  <1>. QED
    BY <1>1, GuardedInit, TypeCorrect, GuardedStep, PTL DEF Spec

(* Why the payload is safe where the pump has loop()'s core and nothing is   *)
(* queued.  The pump then only polls.  A high line means that it is about to *)
(* run, so loop() outside process_events() moves only when the line is low.  *)
(* Hence no packet is unread when start_transmit() goes to standby, none     *)
(* arrives until the next reception, and the pump, which may still wake at   *)
(* its period, never moves the FIFO pointer between its write and the burst. *)
Lone == setup = "shared" /\ asyncs = 0
Polls == /\ queued = 0 /\ txPending = FALSE /\ "pump" \notin sending
         /\ pc["pump"] \in ProcessSteps \cup {"take", "restore", "queue"}

Handling == {"clear", "ptr", "burst", "callback", "txdone"}
Listening == {"idle", "set-standby", "tx-standby", "rx-standby", "rx-state"}
OnAir == {"tx-active", "tx-deadline", "tx-state", "while", "late"} \cup ProcessSteps

(* The flags a thread has read live no longer than its handling of them.     *)
GotInUse == \A t \in Threads : got[t] # {} => pc[t] \in Handling

PumpWillLook ==
  \/ Hearing("pump")
  \/ /\ head # tail
     /\ \/ notified
        \/ /\ pc["pump"] \in {"watchdog", "overdue", "give-up", "cut", "test"}
           /\ iters["pump"] = 0

(* NoDeafLine, with the thread that will look.                               *)
Heard == LineHigh => edge \/ Hearing("loop") \/ PumpWillLook

(* What DIO0 is mapped to decides which flag may be up. *)
NoStaleFlag ==
  /\ dio0 = "TxDone" => "RxDone" \notin flags
  /\ dio0 = "RxDone" => "TxDone" \notin flags
  /\ pc["loop"] \in {"tx-ptr", "tx-burst", "tx-dio0"} => "RxDone" \notin flags

(* Where loop() can be in each mode of the chip, and what DIO0 shows. *)
Mapped == /\ mode = "RxCont" => dio0 = "RxDone" /\ pc["loop"] \in Listening
          /\ mode = "Tx" => dio0 = "TxDone" /\ pc["loop"] \in OnAir
          /\ pc["loop"] = "rx-mode" => dio0 = "RxDone"
          /\ pc["loop"] = "tx-mode" => dio0 = "TxDone"

(* While the chip transmits, send() waits for it, or a watchdog is about to  *)
(* cut the packet.                                                           *)
TxIsWatched ==
  mode = "Tx" =>
    /\ "TxDone" \notin flags /\ \A t \in Threads : "TxDone" \notin got[t]
    /\ txActive \/ pc["loop"] = "tx-active" \/ \E t \in Threads : pc[t] = "cut"

PointerHeld ==
  pc["loop"] = "tx-burst" =>
    /\ ptr = "tx" /\ pc["pump"] # "ptr"
    /\ pc["pump"] = "clear" => "RxDone" \notin got["pump"]

Carried == pc["loop"] \in {"tx-dio0", "tx-mode"} \/ mode = "Tx" => loaded

LoadInv == Lone => /\ Polls /\ Heard /\ NoStaleFlag /\ Mapped /\ TxIsWatched
                   /\ PointerHeld /\ Carried

LEMMA BoundsStay ==
  Symbols /\ [Next]_vars => setup' = setup /\ (asyncs' = 0 => asyncs = 0)
  <1>. SUFFICES ASSUME Symbols, [Next]_vars
                PROVE  setup' = setup /\ (asyncs' = 0 => asyncs = 0)
    OBVIOUS
  <1>. USE DEF Symbols, chipVars, ring, clock, fsm, pump, locals, bounds,
               BesideChip, BesideFields
  <1>1. CASE Send \/ SendAsync
    BY <1>1 DEF Send, SendAsync, Call
  <1>2. CASE Receive
    BY <1>2 DEF Receive
  <1>3. ASSUME NEW t \in Threads, Transmit(t)
        PROVE  setup' = setup /\ (asyncs' = 0 => asyncs = 0)
    <2>1. CASE SetStandby(t) \/ StandbyState(t) \/ TxStandby(t)
      BY <2>1 DEF SetStandby, StandbyState, TxStandby
    <2>2. CASE TxPtr(t) \/ TxBurst(t) \/ TxDio0(t)
      BY <2>2 DEF TxPtr, TxBurst, TxDio0
    <2>3. CASE TxMode(t) \/ TxActive(t)
      BY <2>3 DEF TxMode, TxActive
    <2>4. CASE TxDeadline(t) \/ TxState(t)
      BY <2>4 DEF TxDeadline, TxState
    <2>. QED
      BY <1>3, <2>1, <2>2, <2>3, <2>4 DEF Transmit
  <1>4. ASSUME NEW t \in Threads, SendLoop(t)
        PROVE  setup' = setup /\ (asyncs' = 0 => asyncs = 0)
    <2>1. CASE SendTurn(t) \/ SendOK(t)
      BY <2>1 DEF SendTurn, SendOK
    <2>2. CASE SendTimeout(t) \/ SendAgain(t)
      BY <2>2 DEF SendTimeout, SendAgain
    <2>3. CASE Leave(t)
      BY <2>3 DEF Leave
    <2>. QED
      BY <1>4, <2>1, <2>2, <2>3 DEF SendLoop
  <1>5. ASSUME NEW t \in Threads, ReceiveCall(t)
        PROVE  setup' = setup /\ (asyncs' = 0 => asyncs = 0)
    <2>1. CASE RxStandby(t) \/ RxPtr(t) \/ RxDio0(t)
      BY <2>1 DEF RxStandby, RxPtr, RxDio0
    <2>2. CASE RxMode(t) \/ RxState(t)
      BY <2>2 DEF RxMode, RxState
    <2>. QED
      BY <1>5, <2>1, <2>2 DEF ReceiveCall
  <1>6. ASSUME NEW t \in Threads, ProcessEvents(t)
        PROVE  setup' = setup /\ (asyncs' = 0 => asyncs = 0)
    <2>1. CASE Watchdog(t) \/ Overdue(t) \/ GiveUp(t) \/ Cut(t)
      BY <2>1 DEF Watchdog, Overdue, GiveUp, Cut
    <2>2. CASE LoopTest(t)
      BY <2>2 DEF LoopTest, MoreEvents, Done
    <2>3. CASE LoadTail(t) \/ StoreTail(t)
      BY <2>3 DEF LoadTail, StoreTail
    <2>4. CASE ReadFlags(t) \/ ClearFlags(t)
      BY <2>4 DEF ReadFlags, ClearFlags
    <2>5. CASE ReadPtr(t) \/ ReadBurst(t) \/ CallbackReturns(t)
      BY <2>5 DEF ReadPtr, ReadBurst, CallbackReturns
    <2>6. CASE TxDoneEvent(t)
      BY <2>6 DEF TxDoneEvent
    <2>. QED
      BY <1>6, <2>1, <2>2, <2>3, <2>4, <2>5, <2>6 DEF ProcessEvents
  <1>7. CASE Wake \/ Restore
    BY <1>7 DEF Wake, Restore
  <1>8. CASE QueueReceive \/ QueueEmpty
    BY <1>8 DEF QueueReceive, QueueEmpty, Call
  <1>9. CASE Interrupt
    BY <1>9 DEF Interrupt
  <1>10. CASE Chip
    BY <1>10 DEF Chip, ChipTxDone, ChipPacket
  <1>11. CASE Tick \/ UNCHANGED vars
    BY <1>11 DEF Tick, vars
  <1>. QED
    BY ActionsByThread, <1>1, <1>2, <1>3, <1>4, <1>5, <1>6, <1>7, <1>8, <1>9,
       <1>10, <1>11

LEMMA LoneSteps ==
  ASSUME Polls, Lone', [Next]_vars, Symbols
  PROVE  \/ Send \/ Receive
         \/ Transmit("loop") \/ SendLoop("loop") \/ ReceiveCall("loop")
         \/ \E t \in Threads : ProcessEvents(t)
         \/ Wake \/ Restore \/ QueueEmpty
         \/ Interrupt \/ Chip \/ Tick \/ UNCHANGED vars
  <1>. USE DEF Polls, ProcessSteps, At
  <1>1. ~Transmit("pump")
    BY DEF Transmit, SetStandby, StandbyState, TxStandby, TxPtr, TxBurst, TxDio0,
           TxMode, TxActive, TxDeadline, TxState
  <1>2. ~SendLoop("pump")
    <2>1. ~SendTurn("pump") /\ ~SendOK("pump") /\ ~Leave("pump")
      BY DEF SendTurn, SendOK, Leave
    <2>2. ~SendTimeout("pump") /\ ~SendAgain("pump")
      BY DEF SendTimeout, SendAgain
    <2>. QED
      BY <2>1, <2>2 DEF SendLoop
  <1>3. ~ReceiveCall("pump")
    BY DEF ReceiveCall, RxStandby, RxPtr, RxDio0, RxMode, RxState
  <1>4. ~QueueReceive
    BY DEF QueueReceive
  <1>5. ~SendAsync
    BY DEF SendAsync, Lone, Symbols
  <1>. QED
    BY ActionsByThread, <1>1, <1>2, <1>3, <1>4, <1>5 DEF Threads

LEMMA PollsStep ==
  ASSUME TypeOK, Polls, Lone, Lone', [Next]_vars
  PROVE  Polls'
  <1>. PlaceTypes /\ LocalTypes /\ Symbols /\ Booleans
    BY TypeGroups DEF ThreadTypes
  <1>. USE DEF PlaceTypes, LocalTypes, Threads, At, GoTo, Polls, ProcessSteps,
               chipVars, ring, clock, fsm, pump, locals, bounds, BesideChip,
               BesideFields
  <1>1. CASE Send
    BY <1>1 DEF Send, Call
  <1>2. CASE Receive
    BY <1>2 DEF Receive
  <1>3. CASE Transmit("loop")
    <2>1. CASE SetStandby("loop") \/ StandbyState("loop") \/ TxStandby("loop")
      BY <2>1 DEF SetStandby, StandbyState, TxStandby
    <2>2. CASE TxPtr("loop") \/ TxBurst("loop")
      BY <2>2 DEF TxPtr, TxBurst
    <2>3. CASE TxDio0("loop")
      BY <2>3 DEF TxDio0
    <2>4. CASE TxMode("loop")
      BY <2>4 DEF TxMode
    <2>5. CASE TxActive("loop") \/ TxDeadline("loop") \/ TxState("loop")
      BY <2>5 DEF TxActive, TxDeadline, TxState
    <2>. QED
      BY <1>3, <2>1, <2>2, <2>3, <2>4, <2>5 DEF Transmit
  <1>4. CASE SendLoop("loop")
    <2>1. CASE SendTurn("loop") \/ SendAgain("loop")
      BY <2>1 DEF SendTurn, SendAgain
    <2>2. CASE SendOK("loop") \/ SendTimeout("loop")
      BY <2>2 DEF SendOK, SendTimeout
    <2>3. CASE Leave("loop")
      BY <2>3 DEF Leave
    <2>. QED
      BY <1>4, <2>1, <2>2, <2>3 DEF SendLoop
  <1>5. CASE ReceiveCall("loop")
    <2>1. CASE RxStandby("loop") \/ RxPtr("loop")
      BY <2>1 DEF RxStandby, RxPtr
    <2>2. CASE RxDio0("loop")
      BY <2>2 DEF RxDio0
    <2>3. CASE RxMode("loop") \/ RxState("loop")
      BY <2>3 DEF RxMode, RxState
    <2>. QED
      BY <1>5, <2>1, <2>2, <2>3 DEF ReceiveCall
  <1>6. ASSUME NEW t \in Threads, ProcessEvents(t)
        PROVE  Polls'
    <2>1. CASE Watchdog(t) \/ Overdue(t)
      BY <2>1 DEF Watchdog, Overdue
    <2>2. CASE GiveUp(t)
      BY <2>2 DEF GiveUp
    <2>3. CASE Cut(t)
      BY <2>3 DEF Cut
    <2>4. CASE LoopTest(t)
      BY <2>4 DEF LoopTest, MoreEvents, Done
    <2>5. CASE LoadTail(t) \/ StoreTail(t)
      BY <2>5 DEF LoadTail, StoreTail
    <2>6. CASE ReadFlags(t)
      BY <2>6 DEF ReadFlags
    <2>7. CASE ClearFlags(t)
      BY <2>7 DEF ClearFlags
    <2>8. CASE ReadPtr(t) \/ ReadBurst(t) \/ CallbackReturns(t)
      BY <2>8 DEF ReadPtr, ReadBurst, CallbackReturns
    <2>9. CASE TxDoneEvent(t)
      BY <2>9 DEF TxDoneEvent
    <2>. QED
      BY <1>6, <2>1, <2>2, <2>3, <2>4, <2>5, <2>6, <2>7, <2>8, <2>9
         DEF ProcessEvents
  <1>7. CASE Wake \/ Restore \/ QueueEmpty
    BY <1>7 DEF Wake, Restore, QueueEmpty, Polls
  <1>8. CASE Interrupt
    BY <1>8 DEF Interrupt
  <1>9. CASE Chip
    BY <1>9 DEF Chip, ChipTxDone, ChipPacket
  <1>10. CASE Tick \/ UNCHANGED vars
    BY <1>10 DEF Tick, vars
  <1>. QED
    BY LoneSteps, <1>1, <1>2, <1>3, <1>4, <1>5, <1>6, <1>7, <1>8, <1>9, <1>10

LEMMA GotInUseStep == ThreadTypes /\ GotInUse /\ [Next]_vars => GotInUse'
  <1>. SUFFICES ASSUME PlaceTypes, LocalTypes, GotInUse, [Next]_vars
                PROVE  GotInUse'
    BY DEF ThreadTypes
  <1>. USE DEF PlaceTypes, LocalTypes, Threads, At, GoTo, GotInUse, Handling,
               chipVars, ring, clock, fsm, pump, locals, bounds, BesideChip,
               BesideFields
  <1>1. CASE Send \/ SendAsync
    BY <1>1 DEF Send, SendAsync, Call
  <1>2. CASE Receive
    BY <1>2 DEF Receive
  <1>3. ASSUME NEW t \in Threads, Transmit(t)
        PROVE  GotInUse'
    <2>1. CASE SetStandby(t) \/ StandbyState(t) \/ TxStandby(t)
      BY <2>1 DEF SetStandby, StandbyState, TxStandby
    <2>2. CASE TxPtr(t) \/ TxBurst(t) \/ TxDio0(t)
      BY <2>2 DEF TxPtr, TxBurst, TxDio0
    <2>3. CASE TxMode(t) \/ TxActive(t)
      BY <2>3 DEF TxMode, TxActive
    <2>4. CASE TxDeadline(t) \/ TxState(t)
      BY <2>4 DEF TxDeadline, TxState
    <2>. QED
      BY <1>3, <2>1, <2>2, <2>3, <2>4 DEF Transmit
  <1>4. ASSUME NEW t \in Threads, SendLoop(t)
        PROVE  GotInUse'
    <2>1. CASE SendTurn(t) \/ SendOK(t)
      BY <2>1 DEF SendTurn, SendOK
    <2>2. CASE SendTimeout(t) \/ SendAgain(t)
      BY <2>2 DEF SendTimeout, SendAgain
    <2>3. CASE Leave(t)
      BY <2>3 DEF Leave
    <2>. QED
      BY <1>4, <2>1, <2>2, <2>3 DEF SendLoop
  <1>5. ASSUME NEW t \in Threads, ReceiveCall(t)
        PROVE  GotInUse'
    <2>1. CASE RxStandby(t) \/ RxPtr(t) \/ RxDio0(t)
      BY <2>1 DEF RxStandby, RxPtr, RxDio0
    <2>2. CASE RxMode(t) \/ RxState(t)
      BY <2>2 DEF RxMode, RxState
    <2>. QED
      BY <1>5, <2>1, <2>2 DEF ReceiveCall
  <1>6. ASSUME NEW t \in Threads, ProcessEvents(t)
        PROVE  GotInUse'
    <2>1. CASE Watchdog(t) \/ Overdue(t) \/ GiveUp(t) \/ Cut(t)
      BY <2>1 DEF Watchdog, Overdue, GiveUp, Cut
    <2>2. CASE LoopTest(t)
      BY <2>2 DEF LoopTest, MoreEvents, Done
    <2>3. CASE LoadTail(t) \/ StoreTail(t)
      BY <2>3 DEF LoadTail, StoreTail
    <2>4. CASE ReadFlags(t) \/ ClearFlags(t)
      BY <2>4 DEF ReadFlags, ClearFlags
    <2>5. CASE ReadPtr(t) \/ ReadBurst(t) \/ CallbackReturns(t)
      BY <2>5 DEF ReadPtr, ReadBurst, CallbackReturns
    <2>6. CASE TxDoneEvent(t)
      BY <2>6 DEF TxDoneEvent
    <2>. QED
      BY <1>6, <2>1, <2>2, <2>3, <2>4, <2>5, <2>6 DEF ProcessEvents
  <1>7. CASE Wake \/ Restore
    BY <1>7 DEF Wake, Restore
  <1>8. CASE QueueReceive \/ QueueEmpty
    BY <1>8 DEF QueueReceive, QueueEmpty, Call
  <1>9. CASE Interrupt
    BY <1>9 DEF Interrupt
  <1>10. CASE Chip
    BY <1>10 DEF Chip, ChipTxDone, ChipPacket
  <1>11. CASE Tick \/ UNCHANGED vars
    BY <1>11 DEF Tick, vars
  <1>. QED
    BY ActionsByThread, <1>1, <1>2, <1>3, <1>4, <1>5, <1>6, <1>7, <1>8, <1>9,
       <1>10, <1>11

(* loop() outside process_events() moves only when no flag is waiting. *)
LEMMA LoopMovesInSilence ==
  ASSUME Lone, Heard, LoopRuns, ~Hearing("loop")
  PROVE  ~LineHigh /\ pc["pump"] = "take"
  BY DEF Lone, Heard, LoopRuns, PumpWillLook, Hearing

LEMMA HeardStep ==
  ASSUME TypeOK, Places, Polls, Lone, Lone', Heard, [Next]_vars
  PROVE  Heard'
  <1>. SUFFICES ASSUME LineHigh'
                PROVE  (edge \/ Hearing("loop") \/ PumpWillLook)'
    BY DEF Heard
  <1>. PlaceTypes /\ LocalTypes /\ Symbols /\ Booleans /\ RoundLeft
    BY TypeGroups DEF ThreadTypes, Places
  <1>. USE DEF PlaceTypes, LocalTypes, Threads, LineHigh, Hearing, PumpWillLook,
               At, GoTo, chipVars, ring, clock, fsm, pump, locals, bounds,
               BesideChip, BesideFields
  <1>a. ASSUME LoopRuns, ~Hearing("loop"), LatchEdge
        PROVE  edge'
    BY <1>a, LoopMovesInSilence DEF LatchEdge
  <1>b. ASSUME LoopRuns, ~Hearing("loop"), UNCHANGED <<flags, dio0>>
        PROVE  FALSE
    BY <1>b, LoopMovesInSilence
  <1>1. CASE Send
    BY <1>1, <1>b DEF Send, Runs, Call
  <1>2. CASE Receive
    BY <1>2, <1>b DEF Receive, Runs
  <1>3. CASE Transmit("loop")
    <2>1. CASE SetStandby("loop") \/ StandbyState("loop") \/ TxStandby("loop")
      BY <2>1, <1>b DEF SetStandby, StandbyState, TxStandby, Runs
    <2>2. CASE TxPtr("loop") \/ TxBurst("loop")
      BY <2>2, <1>b DEF TxPtr, TxBurst, Runs
    <2>3. CASE TxDio0("loop")
      BY <2>3, <1>a DEF TxDio0, Runs
    <2>4. CASE TxMode("loop")
      BY <2>4, <1>b DEF TxMode, Runs
    <2>5. CASE TxActive("loop") \/ TxDeadline("loop") \/ TxState("loop")
      BY <2>5, <1>b DEF TxActive, TxDeadline, TxState, Runs
    <2>. QED
      BY <1>3, <2>1, <2>2, <2>3, <2>4, <2>5 DEF Transmit
  <1>4. CASE SendLoop("loop")
    <2>1. CASE SendTurn("loop") \/ SendAgain("loop")
      BY <2>1, <1>b DEF SendTurn, SendAgain, Runs
    <2>2. CASE SendOK("loop") \/ SendTimeout("loop")
      BY <2>2, <1>b DEF SendOK, SendTimeout, Runs
    <2>3. CASE Leave("loop")
      BY <2>3, <1>b DEF Leave, Runs
    <2>. QED
      BY <1>4, <2>1, <2>2, <2>3 DEF SendLoop
  <1>5. CASE ReceiveCall("loop")
    <2>1. CASE RxStandby("loop") \/ RxPtr("loop")
      BY <2>1, <1>b DEF RxStandby, RxPtr, Runs
    <2>2. CASE RxDio0("loop")
      BY <2>2, <1>a DEF RxDio0, Runs
    <2>3. CASE RxMode("loop") \/ RxState("loop")
      BY <2>3, <1>b DEF RxMode, RxState, Runs
    <2>. QED
      BY <1>5, <2>1, <2>2, <2>3 DEF ReceiveCall
  <1>6. ASSUME NEW t \in Threads, ProcessEvents(t)
        PROVE  (edge \/ Hearing("loop") \/ PumpWillLook)'
    <2>1. CASE Watchdog(t) \/ Overdue(t) \/ GiveUp(t)
      <3>1. CASE t = "loop"
        BY <2>1, <3>1, <1>b DEF Watchdog, Overdue, GiveUp, Runs
      <3>2. CASE t = "pump"
        BY <2>1, <3>2 DEF Watchdog, Overdue, GiveUp, Heard
      <3>. QED
        BY <3>1, <3>2
    <2>2. CASE Cut(t)
      <3>1. CASE t = "loop"
        BY <2>2, <3>1, <1>b DEF Cut, Runs
      <3>2. CASE t = "pump"
        BY <2>2, <3>2 DEF Cut, Heard
      <3>. QED
        BY <3>1, <3>2
    <2>3. CASE LoopTest(t)
      <3>1. CASE t = "loop"
        BY <2>3, <3>1, <1>b DEF LoopTest, Runs, MoreEvents, Done
      <3>2. CASE t = "pump"
        BY <2>3, <3>2 DEF LoopTest, MoreEvents, Done, Heard
      <3>. QED
        BY <3>1, <3>2
    <2>4. CASE LoadTail(t) \/ StoreTail(t)
      BY <2>4 DEF LoadTail, StoreTail
    <2>5. CASE ReadFlags(t)
      BY <2>5 DEF ReadFlags
    <2>6. CASE ClearFlags(t)
      BY <2>6 DEF ClearFlags
    <2>7. CASE ReadPtr(t) \/ ReadBurst(t) \/ CallbackReturns(t)
      <3>1. CASE t = "loop"
        BY <2>7, <3>1, <1>b DEF ReadPtr, ReadBurst, CallbackReturns, Runs
      <3>2. CASE t = "pump"
        BY <2>7, <3>2 DEF ReadPtr, ReadBurst, CallbackReturns, Heard
      <3>. QED
        BY <3>1, <3>2
    <2>8. CASE TxDoneEvent(t)
      <3>1. CASE t = "loop"
        BY <2>8, <3>1, <1>b DEF TxDoneEvent, Runs
      <3>2. CASE t = "pump"
        BY <2>8, <3>2 DEF TxDoneEvent, Heard
      <3>. QED
        BY <3>1, <3>2
    <2>. QED
      BY <1>6, <2>1, <2>2, <2>3, <2>4, <2>5, <2>6, <2>7, <2>8 DEF ProcessEvents
  <1>7. CASE Wake \/ Restore \/ QueueEmpty
    BY <1>7 DEF Wake, Restore, QueueEmpty, Heard, RoundLeft, DrainSteps
  <1>8. CASE Interrupt
    <2>1. Succ(head) # head
      BY SuccInRing
    <2>2. head' # tail' /\ notified'
      BY <1>8, <2>1 DEF Interrupt
    <2>. QED
      BY <2>2
  <1>9. CASE Chip
    BY <1>9 DEF Chip, LatchEdge, Heard
  <1>10. CASE Tick \/ UNCHANGED vars
    BY <1>10 DEF Tick, vars, Heard
  <1>. QED
    BY LoneSteps, <1>1, <1>2, <1>3, <1>4, <1>5, <1>6, <1>7, <1>8, <1>9, <1>10

LEMMA NoStaleFlagStep ==
  ASSUME TypeOK, Polls, Lone, Lone', Heard, Mapped, NoStaleFlag, [Next]_vars
  PROVE  NoStaleFlag'
  <1>. PlaceTypes /\ LocalTypes /\ Symbols /\ Booleans
    BY TypeGroups DEF ThreadTypes
  <1>. USE DEF PlaceTypes, LocalTypes, Threads, At, GoTo, Symbols, IrqFlags,
               NoStaleFlag, chipVars, ring, clock, fsm, pump, locals, bounds,
               BesideChip, BesideFields
  <1>1. CASE Send
    BY <1>1 DEF Send, Call
  <1>2. CASE Receive
    BY <1>2 DEF Receive
  <1>3. CASE Transmit("loop")
    <2>1. CASE SetStandby("loop") \/ StandbyState("loop")
      BY <2>1 DEF SetStandby, StandbyState
    <2>2. CASE TxStandby("loop")
      <3>1. ~LineHigh
        BY <2>2, LoopMovesInSilence DEF TxStandby, Runs, Hearing
      <3>. QED
        BY <2>2, <3>1 DEF TxStandby, LineHigh
    <2>3. CASE TxPtr("loop") \/ TxBurst("loop")
      BY <2>3 DEF TxPtr, TxBurst
    <2>4. CASE TxDio0("loop")
      BY <2>4 DEF TxDio0
    <2>5. CASE TxMode("loop")
      BY <2>5 DEF TxMode
    <2>6. CASE TxActive("loop") \/ TxDeadline("loop") \/ TxState("loop")
      BY <2>6 DEF TxActive, TxDeadline, TxState
    <2>. QED
      BY <1>3, <2>1, <2>2, <2>3, <2>4, <2>5, <2>6 DEF Transmit
  <1>4. CASE SendLoop("loop")
    <2>1. CASE SendTurn("loop") \/ SendAgain("loop")
      BY <2>1 DEF SendTurn, SendAgain
    <2>2. CASE SendOK("loop") \/ SendTimeout("loop")
      BY <2>2 DEF SendOK, SendTimeout
    <2>3. CASE Leave("loop")
      BY <2>3 DEF Leave
    <2>. QED
      BY <1>4, <2>1, <2>2, <2>3 DEF SendLoop
  <1>5. CASE ReceiveCall("loop")
    <2>1. CASE RxStandby("loop") \/ RxPtr("loop")
      BY <2>1 DEF RxStandby, RxPtr
    <2>2. CASE RxDio0("loop")
      <3>1. ~LineHigh
        BY <2>2, LoopMovesInSilence DEF RxDio0, Runs, Hearing
      <3>. QED
        BY <2>2, <3>1 DEF RxDio0, LineHigh
    <2>3. CASE RxMode("loop") \/ RxState("loop")
      BY <2>3 DEF RxMode, RxState
    <2>. QED
      BY <1>5, <2>1, <2>2, <2>3 DEF ReceiveCall
  <1>6. ASSUME NEW t \in Threads, ProcessEvents(t)
        PROVE  NoStaleFlag'
    <2>1. CASE Watchdog(t) \/ Overdue(t)
      BY <2>1 DEF Watchdog, Overdue
    <2>2. CASE GiveUp(t)
      BY <2>2 DEF GiveUp
    <2>3. CASE Cut(t)
      BY <2>3 DEF Cut
    <2>4. CASE LoopTest(t)
      BY <2>4 DEF LoopTest, MoreEvents, Done
    <2>5. CASE LoadTail(t) \/ StoreTail(t)
      BY <2>5 DEF LoadTail, StoreTail
    <2>6. CASE ReadFlags(t)
      BY <2>6 DEF ReadFlags
    <2>7. CASE ClearFlags(t)
      BY <2>7 DEF ClearFlags
    <2>8. CASE ReadPtr(t) \/ ReadBurst(t) \/ CallbackReturns(t)
      BY <2>8 DEF ReadPtr, ReadBurst, CallbackReturns
    <2>9. CASE TxDoneEvent(t)
      BY <2>9 DEF TxDoneEvent
    <2>. QED
      BY <1>6, <2>1, <2>2, <2>3, <2>4, <2>5, <2>6, <2>7, <2>8, <2>9
         DEF ProcessEvents
  <1>7. CASE Wake \/ Restore \/ QueueEmpty
    BY <1>7 DEF Wake, Restore, QueueEmpty, Polls
  <1>8. CASE Interrupt
    BY <1>8 DEF Interrupt
  <1>9. CASE Chip
    BY <1>9 DEF Chip, ChipTxDone, ChipPacket, Mapped, Listening
  <1>10. CASE Tick \/ UNCHANGED vars
    BY <1>10 DEF Tick, vars
  <1>. QED
    BY LoneSteps, <1>1, <1>2, <1>3, <1>4, <1>5, <1>6, <1>7, <1>8, <1>9, <1>10

(* send() is left only when the chip no longer transmits. *)
LEMMA SendLeavesQuietly ==
  ASSUME TypeOK, Polls, Lone, Guarded, TxIsWatched, SendOK("loop") \/ SendTimeout("loop")
  PROVE  mode # "Tx"
  <1>1. pc["pump"] = "take" /\ pc["loop"] \in {"while", "late"}
    BY DEF SendOK, SendTimeout, At, Runs, LoopRuns, Lone
  <1>2. ~txActive
    BY <1>1
       DEF SendOK, SendTimeout, At, Guarded, WillEnd, Watched, Polls, AfterTest,
                PumpStarts, TransmitSteps
  <1>. QED
    BY <1>1, <1>2 DEF TxIsWatched, Threads

LEMMA MappedStep ==
  ASSUME TypeOK, Polls, Lone, Lone', Places, Guarded, TxIsWatched, Mapped,
         [Next]_vars
  PROVE  Mapped'
  <1>. PlaceTypes /\ LocalTypes /\ Symbols /\ Booleans
    BY TypeGroups DEF ThreadTypes
  <1>. USE DEF PlaceTypes, LocalTypes, Threads, At, GoTo, Mapped, Listening,
               OnAir, ProcessSteps, SetMode, chipVars, ring, clock, fsm, pump,
               locals, bounds, BesideChip, BesideFields
  <1>1. CASE Send
    BY <1>1 DEF Send, Call
  <1>2. CASE Receive
    BY <1>2 DEF Receive
  <1>3. CASE Transmit("loop")
    <2>1. CASE SetStandby("loop") \/ StandbyState("loop") \/ TxStandby("loop")
      BY <2>1 DEF SetStandby, StandbyState, TxStandby
    <2>2. CASE TxPtr("loop") \/ TxBurst("loop")
      BY <2>2 DEF TxPtr, TxBurst
    <2>3. CASE TxDio0("loop")
      BY <2>3 DEF TxDio0
    <2>4. CASE TxMode("loop")
      BY <2>4 DEF TxMode
    <2>5. CASE TxActive("loop") \/ TxDeadline("loop") \/ TxState("loop")
      BY <2>5 DEF TxActive, TxDeadline, TxState
    <2>. QED
      BY <1>3, <2>1, <2>2, <2>3, <2>4, <2>5 DEF Transmit
  <1>4. CASE SendLoop("loop")
    <2>1. CASE SendTurn("loop") \/ SendAgain("loop")
      BY <2>1 DEF SendTurn, SendAgain
    <2>2. CASE SendOK("loop") \/ SendTimeout("loop")
      BY <2>2, SendLeavesQuietly DEF SendOK, SendTimeout
    <2>3. CASE Leave("loop")
      BY <2>3 DEF Leave
    <2>. QED
      BY <1>4, <2>1, <2>2, <2>3 DEF SendLoop
  <1>5. CASE ReceiveCall("loop")
    <2>1. CASE RxStandby("loop") \/ RxPtr("loop")
      BY <2>1 DEF RxStandby, RxPtr
    <2>2. CASE RxDio0("loop")
      BY <2>2 DEF RxDio0
    <2>3. CASE RxMode("loop") \/ RxState("loop")
      BY <2>3 DEF RxMode, RxState
    <2>. QED
      BY <1>5, <2>1, <2>2, <2>3 DEF ReceiveCall
  <1>6. ASSUME NEW t \in Threads, ProcessEvents(t)
        PROVE  Mapped'
    <2>1. CASE Watchdog(t) \/ Overdue(t)
      BY <2>1 DEF Watchdog, Overdue
    <2>2. CASE GiveUp(t)
      BY <2>2 DEF GiveUp
    <2>3. CASE Cut(t)
      BY <2>3 DEF Cut
    <2>4. CASE LoopTest(t)
      BY <2>4 DEF LoopTest, MoreEvents, Done, Places, Inside, InsideAt
    <2>5. CASE LoadTail(t) \/ StoreTail(t)
      BY <2>5 DEF LoadTail, StoreTail
    <2>6. CASE ReadFlags(t)
      BY <2>6 DEF ReadFlags
    <2>7. CASE ClearFlags(t)
      BY <2>7 DEF ClearFlags
    <2>8. CASE ReadPtr(t) \/ ReadBurst(t) \/ CallbackReturns(t)
      BY <2>8 DEF ReadPtr, ReadBurst, CallbackReturns
    <2>9. CASE TxDoneEvent(t)
      BY <2>9 DEF TxDoneEvent
    <2>. QED
      BY <1>6, <2>1, <2>2, <2>3, <2>4, <2>5, <2>6, <2>7, <2>8, <2>9
         DEF ProcessEvents
  <1>7. CASE Wake \/ Restore \/ QueueEmpty
    BY <1>7 DEF Wake, Restore, QueueEmpty, Polls
  <1>8. CASE Interrupt
    BY <1>8 DEF Interrupt
  <1>9. CASE Chip
    BY <1>9 DEF Chip, ChipTxDone, ChipPacket
  <1>10. CASE Tick \/ UNCHANGED vars
    BY <1>10 DEF Tick, vars
  <1>. QED
    BY LoneSteps, <1>1, <1>2, <1>3, <1>4, <1>5, <1>6, <1>7, <1>8, <1>9, <1>10

LEMMA TxIsWatchedStep ==
  ASSUME TypeOK, Polls, Lone, Lone', GotInUse, Heard, Mapped, TxIsWatched,
         [Next]_vars
  PROVE  TxIsWatched'
  <1>. PlaceTypes /\ LocalTypes /\ Symbols /\ Booleans
    BY TypeGroups DEF ThreadTypes
  <1>. USE DEF PlaceTypes, LocalTypes, Threads, At, GoTo, SetMode, TxIsWatched,
               chipVars, ring, clock, fsm, pump, locals, bounds, BesideChip,
               BesideFields
  <1>1. CASE Send
    BY <1>1 DEF Send, Call, Mapped, OnAir, ProcessSteps
  <1>2. CASE Receive
    BY <1>2 DEF Receive, Mapped, OnAir, ProcessSteps
  <1>3. CASE Transmit("loop")
    <2>1. CASE SetStandby("loop") \/ StandbyState("loop") \/ TxStandby("loop")
      BY <2>1 DEF SetStandby, StandbyState, TxStandby, Mapped, OnAir, ProcessSteps
    <2>2. CASE TxPtr("loop") \/ TxBurst("loop")
      BY <2>2 DEF TxPtr, TxBurst, Mapped, OnAir, ProcessSteps
    <2>3. CASE TxDio0("loop")
      BY <2>3 DEF TxDio0, Mapped, OnAir, ProcessSteps
    <2>4. CASE TxMode("loop")
      <3>1. "TxDone" \notin flags
        <4>1. ~LineHigh
          BY <2>4, LoopMovesInSilence DEF TxMode, Runs, Hearing
        <4>. QED
          BY <2>4, <4>1 DEF TxMode, LineHigh, Mapped
      <3>2. \A t \in Threads : got[t] = {}
        <4>1. pc["pump"] = "take"
          BY <2>4, LoopMovesInSilence DEF TxMode, Runs, Hearing
        <4>. QED
          BY <2>4, <4>1 DEF TxMode, GotInUse, Handling
      <3>. QED
        BY <2>4, <3>1, <3>2 DEF TxMode
    <2>5. CASE TxActive("loop") \/ TxDeadline("loop") \/ TxState("loop")
      BY <2>5 DEF TxActive, TxDeadline, TxState
    <2>. QED
      BY <1>3, <2>1, <2>2, <2>3, <2>4, <2>5 DEF Transmit
  <1>4. CASE SendLoop("loop")
    <2>1. CASE SendTurn("loop") \/ SendAgain("loop")
      BY <2>1 DEF SendTurn, SendAgain
    <2>2. CASE SendOK("loop") \/ SendTimeout("loop")
      BY <2>2 DEF SendOK, SendTimeout
    <2>3. CASE Leave("loop")
      BY <2>3 DEF Leave, Mapped, OnAir, ProcessSteps
    <2>. QED
      BY <1>4, <2>1, <2>2, <2>3 DEF SendLoop
  <1>5. CASE ReceiveCall("loop")
    <2>1. CASE RxStandby("loop") \/ RxPtr("loop")
      BY <2>1 DEF RxStandby, RxPtr, Mapped, OnAir, ProcessSteps
    <2>2. CASE RxDio0("loop")
      BY <2>2 DEF RxDio0, Mapped, OnAir, ProcessSteps
    <2>3. CASE RxMode("loop") \/ RxState("loop")
      BY <2>3 DEF RxMode, RxState, Mapped, OnAir, ProcessSteps
    <2>. QED
      BY <1>5, <2>1, <2>2, <2>3 DEF ReceiveCall
  <1>6. ASSUME NEW t \in Threads, ProcessEvents(t)
        PROVE  TxIsWatched'
    <2>1. CASE Watchdog(t) \/ Overdue(t)
      BY <2>1 DEF Watchdog, Overdue
    <2>2. CASE GiveUp(t)
      BY <2>2 DEF GiveUp
    <2>3. CASE Cut(t)
      BY <2>3 DEF Cut
    <2>4. CASE LoopTest(t)
      BY <2>4 DEF LoopTest, MoreEvents, Done
    <2>5. CASE LoadTail(t) \/ StoreTail(t)
      BY <2>5 DEF LoadTail, StoreTail
    <2>6. CASE ReadFlags(t)
      BY <2>6 DEF ReadFlags
    <2>7. CASE ClearFlags(t)
      BY <2>7 DEF ClearFlags
    <2>8. CASE ReadPtr(t) \/ ReadBurst(t) \/ CallbackReturns(t)
      BY <2>8 DEF ReadPtr, ReadBurst, CallbackReturns
    <2>9. CASE TxDoneEvent(t)
      BY <2>9 DEF TxDoneEvent
    <2>. QED
      BY <1>6, <2>1, <2>2, <2>3, <2>4, <2>5, <2>6, <2>7, <2>8, <2>9
         DEF ProcessEvents
  <1>7. CASE Wake \/ Restore \/ QueueEmpty
    BY <1>7 DEF Wake, Restore, QueueEmpty, Polls
  <1>8. CASE Interrupt
    BY <1>8 DEF Interrupt
  <1>9. CASE Chip
    BY <1>9 DEF Chip, ChipTxDone, ChipPacket
  <1>10. CASE Tick \/ UNCHANGED vars
    BY <1>10 DEF Tick, vars
  <1>. QED
    BY LoneSteps, <1>1, <1>2, <1>3, <1>4, <1>5, <1>6, <1>7, <1>8, <1>9, <1>10

LEMMA PointerHeldStep ==
  ASSUME TypeOK, Polls, Lone, Lone', NoStaleFlag, PointerHeld, [Next]_vars
  PROVE  PointerHeld'
  <1>. PlaceTypes /\ LocalTypes /\ Symbols /\ Booleans
    BY TypeGroups DEF ThreadTypes
  <1>. USE DEF PlaceTypes, LocalTypes, Threads, At, GoTo, PointerHeld, chipVars,
               ring, clock, fsm, pump, locals, bounds, BesideChip, BesideFields
  <1>1. CASE Send
    BY <1>1 DEF Send, Call
  <1>2. CASE Receive
    BY <1>2 DEF Receive
  <1>3. CASE Transmit("loop")
    <2>1. CASE SetStandby("loop") \/ StandbyState("loop") \/ TxStandby("loop")
      BY <2>1 DEF SetStandby, StandbyState, TxStandby
    <2>2. CASE TxPtr("loop")
      BY <2>2 DEF TxPtr, Runs, LoopRuns, Lone
    <2>3. CASE TxBurst("loop") \/ TxDio0("loop")
      BY <2>3 DEF TxBurst, TxDio0
    <2>4. CASE TxMode("loop")
      BY <2>4 DEF TxMode
    <2>5. CASE TxActive("loop") \/ TxDeadline("loop") \/ TxState("loop")
      BY <2>5 DEF TxActive, TxDeadline, TxState
    <2>. QED
      BY <1>3, <2>1, <2>2, <2>3, <2>4, <2>5 DEF Transmit
  <1>4. CASE SendLoop("loop")
    <2>1. CASE SendTurn("loop") \/ SendAgain("loop")
      BY <2>1 DEF SendTurn, SendAgain
    <2>2. CASE SendOK("loop") \/ SendTimeout("loop")
      BY <2>2 DEF SendOK, SendTimeout
    <2>3. CASE Leave("loop")
      BY <2>3 DEF Leave
    <2>. QED
      BY <1>4, <2>1, <2>2, <2>3 DEF SendLoop
  <1>5. CASE ReceiveCall("loop")
    <2>1. CASE RxStandby("loop") \/ RxPtr("loop")
      BY <2>1 DEF RxStandby, RxPtr
    <2>2. CASE RxDio0("loop")
      BY <2>2 DEF RxDio0
    <2>3. CASE RxMode("loop") \/ RxState("loop")
      BY <2>3 DEF RxMode, RxState
    <2>. QED
      BY <1>5, <2>1, <2>2, <2>3 DEF ReceiveCall
  <1>6. ASSUME NEW t \in Threads, ProcessEvents(t)
        PROVE  PointerHeld'
    <2>1. CASE Watchdog(t) \/ Overdue(t)
      BY <2>1 DEF Watchdog, Overdue
    <2>2. CASE GiveUp(t)
      BY <2>2 DEF GiveUp
    <2>3. CASE Cut(t)
      BY <2>3 DEF Cut
    <2>4. CASE LoopTest(t)
      BY <2>4 DEF LoopTest, MoreEvents, Done
    <2>5. CASE LoadTail(t) \/ StoreTail(t)
      BY <2>5 DEF LoadTail, StoreTail
    <2>6. CASE ReadFlags(t)
      BY <2>6 DEF ReadFlags, NoStaleFlag
    <2>7. CASE ClearFlags(t)
      BY <2>7 DEF ClearFlags
    <2>8. CASE ReadPtr(t)
      BY <2>8 DEF ReadPtr
    <2>9. CASE ReadBurst(t) \/ CallbackReturns(t)
      BY <2>9 DEF ReadBurst, CallbackReturns
    <2>10. CASE TxDoneEvent(t)
      BY <2>10 DEF TxDoneEvent
    <2>. QED
      BY <1>6, <2>1, <2>2, <2>3, <2>4, <2>5, <2>6, <2>7, <2>8, <2>9, <2>10
         DEF ProcessEvents
  <1>7. CASE Wake \/ Restore \/ QueueEmpty
    BY <1>7 DEF Wake, Restore, QueueEmpty, Polls
  <1>8. CASE Interrupt
    BY <1>8 DEF Interrupt
  <1>9. CASE Chip
    BY <1>9 DEF Chip, ChipTxDone, ChipPacket
  <1>10. CASE Tick \/ UNCHANGED vars
    BY <1>10 DEF Tick, vars
  <1>. QED
    BY LoneSteps, <1>1, <1>2, <1>3, <1>4, <1>5, <1>6, <1>7, <1>8, <1>9, <1>10

LEMMA CarriedStep ==
  ASSUME TypeOK, Polls, Lone, Lone', Mapped, PointerHeld, Carried, [Next]_vars
  PROVE  Carried'
  <1>. PlaceTypes /\ LocalTypes /\ Symbols /\ Booleans
    BY TypeGroups DEF ThreadTypes
  <1>. USE DEF PlaceTypes, LocalTypes, Threads, At, GoTo, Booleans, SetMode,
               Carried, chipVars, ring, clock, fsm, pump, locals, bounds,
               BesideChip, BesideFields
  <1>1. CASE Send
    BY <1>1 DEF Send, Call, Mapped, OnAir, ProcessSteps
  <1>2. CASE Receive
    BY <1>2 DEF Receive
  <1>3. CASE Transmit("loop")
    <2>1. CASE SetStandby("loop") \/ StandbyState("loop") \/ TxStandby("loop")
      BY <2>1 DEF SetStandby, StandbyState, TxStandby
    <2>2. CASE TxPtr("loop")
      BY <2>2 DEF TxPtr
    <2>3. CASE TxBurst("loop")
      BY <2>3 DEF TxBurst, PointerHeld
    <2>4. CASE TxDio0("loop")
      BY <2>4 DEF TxDio0
    <2>5. CASE TxMode("loop")
      BY <2>5 DEF TxMode
    <2>6. CASE TxActive("loop") \/ TxDeadline("loop") \/ TxState("loop")
      BY <2>6 DEF TxActive, TxDeadline, TxState
    <2>. QED
      BY <1>3, <2>1, <2>2, <2>3, <2>4, <2>5, <2>6 DEF Transmit
  <1>4. CASE SendLoop("loop")
    <2>1. CASE SendTurn("loop") \/ SendAgain("loop")
      BY <2>1 DEF SendTurn, SendAgain
    <2>2. CASE SendOK("loop") \/ SendTimeout("loop")
      BY <2>2 DEF SendOK, SendTimeout
    <2>3. CASE Leave("loop")
      BY <2>3 DEF Leave
    <2>. QED
      BY <1>4, <2>1, <2>2, <2>3 DEF SendLoop
  <1>5. CASE ReceiveCall("loop")
    <2>1. CASE RxStandby("loop") \/ RxPtr("loop")
      BY <2>1 DEF RxStandby, RxPtr
    <2>2. CASE RxDio0("loop")
      BY <2>2 DEF RxDio0
    <2>3. CASE RxMode("loop") \/ RxState("loop")
      BY <2>3 DEF RxMode, RxState
    <2>. QED
      BY <1>5, <2>1, <2>2, <2>3 DEF ReceiveCall
  <1>6. ASSUME NEW t \in Threads, ProcessEvents(t)
        PROVE  Carried'
    <2>1. CASE Watchdog(t) \/ Overdue(t)
      BY <2>1 DEF Watchdog, Overdue
    <2>2. CASE GiveUp(t)
      BY <2>2 DEF GiveUp
    <2>3. CASE Cut(t)
      BY <2>3 DEF Cut
    <2>4. CASE LoopTest(t)
      BY <2>4 DEF LoopTest, MoreEvents, Done
    <2>5. CASE LoadTail(t) \/ StoreTail(t)
      BY <2>5 DEF LoadTail, StoreTail
    <2>6. CASE ReadFlags(t)
      BY <2>6 DEF ReadFlags
    <2>7. CASE ClearFlags(t)
      BY <2>7 DEF ClearFlags
    <2>8. CASE ReadPtr(t) \/ ReadBurst(t) \/ CallbackReturns(t)
      BY <2>8 DEF ReadPtr, ReadBurst, CallbackReturns
    <2>9. CASE TxDoneEvent(t)
      BY <2>9 DEF TxDoneEvent
    <2>. QED
      BY <1>6, <2>1, <2>2, <2>3, <2>4, <2>5, <2>6, <2>7, <2>8, <2>9
         DEF ProcessEvents
  <1>7. CASE Wake \/ Restore \/ QueueEmpty
    BY <1>7 DEF Wake, Restore, QueueEmpty, Polls
  <1>8. CASE Interrupt
    BY <1>8 DEF Interrupt
  <1>9. CASE Chip
    BY <1>9 DEF Chip, ChipTxDone, ChipPacket
  <1>10. CASE Tick \/ UNCHANGED vars
    BY <1>10 DEF Tick, vars
  <1>. QED
    BY LoneSteps, <1>1, <1>2, <1>3, <1>4, <1>5, <1>6, <1>7, <1>8, <1>9, <1>10

(* With the pump on loop()'s core and nothing queued with send_async(), what *)
(* is on the air is the payload send() was given, for every ring size and    *)
(* any number of packets and sends: AirCarriesPayload.                       *)
THEOREM PointerNeedsNoLock == Spec => []AirCarriesPayload
  <1>1. Init => GotInUse /\ LoadInv
    <2>. SUFFICES ASSUME Init PROVE GotInUse /\ LoadInv
      OBVIOUS
    <2>1. GotInUse /\ Polls
      BY DEF Init, GotInUse, Polls, Threads
    <2>2. Heard /\ NoStaleFlag /\ Mapped
      BY DEF Init, Heard, LineHigh, NoStaleFlag, Mapped, Threads
    <2>3. TxIsWatched /\ PointerHeld /\ Carried
      BY DEF Init, TxIsWatched, PointerHeld, Carried, Threads
    <2>. QED
      BY <2>1, <2>2, <2>3 DEF LoadInv
  <1>2. TypeOK /\ Places /\ Guarded /\ GotInUse /\ LoadInv /\ [Next]_vars
          => (GotInUse /\ LoadInv)'
    <2>. SUFFICES ASSUME TypeOK, Places, Guarded, GotInUse, LoadInv, [Next]_vars
                  PROVE  (GotInUse /\ LoadInv)'
      OBVIOUS
    <2>1. GotInUse'
      BY GotInUseStep, TypeGroups
    <2>2. Lone' => Lone
      BY BoundsStay, TypeGroups DEF Lone
    <2>3. ASSUME Lone'
          PROVE  (/\ Polls /\ Heard /\ NoStaleFlag /\ Mapped /\ TxIsWatched
                  /\ PointerHeld /\ Carried)'
      BY <2>2, <2>3, PollsStep, HeardStep, NoStaleFlagStep, MappedStep, TxIsWatchedStep,
         PointerHeldStep, CarriedStep DEF LoadInv
    <2>. QED
      BY <2>1, <2>3 DEF LoadInv
  <1>3. LoadInv => AirCarriesPayload
    BY DEF LoadInv, Carried, AirCarriesPayload, Lone
  <1>. QED
    BY <1>1, <1>2, <1>3, GuardedInit, GuardedStep, TypeCorrect, PTL DEF Spec
=============================================================================
