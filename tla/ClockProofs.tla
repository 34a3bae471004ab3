---------------------------- MODULE ClockProofs ----------------------------
(***************************************************************************)
(* The deadlines of Clock, for every width of the clock, every timeout and   *)
(* every latency: types whatever the clock does, and what the tests of the   *)
(* clock are worth as long as no deadline passes the end of its range.       *)
(***************************************************************************)
EXTENDS Clock, TLAPS

USE WidthAssumption, TimesAssumption

(* A sum stays in range; below the end of the range it is the sum. *)
LEMMA PlusInRange ==
    ASSUME NEW a \in 0 .. W - 1, NEW b \in 0 .. W - 1
    PROVE  /\ Plus(a, b) \in 0 .. W - 1
           /\ a + b < W => Plus(a, b) = a + b
  BY DEF Plus

LEMMA ArmedInRange == ASSUME now \in 0 .. W - 1, Armed
                      PROVE  silence' \in 0 .. W - 1
  BY PlusInRange DEF Armed

(* Types, in two groups: what is true or false, and the rest. *)
Booleans == txActive \in BOOLEAN /\ sending \in BOOLEAN /\ watching \in BOOLEAN

Numbers == /\ now \in 0 .. W - 1 /\ boot \in Boots
           /\ txDeadline \in 0 .. W - 1 /\ silence \in 0 .. W - 1
           /\ deadline \in 0 .. W - 1
           /\ pc \in {"idle", "deadline", "while", "silence", "events", "late"}
           /\ time \in Nat /\ gap \in 0 .. Latency
           /\ txSince \in 0 .. time /\ sendSince \in 0 .. time
           /\ rxSince \in 0 .. time

LEMMA TypeGroups == TypeOK <=> Booleans /\ Numbers
  BY DEF TypeOK, Booleans, Numbers

LEMMA TypeInit == Init => TypeOK
  <1>1. Init => Booleans
    BY DEF Init, Booleans
  <1>2. Init => Numbers
    BY DEF Init, Numbers
  <1>. QED
    BY <1>1, <1>2, TypeGroups

LEMMA BooleansStep == Booleans /\ [Next]_vars => Booleans'
  <1>. SUFFICES ASSUME Booleans, [Next]_vars PROVE Booleans'
    OBVIOUS
  <1>1. sending' \in BOOLEAN
    BY DEF Booleans, Next, vars, driverVars, history, Tick, StartReceive,
       StartTransmit, SendDeadline, TxWatchdog, SilenceWatchdog, Events, SendOK,
       SendTimesOut, SendAgain, SendReturns
  <1>2. txActive' \in BOOLEAN
    BY DEF Booleans, Next, vars, driverVars, Tick, StartReceive, StartTransmit,
       SendDeadline, TxWatchdog, WatchdogFires, WatchdogWaits, SilenceWatchdog,
       Events, SendOK, SendTimesOut, SendAgain, SendReturns
  <1>3. watching' \in BOOLEAN
    <2>a. (Silence > 0) \in BOOLEAN
      OBVIOUS
    <2>1. CASE StartReceive \/ Events \/ SilenceWatchdog
      BY <2>1, <2>a, Zenon DEF Booleans, StartReceive, Events, Armed, SilenceWatchdog,
         SilenceFires, SilenceWaits
    <2>2. CASE UNCHANGED watching
      BY <2>2 DEF Booleans
    <2>. QED
      BY <2>1, <2>2 DEF Next, vars, history, Tick, StartTransmit, SendDeadline,
         TxWatchdog, SendOK, SendTimesOut, SendAgain, SendReturns
  <1>. QED
    BY <1>1, <1>2, <1>3 DEF Booleans

LEMMA NumbersStep == Numbers /\ [Next]_vars => Numbers'
  <1>. SUFFICES ASSUME Numbers, [Next]_vars PROVE Numbers'
    OBVIOUS
  <1>1. CASE Tick
    <2>1. W > 1 => now' \in 0 .. W - 1
      BY <1>1, PlusInRange DEF Tick, Numbers
    <2>2. W = 1 => now' \in 0 .. W - 1
      BY <1>1 DEF Tick, Numbers, Plus
    <2>. QED
      BY <1>1, <2>1, <2>2 DEF Tick, Numbers, driverVars, history
  <1>2. CASE StartReceive
    BY <1>2, ArmedInRange DEF StartReceive, Calls, Armed, Numbers
  <1>3. CASE StartTransmit
    BY <1>3, PlusInRange DEF StartTransmit, Calls, Numbers
  <1>4. CASE SendDeadline
    BY <1>4, PlusInRange DEF SendDeadline, GoTo, Numbers, driverVars
  <1>5. CASE TxWatchdog
    BY <1>5 DEF TxWatchdog, GoTo, Numbers
  <1>6. CASE SilenceWatchdog
    BY <1>6 DEF SilenceWatchdog, SilenceFires, SilenceWaits, GoTo, Numbers
  <1>7. CASE Events
    <2>1. silence' \in 0 .. W - 1 /\ rxSince' \in {rxSince, time}
      BY <1>7, ArmedInRange DEF Events, Armed, Numbers
    <2>2. /\ pc' \in {"late", "idle"} /\ gap' = 0
          /\ UNCHANGED <<now, time, boot, txDeadline, deadline, txSince, sendSince>>
      BY <1>7 DEF Events, GoTo
    <2>. QED
      BY <2>1, <2>2 DEF Numbers
  <1>8. CASE SendOK
    BY <1>8 DEF SendOK, SendReturns, GoTo, Numbers, driverVars
  <1>9. CASE SendTimesOut
    BY <1>9 DEF SendTimesOut, SendReturns, GoTo, Numbers, driverVars
  <1>10. CASE SendAgain
    BY <1>10 DEF SendAgain, GoTo, Numbers, driverVars
  <1>11. CASE UNCHANGED vars
    BY <1>11 DEF vars, driverVars, history, Numbers
  <1>. QED
    BY <1>1, <1>2, <1>3, <1>4, <1>5, <1>6, <1>7, <1>8, <1>9, <1>10, <1>11 DEF Next

LEMMA TypeStep == TypeOK /\ [Next]_vars => TypeOK'
  BY BooleansStep, NumbersStep, TypeGroups, PTL

(* The clock, the deadlines and the thread have their types, and the clock   *)
(* and the deadlines stay within 32 bits, wherever the clock starts and       *)
(* however often it wraps.                                                    *)
THEOREM TypeCorrect == Spec => []TypeOK
  BY TypeInit, TypeStep, PTL DEF Spec

---------------------------------------------------------------------------
(* The silence watchdog reports a silence once. *)

(* A silence deadline that is set has been set since the last report, also    *)
(* across a wrap: the watchdog disarms before it reports.                     *)
THEOREM OneReport == Spec => []NoStorm
  <1>1. Init => NoStorm
    BY DEF Init, NoStorm
  <1>2. NoStorm /\ [Next]_vars => NoStorm'
    <2>. SUFFICES ASSUME NoStorm, [Next]_vars PROVE NoStorm'
      OBVIOUS
    <2>a. Armed => NoStorm'
      BY DEF Armed, NoStorm
    <2>b. UNCHANGED <<silence, watching>> => NoStorm'
      BY DEF NoStorm
    <2>1. CASE StartReceive \/ Events
      BY <2>1, <2>a, <2>b DEF StartReceive, Events
    <2>2. CASE SilenceWatchdog
      BY <2>2, <2>b DEF SilenceWatchdog, SilenceFires, SilenceWaits, NoStorm
    <2>. QED
      BY <2>1, <2>2, <2>b DEF Next, vars, driverVars, history, Tick, StartTransmit,
         SendDeadline, TxWatchdog, SendOK, SendTimesOut, SendAgain, SendReturns
  <1>. QED
    BY <1>1, <1>2, PTL DEF Spec

---------------------------------------------------------------------------
(* While no deadline passes the end of the range, the clock and the deadlines *)
(* are what they would be on an unbounded clock.                              *)

Exact == /\ now = boot + time /\ time <= MaxTime
         /\ txActive => txDeadline = boot + txSince + Timeout
         /\ silence # 0 => watching
         /\ watching => Silence > 0 /\ silence = boot + rxSince + Silence

LEMMA Sums ==
    ASSUME Unwrapped, Numbers, Exact
    PROVE  /\ Plus(now, Timeout) = boot + time + Timeout
           /\ Plus(now, Silence) = boot + time + Silence
           /\ time < MaxTime => Plus(now, 1) = now + 1
  <1>1. /\ boot + MaxTime + Timeout < W /\ boot + MaxTime + Silence < W
        /\ boot \in Nat
    BY DEF Unwrapped, Numbers
  <1>. QED
    BY <1>1 DEF Plus, Numbers, Exact

(* The flags start no transmission. *)
LEMMA EventsOnlyEnd == Events => (txActive' => txActive)
  BY Zenon DEF Events

LEMMA ArmedExact ==
    ASSUME Unwrapped, Numbers, Exact, Armed, UNCHANGED <<boot, time>>
    PROVE  /\ silence' # 0 => watching'
           /\ watching' => Silence > 0 /\ silence' = (boot + rxSince + Silence)'
  BY Sums DEF Armed

LEMMA ExactStep == Unwrapped /\ Numbers /\ Exact /\ [Next]_vars => Exact'
  <1>. SUFFICES ASSUME Unwrapped, Numbers, Exact, [Next]_vars PROVE Exact'
    OBVIOUS
  <1>1. CASE Tick
    <2>1. now' = now + 1 /\ time' = time + 1 /\ time' <= MaxTime
      BY <1>1, Sums DEF Tick, Numbers
    <2>. QED
      BY <1>1, <2>1 DEF Tick, Exact, Numbers, driverVars, history
  <1>2. CASE StartReceive
    BY <1>2, ArmedExact DEF StartReceive, Calls, Exact
  <1>3. CASE StartTransmit
    BY <1>3, Sums DEF StartTransmit, Calls, Exact
  <1>4. CASE TxWatchdog
    BY <1>4 DEF TxWatchdog, WatchdogFires, WatchdogWaits, GoTo, Exact
  <1>5. CASE SilenceWatchdog
    BY <1>5 DEF SilenceWatchdog, SilenceFires, SilenceWaits, GoTo, Exact
  <1>6. CASE Events
    <2>1. CASE Armed
      BY <1>6, <2>1, ArmedExact, EventsOnlyEnd DEF Events, GoTo, Exact
    <2>2. CASE UNCHANGED <<silence, rxSince, watching>>
      BY <1>6, <2>2, EventsOnlyEnd DEF Events, GoTo, Exact
    <2>. QED
      BY <1>6, <2>1, <2>2 DEF Events
  <1>7. CASE SendDeadline \/ SendOK \/ SendTimesOut \/ SendAgain \/ UNCHANGED vars
    BY <1>7 DEF SendDeadline, SendOK, SendTimesOut, SendAgain, SendReturns, GoTo, Exact,
       vars, driverVars, history
  <1>. QED
    BY <1>1, <1>2, <1>3, <1>4, <1>5, <1>6, <1>7 DEF Next

(* Where the thread is inside send(), and what it knows there.               *)
Inside == /\ pc \in {"deadline", "while", "late"} => sending
          /\ pc = "idle" => ~sending
          /\ pc = "deadline" => txActive

LEMMA InsideStep == Numbers /\ Inside /\ [Next]_vars => Inside'
  <1>. SUFFICES ASSUME Numbers, Inside, [Next]_vars PROVE Inside'
    OBVIOUS
  <1>1. CASE Tick \/ UNCHANGED vars \/ StartReceive
    BY <1>1 DEF Tick, StartReceive, Calls, Inside, vars, driverVars, history
  <1>2. CASE StartTransmit \/ SendDeadline
    BY <1>2 DEF StartTransmit, SendDeadline, Calls, GoTo, Inside, driverVars
  <1>3. CASE TxWatchdog \/ SilenceWatchdog
    BY <1>3 DEF TxWatchdog, SilenceWatchdog, GoTo, Inside
  <1>5. CASE Events
    BY <1>5, Zenon DEF Events, GoTo, Inside
  <1>4. CASE SendOK \/ SendTimesOut \/ SendAgain
    BY <1>4 DEF SendOK, SendTimesOut, SendAgain, SendReturns, GoTo, Inside, driverVars
  <1>. QED
    BY <1>1, <1>2, <1>3, <1>4, <1>5 DEF Next

---------------------------------------------------------------------------
(* How late it may be at each place: a test that has not fired bounds the     *)
(* time, and every step after it adds Latency milliseconds at most.           *)

TxLag == txActive =>
  /\ pc = "deadline" => time <= txSince + gap
  /\ pc = "silence" => time <= txSince + Timeout + gap
  /\ pc = "events" => time <= txSince + Timeout + Latency + gap
  /\ pc = "late" => time <= txSince + Timeout + 2 * Latency + gap
  /\ pc \in {"while", "idle"} => time <= txSince + Timeout + 3 * Latency + gap

SendLag == sending =>
  /\ pc = "deadline" => time <= sendSince + gap
  /\ pc # "deadline" => /\ boot + sendSince + Timeout <= deadline
                        /\ deadline <= boot + sendSince + Timeout + Latency
  /\ pc = "while" => time <= sendSince + Timeout + Latency + gap
  /\ pc = "silence" => time <= sendSince + Timeout + 2 * Latency + gap
  /\ pc = "events" => time <= sendSince + Timeout + 3 * Latency + gap
  /\ pc = "late" => time <= sendSince + Timeout + 4 * Latency + gap

SilenceLag == watching =>
  /\ pc = "events" => time <= rxSince + Silence + gap
  /\ pc = "late" => time <= rxSince + Silence + Latency + gap
  /\ pc = "while" /\ ~txActive => time <= rxSince + Silence + 2 * Latency + gap
  /\ pc \in {"idle", "deadline"} => time <= rxSince + Silence + 3 * Latency + gap
  /\ pc = "while" => time <= rxSince + Silence + 4 * Latency + gap
  /\ pc = "silence" => time <= rxSince + Silence + 5 * Latency + gap

LEMMA TxLagStep ==
    Unwrapped /\ Numbers /\ Exact /\ Inside /\ TxLag /\ [Next]_vars => TxLag'
  <1>. SUFFICES ASSUME Unwrapped, Numbers, Exact, Inside, TxLag, [Next]_vars PROVE TxLag'
    OBVIOUS
  <1>. USE DEF TxLag, Numbers
  <1>1. CASE Tick
    BY <1>1 DEF Tick, driverVars, history
  <1>2. CASE StartReceive
    BY <1>2 DEF StartReceive, Calls
  <1>3. CASE StartTransmit
    BY <1>3 DEF StartTransmit, Calls
  <1>4. CASE SendDeadline
    BY <1>4 DEF SendDeadline, GoTo, driverVars
  <1>5. CASE TxWatchdog
    <2>1. pc' = "silence" /\ UNCHANGED <<time, txSince, boot>> /\ gap' = 0
      BY <1>5 DEF TxWatchdog, GoTo
    <2>2. txActive' => txActive /\ ~(now >= txDeadline)
      BY <1>5, Zenon DEF TxWatchdog, WatchdogFires, WatchdogWaits, TxIsOver
    <2>3. txActive' => time <= txSince + Timeout
      BY <2>2 DEF Exact
    <2>. QED
      BY <2>1, <2>3
  <1>6. CASE SilenceWatchdog
    BY <1>6 DEF SilenceWatchdog, GoTo
  <1>7. CASE Events
    <2>1. /\ pc = "events" /\ pc' \in {"late", "idle"} /\ gap' = 0
          /\ UNCHANGED <<time, txSince>>
      BY <1>7 DEF Events, GoTo
    <2>. QED
      BY <1>7, <2>1, EventsOnlyEnd
  <1>8. CASE SendOK \/ SendTimesOut
    <2>1. /\ pc = "late" \/ (pc = "while" /\ ~txActive)
          /\ pc' = "idle" /\ gap' = 0
          /\ UNCHANGED <<time, driverVars, txSince, rxSince, watching>>
      BY <1>8, Zenon DEF SendOK, SendTimesOut, SendReturns, GoTo
    <2>. QED
      BY <2>1 DEF driverVars
  <1>10. CASE SendAgain
    BY <1>10 DEF SendAgain, GoTo, driverVars
  <1>9. CASE UNCHANGED vars
    BY <1>9 DEF vars, driverVars, history
  <1>. QED
    BY <1>1, <1>2, <1>3, <1>4, <1>5, <1>6, <1>7, <1>8, <1>9, <1>10 DEF Next

LEMMA SendLagStep ==
    Unwrapped /\ Numbers /\ Exact /\ Inside /\ SendLag /\ [Next]_vars => SendLag'
  <1>. SUFFICES ASSUME Unwrapped, Numbers, Exact, Inside, SendLag, [Next]_vars
                PROVE  SendLag'
    OBVIOUS
  <1>. USE DEF SendLag, Numbers
  <1>1. CASE Tick
    BY <1>1 DEF Tick, driverVars, history
  <1>2. CASE StartReceive
    BY <1>2 DEF StartReceive, Calls, Inside
  <1>3. CASE StartTransmit
    BY <1>3 DEF StartTransmit, Calls
  <1>4. CASE SendDeadline
    <2>1. deadline' = boot + time + Timeout
      BY <1>4, Sums DEF SendDeadline
    <2>. QED
      BY <1>4, <2>1 DEF SendDeadline, GoTo
  <1>5. CASE TxWatchdog
    BY <1>5 DEF TxWatchdog, GoTo, Inside
  <1>6. CASE SilenceWatchdog
    BY <1>6 DEF SilenceWatchdog, GoTo
  <1>7. CASE Events
    <2>1. /\ pc = "events" /\ gap' = 0 /\ sending' = sending
          /\ pc' = IF sending THEN "late" ELSE "idle"
          /\ UNCHANGED <<time, boot, deadline, sendSince>>
      BY <1>7 DEF Events, GoTo
    <2>. QED
      BY <2>1
  <1>8. CASE SendOK \/ SendTimesOut
    BY <1>8 DEF SendOK, SendTimesOut, SendReturns
  <1>9. CASE SendAgain
    BY <1>9 DEF SendAgain, SendIsOver, GoTo, Exact
  <1>10. CASE UNCHANGED vars
    BY <1>10 DEF vars, driverVars, history
  <1>. QED
    BY <1>1, <1>2, <1>3, <1>4, <1>5, <1>6, <1>7, <1>8, <1>9, <1>10 DEF Next

LEMMA Slack == ASSUME NEW t \in Nat, NEW g \in Nat
               PROVE  /\ t <= t + Silence + g
                      /\ t <= t + Silence + Latency + g
                      /\ t <= t + Silence + 2 * Latency + g
                      /\ t <= t + Silence + 3 * Latency + g
                      /\ t <= t + Silence + 4 * Latency + g
                      /\ t <= t + Silence + 5 * Latency + g
  OBVIOUS

LEMMA SilenceLagStep ==
    Unwrapped /\ Numbers /\ Exact /\ Inside /\ SilenceLag /\ [Next]_vars => SilenceLag'
  <1>. SUFFICES ASSUME Unwrapped, Numbers, Exact, Inside, SilenceLag, [Next]_vars
                PROVE  SilenceLag'
    OBVIOUS
  <1>. USE DEF SilenceLag, Numbers
  <1>a. ASSUME rxSince' = time, time' = time, gap' \in Nat PROVE SilenceLag'
    <2>1. /\ time' <= rxSince' + Silence + gap'
          /\ time' <= rxSince' + Silence + Latency + gap'
          /\ time' <= rxSince' + Silence + 2 * Latency + gap'
          /\ time' <= rxSince' + Silence + 3 * Latency + gap'
          /\ time' <= rxSince' + Silence + 4 * Latency + gap'
          /\ time' <= rxSince' + Silence + 5 * Latency + gap'
      BY <1>a, Slack
    <2>. QED
      BY <2>1, Zenon
  <1>1. CASE Tick
    BY <1>1 DEF Tick, driverVars, history
  <1>2. CASE StartReceive
    BY <1>2, <1>a DEF StartReceive, Calls, Armed
  <1>3. CASE StartTransmit
    BY <1>3 DEF StartTransmit, Calls
  <1>4. CASE SendDeadline
    BY <1>4 DEF SendDeadline, GoTo, driverVars, Inside
  <1>5. CASE TxWatchdog
    <2>1. /\ \/ pc = "idle"
             \/ pc = "while"
          /\ pc' = "silence" /\ gap' = 0
          /\ UNCHANGED <<time, rxSince, watching>>
      BY <1>5 DEF TxWatchdog, GoTo
    <2>. QED
      BY <2>1
  <1>6. CASE SilenceWatchdog
    <2>a. watching' => watching /\ ~(silence # 0 /\ now >= silence)
      BY <1>6, Zenon DEF SilenceWatchdog, SilenceFires, SilenceWaits, SilenceIsOver
    <2>1. watching' => watching /\ time < rxSince + Silence
      BY <2>a DEF Exact
    <2>2. pc' = "events" /\ UNCHANGED <<time, rxSince>> /\ gap' = 0
      BY <1>6 DEF SilenceWatchdog, GoTo
    <2>. QED
      BY <2>1, <2>2
  <1>7. CASE Events
    <2>1. /\ pc = "events" /\ pc' \in {"late", "idle"} /\ gap' = 0 /\ time' = time
      BY <1>7 DEF Events, GoTo
    <2>2. CASE rxSince' = time
      BY <2>1, <2>2, <1>a
    <2>3. CASE UNCHANGED <<rxSince, watching>>
      BY <2>1, <2>3
    <2>. QED
      BY <1>7, <2>2, <2>3 DEF Events, Armed
  <1>8. CASE SendOK \/ SendTimesOut
    <2>1. /\ pc = "late" \/ (pc = "while" /\ ~txActive)
          /\ pc' = "idle" /\ gap' = 0
          /\ UNCHANGED <<time, driverVars, txSince, rxSince, watching>>
      BY <1>8, Zenon DEF SendOK, SendTimesOut, SendReturns, GoTo
    <2>. QED
      BY <2>1 DEF driverVars
  <1>10. CASE SendAgain
    BY <1>10 DEF SendAgain, GoTo, driverVars
  <1>9. CASE UNCHANGED vars
    BY <1>9 DEF vars, driverVars, history
  <1>. QED
    BY <1>1, <1>2, <1>3, <1>4, <1>5, <1>6, <1>7, <1>8, <1>9, <1>10 DEF Next

---------------------------------------------------------------------------
Timely == Exact /\ TxLag /\ SendLag /\ SilenceLag

ClockInv == Numbers /\ Inside /\ (Unwrapped => Timely)

LEMMA ClockInvariant == Spec => []ClockInv
  <1>1. Init => ClockInv
    <2>. SUFFICES ASSUME Init PROVE ClockInv
      OBVIOUS
    <2>1. Numbers /\ Exact
      BY DEF Init, Numbers, Exact
    <2>2. Inside /\ TxLag /\ SendLag /\ SilenceLag
      BY DEF Init, Inside, TxLag, SendLag, SilenceLag
    <2>. QED
      BY <2>1, <2>2 DEF ClockInv, Timely
  <1>2. ClockInv /\ [Next]_vars => ClockInv'
    <2>. SUFFICES ASSUME ClockInv, [Next]_vars PROVE ClockInv'
      OBVIOUS
    <2>1. Unwrapped' => Unwrapped
      BY DEF Unwrapped, Next, vars, history, Tick, GoTo, Calls, StartReceive,
         StartTransmit, SendDeadline, TxWatchdog, SilenceWatchdog, Events, SendOK,
         SendTimesOut, SendAgain
    <2>2. Unwrapped => Timely'
      BY ExactStep, TxLagStep, SendLagStep, SilenceLagStep DEF ClockInv, Timely
    <2>. QED
      BY <2>1, <2>2, NumbersStep, InsideStep DEF ClockInv
  <1>. QED
    BY <1>1, <1>2, PTL DEF Spec

(* As long as no deadline passes the end of the clock's range: a transmission *)
(* that never ends is given up within its timeout and four steps of the       *)
(* thread, send() returns within its timeout and five steps, and silence is   *)
(* reported within its timeout and six.                                       *)
THEOREM InTime == Spec => []NotLate
  <1>1. ClockInv /\ Unwrapped => TxNotLate
    BY DEF ClockInv, Timely, Numbers, TxLag, TxNotLate
  <1>2. ClockInv /\ Unwrapped => SendNotLate
    BY DEF ClockInv, Timely, Numbers, Inside, SendLag, SendNotLate
  <1>3. ClockInv /\ Unwrapped => SilenceNotLate
    BY DEF ClockInv, Timely, Numbers, SilenceLag, SilenceNotLate
  <1>4. ClockInv => NotLate
    BY <1>1, <1>2, <1>3 DEF NotLate
  <1>. QED
    BY <1>4, ClockInvariant, PTL

(* As long as no deadline passes the end of the clock's range, no timeout is  *)
(* reported before its time.                                                  *)
THEOREM NothingEarly == Spec => NotEarly
  <1>1. ClockInv /\ [Next]_vars =>
          [Unwrapped =>
             /\ WatchdogFires /\ pc' = "silence" => time >= txSince + Timeout
             /\ SendTimesOut => time > sendSince + Timeout
             /\ SilenceFires /\ pc' = "events" => time >= rxSince + Silence]_vars
    <2>. SUFFICES ASSUME ClockInv, Unwrapped
                  PROVE  /\ WatchdogFires => time >= txSince + Timeout
                         /\ SendTimesOut => time > sendSince + Timeout
                         /\ SilenceFires => time >= rxSince + Silence
      OBVIOUS
    <2>. USE DEF Timely
    <2>1. WatchdogFires => time >= txSince + Timeout
      BY DEF WatchdogFires, TxIsOver, ClockInv, Numbers, Exact
    <2>2. SendTimesOut => time > sendSince + Timeout
      BY DEF SendTimesOut, SendIsOver, GoTo, ClockInv, Numbers, Exact, Inside, SendLag
    <2>3. SilenceFires => time >= rxSince + Silence
      BY DEF SilenceFires, SilenceIsOver, ClockInv, Numbers, Exact
    <2>. QED
      BY <2>1, <2>2, <2>3
  <1>. QED
    BY <1>1, ClockInvariant, PTL DEF Spec, NotEarly
=============================================================================
