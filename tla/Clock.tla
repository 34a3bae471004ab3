------------------------------- MODULE Clock -------------------------------
(***************************************************************************)
(* The three deadlines and the clock they are compared with.  millis() is a  *)
(* counter of 32 bits: a deadline is a sum modulo W = 2^32, a test compares  *)
(* two such numbers, and the silence deadline uses 0 for "disarmed".  One    *)
(* thread calls send(), start_receive() and poll(); it reads the clock again *)
(* for each test, and at most Latency milliseconds pass from one step of     *)
(* process_events() or of send() to the next.                                *)
(***************************************************************************)
EXTENDS Integers

CONSTANTS
  W,          \* values of the clock
  Boots,      \* values it may start from
  Timeout,    \* timeout_ms of send()
  Silence,    \* rx_silence_timeout_ms, 0 = disabled
  Latency,    \* longest step of the thread, in milliseconds
  MaxTime     \* bound: milliseconds of a behaviour

ASSUME WidthAssumption == W \in Nat \ {0} /\ Boots \subseteq 0 .. W - 1
ASSUME TimesAssumption == /\ Timeout \in 0 .. W - 1 /\ Silence \in 0 .. W - 1
                          /\ Latency \in Nat \ {0} /\ MaxTime \in Nat

VARIABLES
  now,            \* millis()
  txActive,       \* driver: tx_in_progress_
  txDeadline,     \* driver: tx_deadline_ms_
  silence,        \* driver: rx_silence_deadline_ms_
  deadline,       \* send(): its local deadline
  sending,        \* thread: it is inside send()
  pc,             \* thread: its next test of the clock
  boot, time,     \* history: the first value of the clock, time since then
  gap,            \* history: time since the last step
  txSince,        \* history: when the last transmission was registered
  sendSince,      \* history: when the last send() was called
  rxSince,        \* history: when the silence watchdog was last started
  watching        \* history: it was started and has not fired since

driverVars == <<txActive, txDeadline, silence>>
history == <<boot, txSince, sendSince, rxSince, watching>>
vars == <<now, driverVars, deadline, sending, pc, time, gap, history>>

(* Slip: the sum is computed in 64 bits. *)
PlusWide(a, b) == a + b

(* A sum of two numbers of 32 bits. *)
Plus(a, b) == IF a + b < W THEN a + b ELSE a + b - W

Init == /\ boot \in Boots /\ now = boot
        /\ txActive = FALSE /\ txDeadline = 0 /\ silence = 0 /\ deadline = 0
        /\ sending = FALSE /\ pc = "idle" /\ time = 0 /\ gap = 0
        /\ txSince = 0 /\ sendSince = 0 /\ rxSince = 0 /\ watching = FALSE

Tick == /\ time < MaxTime /\ gap < Latency
        /\ now' = Plus(now, 1) /\ time' = time + 1 /\ gap' = gap + 1
        /\ UNCHANGED <<driverVars, deadline, sending, pc, history>>

(* The thread goes from one test of the clock to the next. *)
GoTo(from, to) == /\ pc = from /\ pc' = to /\ gap' = 0
                  /\ UNCHANGED <<now, time, boot>>

(* A call of the application, which puts off the next poll() no further. *)
Calls(to) == /\ pc = "idle" /\ pc' = to
             /\ UNCHANGED <<now, time, boot, gap>>

---------------------------------------------------------------------------
(* start_receive(), start_transmit() and send() *)

(* Slip: the silence watchdog is armed for a number of milliseconds, not for *)
(* a moment.                                                                 *)
ArmedRaw == silence' = Silence /\ rxSince' = time /\ watching' = (Silence > 0)

Armed == /\ silence' = IF Silence > 0 THEN Plus(now, Silence) ELSE 0
         /\ rxSince' = time /\ watching' = (Silence > 0)

StartReceive == /\ Calls("idle") /\ Armed
                /\ UNCHANGED <<txActive, txDeadline, deadline, sending, txSince,
                               sendSince>>

StartTransmit == /\ Calls("deadline")
                 /\ txActive' = TRUE /\ txDeadline' = Plus(now, Timeout)
                 /\ sending' = TRUE /\ txSince' = time /\ sendSince' = time
                 /\ UNCHANGED <<silence, deadline, rxSince, watching>>

SendDeadline == /\ GoTo("deadline", "while") /\ deadline' = Plus(now, Timeout)
                /\ UNCHANGED <<driverVars, sending, txSince, sendSince, rxSince,
                               watching>>

---------------------------------------------------------------------------
(* process_events(), from poll() or from send()'s loop *)

(* Slip: the watchdog fires in the millisecond of its deadline. *)
TxIsOverExactly == txActive /\ now = txDeadline

TxIsOver == txActive /\ now >= txDeadline

WatchdogFires == TxIsOver /\ txActive' = FALSE
WatchdogWaits == ~TxIsOver /\ UNCHANGED txActive

TxWatchdog == /\ \/ ~sending /\ GoTo("idle", "silence")
                 \/ txActive /\ GoTo("while", "silence")
              /\ WatchdogFires \/ WatchdogWaits
              /\ UNCHANGED <<txDeadline, silence, deadline, sending, txSince,
                             sendSince, rxSince, watching>>

SilenceIsOver == silence # 0 /\ now >= silence

(* Slip: the silence watchdog fires and stays armed. *)
SilenceFiresOn == SilenceIsOver /\ UNCHANGED silence /\ watching' = FALSE

SilenceFires == SilenceIsOver /\ silence' = 0 /\ watching' = FALSE
SilenceWaits == ~SilenceIsOver /\ UNCHANGED <<silence, watching>>

SilenceWatchdog == /\ GoTo("silence", "events")
                   /\ SilenceFires \/ SilenceWaits
                   /\ UNCHANGED <<txActive, txDeadline, deadline, sending, txSince,
                                  sendSince, rxSince>>

(* The flags: a packet arms the silence watchdog again, TxDone ends the      *)
(* transmission.                                                             *)
Events == /\ GoTo("events", IF sending THEN "late" ELSE "idle")
          /\ \/ /\ Silence > 0 /\ Armed
                /\ UNCHANGED txActive
             \/ /\ txActive' \in {FALSE, txActive}
                /\ UNCHANGED <<silence, rxSince, watching>>
          /\ UNCHANGED <<txDeadline, deadline, sending, txSince, sendSince>>

---------------------------------------------------------------------------
(* The rest of send()'s loop *)

SendReturns == /\ sending' = FALSE
               /\ UNCHANGED <<driverVars, deadline, txSince, sendSince, rxSince,
                              watching>>

SendOK == /\ ~txActive /\ GoTo("while", "idle") /\ SendReturns

SendIsOver == now > deadline

SendTimesOut == SendIsOver /\ GoTo("late", "idle") /\ SendReturns

SendAgain == /\ ~SendIsOver /\ GoTo("late", "while")
             /\ UNCHANGED <<driverVars, deadline, sending, txSince, sendSince, rxSince,
                            watching>>

Next == \/ Tick \/ StartReceive \/ StartTransmit \/ SendDeadline \/ TxWatchdog
        \/ SilenceWatchdog \/ Events \/ SendOK \/ SendTimesOut \/ SendAgain

Spec == Init /\ [][Next]_vars

---------------------------------------------------------------------------
(* Properties *)

(* Types of the clock, the deadlines and the thread. *)
TypeOK == /\ now \in 0 .. W - 1 /\ boot \in Boots
          /\ txActive \in BOOLEAN /\ sending \in BOOLEAN /\ watching \in BOOLEAN
          /\ txDeadline \in 0 .. W - 1 /\ silence \in 0 .. W - 1
          /\ deadline \in 0 .. W - 1
          /\ pc \in {"idle", "deadline", "while", "silence", "events", "late"}
          /\ time \in Nat /\ gap \in 0 .. Latency
          /\ txSince \in 0 .. time /\ sendSince \in 0 .. time /\ rxSince \in 0 .. time

(* No deadline of the behaviour reaches the end of the clock's range: what   *)
(* the code takes for granted, and what 49.7 days of uptime refute.          *)
Unwrapped == /\ boot + MaxTime + Timeout < W
             /\ boot + MaxTime + Silence < W

(* No timeout is reported before its time: TxTimeout by the driver's watchdog *)
(* and by send(), RxTimeout by the silence watchdog.  ClockEarly.cfg shows    *)
(* why it says Unwrapped.                                                     *)
NotEarly == [][Unwrapped =>
                 /\ WatchdogFires /\ pc' = "silence" => time >= txSince + Timeout
                 /\ SendTimesOut => time > sendSince + Timeout
                 /\ SilenceFires /\ pc' = "events" => time >= rxSince + Silence]_vars

(* A transmission that never ends is given up at most four steps of the       *)
(* thread after its timeout, send() comes back at most five steps after it,   *)
(* and silence on the air is reported within six.                             *)
TxNotLate == txActive => time <= txSince + Timeout + 4 * Latency
SendNotLate == sending => time <= sendSince + Timeout + 5 * Latency
SilenceNotLate == watching => time <= rxSince + Silence + 6 * Latency

(* As long as no deadline wraps, none of the three is late.                   *)
NotLate == Unwrapped => TxNotLate /\ SendNotLate /\ SilenceNotLate

(* The silence watchdog reports a silence once, also when the clock wraps.    *)
NoStorm == silence # 0 => watching

(* The same without Unwrapped, for the counterexamples of ClockEarly.cfg.     *)
NeverEarly == [][/\ WatchdogFires /\ pc' = "silence" => time >= txSince + Timeout
                 /\ SendTimesOut => time > sendSince + Timeout]_vars
=============================================================================
