-------------------------- MODULE CallbacksProofs --------------------------
(***************************************************************************)
(* Theorems about Callbacks for every set of calls, number of calls and      *)
(* packets, with and without silence watchdog: whatever callbacks call, and  *)
(* however deep their calls nest.                                           *)
(***************************************************************************)
EXTENDS Callbacks, SequenceTheorems, TLAPS

USE BoundsAssumption

---------------------------------------------------------------------------
(* The stack *)

LEMMA FramesAreFrames ==
  /\ \A p \in Places : Frame(p) \in Frames
  /\ \A e \in Events : EventFrame(e) \in Frames
  /\ \A n \in Nat : UserFrame(n) \in Frames /\ SendFrame(n) \in Frames
  BY DEF Frames, Frame, EventFrame, UserFrame, SendFrame, Places, Events

LEMMA HereIsFrame ==
  ASSUME stack \in Seq(Frames), stack # << >>, NEW p \in Places
  PROVE  /\ Top \in Frames /\ Here(p) \in Frames
         /\ Here(p) = [at |-> p, got |-> Top.got, event |-> Top.event, id |-> Top.id]
  <1>1. Top \in Frames
    BY HeadTailProperties DEF Top
  <1>. QED
    BY <1>1 DEF Here, Frames

(* A call, a return or a move replaces the running frame by at most two. *)
LEMMA Replaced ==
  ASSUME NEW s \in Seq(Frames), s # << >>, NEW fs \in Seq(Frames)
  PROVE  /\ fs \o Tail(s) \in Seq(Frames)
         /\ Len(fs \o Tail(s)) = Len(fs) + Len(s) - 1
         /\ \A i \in 1 .. Len(fs) : (fs \o Tail(s))[i] = fs[i]
         /\ \A i \in Len(fs) + 1 .. Len(fs) + Len(s) - 1 :
              (fs \o Tail(s))[i] = s[i - Len(fs) + 1]
  <1>1. /\ Tail(s) \in Seq(Frames) /\ Len(Tail(s)) = Len(s) - 1
        /\ \A i \in 1 .. Len(Tail(s)) : Tail(s)[i] = s[i + 1]
    BY HeadTailProperties
  <1>2. Len(fs) \in Nat /\ Len(s) \in Nat /\ Len(s) > 0
    BY EmptySeq, LenProperties
  <1>3. /\ fs \o Tail(s) \in Seq(Frames)
        /\ Len(fs \o Tail(s)) = Len(fs) + Len(Tail(s))
        /\ \A i \in 1 .. Len(fs) + Len(Tail(s)) :
             (fs \o Tail(s))[i] = IF i <= Len(fs) THEN fs[i] ELSE Tail(s)[i - Len(fs)]
    BY <1>1, ConcatProperties
  <1>. QED
    BY <1>1, <1>2, <1>3

LEMMA Pushed ==
  ASSUME NEW s \in Seq(Frames), NEW f \in Frames
  PROVE  /\ <<f>> \o s \in Seq(Frames)
         /\ Len(<<f>> \o s) = Len(s) + 1
         /\ (<<f>> \o s)[1] = f
         /\ \A i \in 2 .. Len(s) + 1 : (<<f>> \o s)[i] = s[i - 1]
  <1>1. <<f>> \in Seq(Frames) /\ Len(<<f>>) = 1 /\ <<f>>[1] = f
    OBVIOUS
  <1>. QED
    BY <1>1, ConcatProperties, LenProperties

Moved(fs) ==
  /\ stack' \in Seq(Frames)
  /\ Len(stack') = Len(fs) + Len(stack) - 1
  /\ \A i \in 1 .. Len(fs) : stack'[i] = fs[i]
  /\ \A i \in Len(fs) + 1 .. Len(fs) + Len(stack) - 1 :
       stack'[i] = stack[i - Len(fs) + 1]

LEMMA ReturnMoves ==
  ASSUME stack \in Seq(Frames), stack # << >>, Return
  PROVE  Moved(<< >>)
  <1>1. << >> \in Seq(Frames) /\ << >> \o Tail(stack) = Tail(stack)
    BY HeadTailProperties, ConcatEmptySeq
  <1>. QED
    BY <1>1, Replaced DEF Return, Moved

LEMMA ReplaceMoves ==
  ASSUME stack \in Seq(Frames), stack # << >>, NEW f \in Frames,
         stack' = <<f>> \o Tail(stack)
  PROVE  Moved(<<f>>)
  <1>1. <<f>> \in Seq(Frames)
    OBVIOUS
  <1>. QED
    BY <1>1, Replaced DEF Moved

LEMMA GoToMoves ==
  ASSUME stack \in Seq(Frames), stack # << >>, NEW p \in Places, GoTo(p)
  PROVE  Moved(<<Here(p)>>)
  BY HereIsFrame, ReplaceMoves DEF GoTo

LEMMA CallMoves ==
  ASSUME stack \in Seq(Frames), stack # << >>, NEW p \in Places, NEW f \in Frames,
         CallThen(<<f>>, p)
  PROVE  Moved(<<f, Here(p)>>)
  <1>1. Here(p) \in Frames
    BY HereIsFrame
  <1>2. <<f>> \o <<Here(p)>> = <<f, Here(p)>> /\ <<f, Here(p)>> \in Seq(Frames)
    <2>1. /\ <<f>> \in Seq(Frames) /\ Len(<<f>>) = 1
          /\ <<Here(p)>> \in Seq(Frames) /\ Len(<<Here(p)>>) = 1
          /\ <<f, Here(p)>> \in Seq(Frames) /\ Len(<<f, Here(p)>>) = 2
      BY <1>1
    <2>2. /\ <<f>> \o <<Here(p)>> \in Seq(Frames)
          /\ Len(<<f>> \o <<Here(p)>>) = 2
          /\ \A i \in 1 .. 2 : (<<f>> \o <<Here(p)>>)[i] = IF i <= 1 THEN f ELSE Here(p)
      BY <2>1, ConcatProperties
    <2>. QED
      <3>1. \A i \in 1 .. 2 : (<<f>> \o <<Here(p)>>)[i] = <<f, Here(p)>>[i]
        BY <2>2
      <3>. QED
        BY <2>1, <2>2, <3>1, SeqEqual
  <1>. QED
    BY <1>2, Replaced DEF CallThen, Moved

LEMMA NoCallMoves ==
  ASSUME stack \in Seq(Frames), stack # << >>, NEW p \in Places, CallThen(<< >>, p)
  PROVE  Moved(<<Here(p)>>)
  <1>1. Here(p) \in Frames /\ <<Here(p)>> \in Seq(Frames)
    BY HereIsFrame
  <1>2. << >> \o <<Here(p)>> = <<Here(p)>>
    BY <1>1, ConcatEmptySeq
  <1>. QED
    BY <1>1, <1>2, ReplaceMoves DEF CallThen

(* What a step may do to the stack: nothing, push a frame that is called from *)
(* the application or a callback, or replace the running frame.               *)
Rests == stack' = stack

Pushes(f) == /\ stack' \in Seq(Frames) /\ Len(stack') = Len(stack) + 1
             /\ stack'[1] = f
             /\ \A i \in 2 .. Len(stack) + 1 : stack'[i] = stack[i - 1]

LEMMA PushMoves ==
  ASSUME stack \in Seq(Frames), NEW f \in Frames, stack' = <<f>> \o stack
  PROVE  Pushes(f)
  BY Pushed DEF Pushes

---------------------------------------------------------------------------
(* The depths at which the frames of a set lie.  A frame keeps its depth     *)
(* until it returns.                                                         *)
Deep(s, F) == {d \in 0 .. Len(s) - 1 : s[Len(s) - d] \in F}
TopDepth == Len(stack) - 1
If(f, F, d) == IF f \in F THEN {d} ELSE {}

LEMMA DeepTop ==
  ASSUME stack \in Seq(Frames), stack # << >>, NEW F
  PROVE  /\ TopDepth \in Nat
         /\ TopDepth \in Deep(stack, F) <=> Top \in F
         /\ \A d \in Deep(stack, F) : d \in Nat /\ d <= TopDepth
  <1>1. Len(stack) \in Nat \ {0} /\ Top = stack[1]
    BY EmptySeq DEF Top
  <1>. QED
    BY <1>1 DEF Deep, TopDepth

LEMMA DeepReturns ==
  ASSUME stack \in Seq(Frames), stack # << >>, NEW F, Moved(<< >>)
  PROVE  Deep(stack', F) = Deep(stack, F) \ {TopDepth}
  <1>1. Len(stack) \in Nat \ {0} /\ Len(<< >>) = 0
    BY EmptySeq
  <1>2. \A d \in 0 .. Len(stack) - 2 : stack'[Len(stack') - d] = stack[Len(stack) - d]
    BY <1>1 DEF Moved
  <1>3. Len(stack') = Len(stack) - 1
    BY <1>1 DEF Moved
  <1>. QED
    BY <1>1, <1>2, <1>3 DEF Deep, TopDepth

LEMMA DeepMoves ==
  ASSUME stack \in Seq(Frames), stack # << >>, NEW F, NEW h, Moved(<<h>>)
  PROVE  Deep(stack', F) = (Deep(stack, F) \ {TopDepth}) \cup If(h, F, TopDepth)
  <1>1. Len(stack) \in Nat \ {0} /\ Len(<<h>>) = 1
    BY EmptySeq
  <1>2. Len(stack') = Len(stack) /\ stack'[1] = h
    BY <1>1 DEF Moved
  <1>3. \A d \in 0 .. Len(stack) - 2 : stack'[Len(stack') - d] = stack[Len(stack) - d]
    BY <1>1 DEF Moved
  <1>. QED
    BY <1>1, <1>2, <1>3, SMTT(30) DEF Deep, TopDepth, If

LEMMA DeepCalls ==
  ASSUME stack \in Seq(Frames), stack # << >>, NEW F, NEW f, NEW h, Moved(<<f, h>>)
  PROVE  Deep(stack', F) = (Deep(stack, F) \ {TopDepth}) \cup If(h, F, TopDepth)
                             \cup If(f, F, TopDepth + 1)
  <1>1. Len(stack) \in Nat \ {0} /\ Len(<<f, h>>) = 2
    BY EmptySeq
  <1>2. Len(stack') = Len(stack) + 1 /\ stack'[1] = f /\ stack'[2] = h
    BY <1>1 DEF Moved
  <1>3. \A d \in 0 .. Len(stack) - 2 : stack'[Len(stack') - d] = stack[Len(stack) - d]
    BY <1>1 DEF Moved
  <1>4. stack'[Len(stack') - Len(stack)] = f
          /\ stack'[Len(stack') - (Len(stack) - 1)] = h
    BY <1>1, <1>2
  <1>5. Deep(stack', F) = {d \in 0 .. Len(stack) : stack'[Len(stack') - d] \in F}
    BY <1>1, <1>2 DEF Deep
  <1>6. ASSUME NEW d \in 0 .. Len(stack) - 2
        PROVE  d \in Deep(stack', F) <=> d \in Deep(stack, F)
    <2>1. d \in 0 .. Len(stack) /\ d \in 0 .. Len(stack) - 1
      BY <1>1
    <2>. QED
      BY <1>3, <1>5, <2>1 DEF Deep
  <1>7. /\ TopDepth \in Deep(stack', F) <=> h \in F
        /\ TopDepth + 1 \in Deep(stack', F) <=> f \in F
        /\ TopDepth = Len(stack) - 1
    BY <1>1, <1>4, <1>5 DEF TopDepth
  <1>8. Deep(stack', F) \subseteq 0 .. Len(stack) /\ Deep(stack, F) \subseteq 0 .. TopDepth
    BY <1>5 DEF Deep, TopDepth
  <1>. QED
    BY <1>1, <1>6, <1>7, <1>8 DEF If

LEMMA DeepPushes ==
  ASSUME stack \in Seq(Frames), NEW F, NEW f, Pushes(f)
  PROVE  Deep(stack', F) = Deep(stack, F) \cup If(f, F, Len(stack))
  <1>1. Len(stack) \in Nat
    BY LenProperties
  <1>2. Len(stack') = Len(stack) + 1 /\ stack'[1] = f
    BY DEF Pushes
  <1>3. \A d \in 0 .. Len(stack) - 1 : stack'[Len(stack') - d] = stack[Len(stack) - d]
    BY <1>1 DEF Pushes
  <1>. QED
    BY <1>1, <1>2, <1>3 DEF Deep, If

---------------------------------------------------------------------------
(* The stack and the actions *)

LEMMA EmitMoves ==
  ASSUME stack \in Seq(Frames), stack # << >>, NEW p \in Places, NEW e \in Events,
         CallThen(Emitted(e), p)
  PROVE  IF alive' THEN Moved(<<EventFrame(e), Here(p)>>) ELSE Moved(<<Here(p)>>)
  BY CallMoves, NoCallMoves, FramesAreFrames DEF Emitted

LEMMA InvokeMoves ==
  ASSUME stack \in Seq(Frames), stack # << >>, NEW p \in Places, NEW n \in Nat,
         CallThen(Invoked(n), p)
  PROVE  IF registered THEN Moved(<<UserFrame(n), Here(p)>>) ELSE Moved(<<Here(p)>>)
  BY CallMoves, NoCallMoves, FramesAreFrames DEF Invoked

LEMMA TurnMoves ==
  ASSUME stack \in Seq(Frames), stack # << >>, CallThen(<<Frame("watchdog")>>, "late")
  PROVE  Moved(<<Frame("watchdog"), Here("late")>>)
  BY CallMoves, FramesAreFrames DEF Places

(* A frame of the user is only put on the stack while callbacks are set. *)
MayAdd(f) == f \in Frames /\ (f.at = "user" => registered)

StackStep ==
  \/ Rests
  \/ \E f \in Frames : Pushes(f) /\ MayAdd(f)
  \/ /\ stack # << >>
     /\ \/ Moved(<< >>)
        \/ \E f \in Frames : Moved(<<f>>) /\ MayAdd(f)
        \/ \E f, h \in Frames : Moved(<<f, h>>) /\ MayAdd(f) /\ MayAdd(h)

Types == /\ mode \in Modes /\ flags \subseteq IrqFlags
         /\ packets \in 0 .. MaxPackets /\ carried \in 0 .. MaxCalls
         /\ silence \in {"off", "running", "over"}
         /\ state \in {"Uninit", "Standby", "Tx", "RxSingle", "RxContinuous", "Cad"}
         /\ rxBuf \in 0 .. MaxPackets /\ stack \in Seq(Frames)
         /\ calls \in 0 .. MaxCalls

Booleans == /\ alive \in BOOLEAN /\ txActive \in BOOLEAN /\ due \in BOOLEAN
            /\ cadAuto \in BOOLEAN /\ rxCont \in BOOLEAN /\ registered \in BOOLEAN
            /\ nested \in BOOLEAN /\ listening \in BOOLEAN /\ closed \in BOOLEAN

LEMMA TypeGroups == TypeOK <=> Types /\ Booleans
  BY DEF TypeOK, Types, Booleans

LEMMA CallStackStep == Types /\ Call => StackStep
  <1>. SUFFICES ASSUME Types, Call PROVE StackStep
    OBVIOUS
  <1>1. CASE Send
    <2>1. SendFrame(calls') \in Frames /\ SendFrame(calls').at = "while"
      BY <1>1, FramesAreFrames DEF Send, Calling, Types, SendFrame, Frame
    <2>2. Pushes(SendFrame(calls'))
      BY <1>1, <2>1, PushMoves DEF Send, Types
    <2>. QED
      BY <2>1, <2>2 DEF StackStep, MayAdd
  <1>2. CASE Poll
    <2>1. Frame("watchdog") \in Frames /\ Frame("watchdog").at = "watchdog"
      BY FramesAreFrames DEF Places, Frame
    <2>2. Pushes(Frame("watchdog"))
      BY <1>2, <2>1, PushMoves DEF Poll, Types
    <2>. QED
      BY <2>1, <2>2 DEF StackStep, MayAdd
  <1>3. CASE SetStandby \/ StartReceive(TRUE) \/ StartReceive(FALSE)
              \/ StartCad(TRUE) \/ StartCad(FALSE) \/ End \/ Begin
    BY <1>3 DEF SetStandby, StartReceive, StartCad, End, Begin, StackStep, Rests
  <1>. QED
    BY <1>1, <1>2, <1>3 DEF Call

LEMMA AtFrame ==
  ASSUME Types, NEW p, At(p)
  PROVE  stack \in Seq(Frames) /\ stack # << >> /\ Top \in Frames /\ Top.at = p
  BY HeadTailProperties DEF Types, At, Top

(* The frames an event or a move can leave behind. *)
LEMMA FrameAts ==
  /\ \A p : Frame(p).at = p /\ Frame(p).got = {}
  /\ \A e : EventFrame(e).at = "event" /\ EventFrame(e).got = {}
  /\ \A n : UserFrame(n).at = "user" /\ UserFrame(n).got = {}
  /\ \A n : SendFrame(n).at = "while" /\ SendFrame(n).got = {} /\ SendFrame(n).id = n
  BY DEF Frame, EventFrame, UserFrame, SendFrame

LEMMA GoesTo ==
  ASSUME Types, stack # << >>, NEW p \in Places \ {"user"}, GoTo(p)
  PROVE  StackStep
  <1>1. Here(p) \in Frames /\ Here(p).at = p
    BY HereIsFrame DEF Types
  <1>2. Moved(<<Here(p)>>)
    BY GoToMoves DEF Types
  <1>. QED
    BY <1>1, <1>2 DEF StackStep, MayAdd

LEMMA Emits ==
  ASSUME Types, stack # << >>, NEW p \in Places \ {"user"}, NEW e \in Events,
         CallThen(Emitted(e), p)
  PROVE  StackStep
  <1>1. Here(p) \in Frames /\ Here(p).at = p /\ EventFrame(e) \in Frames
    BY HereIsFrame, FramesAreFrames DEF Types
  <1>2. MayAdd(Here(p)) /\ MayAdd(EventFrame(e))
    BY <1>1, FrameAts DEF MayAdd
  <1>. QED
    BY <1>1, <1>2, EmitMoves DEF Types, StackStep

LEMMA Invokes ==
  ASSUME Types, stack # << >>, NEW p \in Places \ {"user"}, NEW n \in Nat,
         CallThen(Invoked(n), p)
  PROVE  StackStep
  <1>1. Here(p) \in Frames /\ Here(p).at = p /\ UserFrame(n) \in Frames
    BY HereIsFrame, FramesAreFrames DEF Types
  <1>2. MayAdd(Here(p)) /\ (registered => MayAdd(UserFrame(n)))
    BY <1>1, FrameAts DEF MayAdd
  <1>. QED
    BY <1>1, <1>2, InvokeMoves DEF Types, StackStep

LEMMA Returns ==
  ASSUME Types, stack # << >>, Return
  PROVE  StackStep
  BY ReturnMoves DEF Types, StackStep

LEMMA ProcessStackStep == Types /\ ProcessEvents => StackStep
  <1>. SUFFICES ASSUME Types, ProcessEvents PROVE StackStep
    OBVIOUS
  <1>. USE DEF At, Places, Events
  <1>1. CASE TxWatchdog
    BY <1>1, GoesTo, Emits DEF TxWatchdog
  <1>2. CASE SilenceFires
    BY <1>2, Emits DEF SilenceFires
  <1>3. CASE SilenceIdle \/ Silenced
    BY <1>3, GoesTo DEF SilenceIdle, Silenced
  <1>4. CASE NothingToRead
    BY <1>4, Returns DEF NothingToRead
  <1>5. CASE ReadFlags
    <2>. DEFINE h == [Here("rx") EXCEPT !.got = flags]
    <2>1. h \in Frames /\ h.at = "rx"
      <3>1. Here("rx") \in Frames /\ Here("rx").at = "rx" /\ flags \in SUBSET IrqFlags
        BY <1>5, HereIsFrame DEF ReadFlags, Types
      <3>. QED
        BY <3>1 DEF Frames
    <2>2. stack' = <<h>> \o Tail(stack)
      BY <1>5 DEF ReadFlags
    <2>3. Moved(<<h>>)
      BY <1>5, <2>1, <2>2, ReplaceMoves DEF ReadFlags, Types
    <2>. QED
      BY <1>5, <2>1, <2>3 DEF ReadFlags, StackStep, MayAdd
  <1>6. CASE RxDoneEvent
    BY <1>6, GoesTo, Emits DEF RxDoneEvent
  <1>7. CASE TxDoneEvent
    BY <1>7, GoesTo, Emits DEF TxDoneEvent
  <1>8. CASE RxTimeoutEvent
    <2>1. CASE "RxTimeout" \in Top.got
      BY <1>8, <2>1, Emits DEF RxTimeoutEvent
    <2>2. CASE "RxTimeout" \notin Top.got
      <3>1. Moved(<<Here("cad")>>) /\ Here("cad") \in Frames /\ Here("cad").at = "cad"
        BY <1>8, <2>2, NoCallMoves, HereIsFrame DEF RxTimeoutEvent, Types
      <3>. QED
        BY <1>8, <3>1 DEF RxTimeoutEvent, StackStep, MayAdd
    <2>. QED
      BY <2>1, <2>2
  <1>9. CASE CadDoneEvent
    BY <1>9, Emits, Returns DEF CadDoneEvent
  <1>10. CASE AfterCad
    BY <1>10, Returns DEF AfterCad
  <1>. QED
    BY <1>1, <1>2, <1>3, <1>4, <1>5, <1>6, <1>7, <1>8, <1>9, <1>10 DEF ProcessEvents

LEMMA OtherStackStep ==
  Types /\ (OnDriverEvent \/ UserReturns \/ SendLoop) => StackStep
  <1>. SUFFICES ASSUME Types, OnDriverEvent \/ UserReturns \/ SendLoop PROVE StackStep
    OBVIOUS
  <1>. USE DEF At, Places
  <1>0. packets \in Nat /\ 0 \in Nat
    BY DEF Types
  <1>1. CASE EventCallback
    BY <1>0, <1>1, Invokes DEF EventCallback
  <1>2. CASE PacketCallback
    BY <1>0, <1>2, Invokes, GoesTo DEF PacketCallback
  <1>3. CASE TxDoneCallback
    <2>1. CASE registered
      <3>1. UserFrame(0) \in Frames /\ stack' = <<UserFrame(0)>> \o Tail(stack)
        BY <1>0, <1>3, <2>1, FramesAreFrames DEF TxDoneCallback, Invoked
      <3>. QED
        BY <1>3, <2>1, <3>1, ReplaceMoves DEF TxDoneCallback, Types, StackStep, MayAdd
    <2>2. CASE ~registered
      <3>1. << >> \o Tail(stack) = Tail(stack)
        BY <1>3, HeadTailProperties, ConcatEmptySeq DEF TxDoneCallback, Types
      <3>2. Return
        BY <1>3, <2>2, <3>1 DEF TxDoneCallback, Invoked, Return
      <3>. QED
        BY <1>3, <3>2, Returns DEF TxDoneCallback
    <2>. QED
      BY <2>1, <2>2
  <1>4. CASE EventEnds \/ UserReturns \/ SendOK \/ SendTimeout
    BY <1>4, Returns DEF EventEnds, UserReturns, SendOK, SendTimeout, SendReturns
  <1>5. CASE SendTurn
    <2>1. Moved(<<Frame("watchdog"), Here("late")>>)
      BY <1>5, TurnMoves DEF SendTurn, Types
    <2>2. MayAdd(Frame("watchdog")) /\ MayAdd(Here("late"))
      BY <1>5, FramesAreFrames, HereIsFrame, FrameAts DEF SendTurn, Types, MayAdd
    <2>. QED
      BY <1>5, <2>1, <2>2 DEF SendTurn, StackStep, MayAdd
  <1>6. CASE SendAgain
    BY <1>6, GoesTo DEF SendAgain
  <1>. QED
    BY <1>1, <1>2, <1>3, <1>4, <1>5, <1>6 DEF OnDriverEvent, SendLoop

LEMMA EachStackStep == Types /\ [Next]_vars => StackStep
  BY CallStackStep, ProcessStackStep, OtherStackStep
     DEF Next, Thread, Chip, Tick, Idle, vars, StackStep, Rests

---------------------------------------------------------------------------
(* Types *)

LEMMA StackStays == Types /\ StackStep => stack' \in Seq(Frames)
  BY DEF Types, StackStep, Rests, Pushes, Moved

LEMMA TypesStep == Types /\ [Next]_vars => Types'
  <1>. SUFFICES ASSUME Types, [Next]_vars PROVE Types'
    OBVIOUS
  <1>0. stack' \in Seq(Frames)
    BY EachStackStep, StackStays
  <1>. USE <1>0 DEF Types, Modes, IrqFlags, chipVars, driverVars, fsmVars
  <1>1. CASE Chip
    <2>1. CASE ChipPacket
      BY <1>1, <2>1 DEF Chip, ChipPacket
    <2>2. CASE ChipRxTimeout
      BY <1>1, <2>2 DEF Chip, ChipRxTimeout
    <2>4. CASE ChipTxDone
      BY <1>1, <2>4 DEF Chip, ChipTxDone
    <2>3. CASE ChipCadDone
      BY <1>1, <2>3 DEF Chip, ChipCadDone
    <2>. QED
      BY <1>1, <2>1, <2>2, <2>3, <2>4 DEF Chip
  <1>2. CASE Tick
    BY <1>2 DEF Tick
  <1>3. CASE Call
    <2>. USE DEF Calling, SetMode
    <2>1. CASE SetStandby
      BY <2>1 DEF SetStandby
    <2>5. CASE Send
      BY <2>5 DEF Send
    <2>6. CASE Poll
      BY <2>6 DEF Poll
    <2>2. ASSUME NEW c \in BOOLEAN, StartReceive(c)
          PROVE  Types'
      BY <2>2 DEF StartReceive, DriverReceives
    <2>3. ASSUME NEW auto \in BOOLEAN, StartCad(auto)
          PROVE  Types'
      BY <2>3 DEF StartCad
    <2>4. CASE End
      BY <2>4 DEF End, Ended
    <2>7. CASE Begin
      BY <2>7 DEF Begin
    <2>. QED
      BY <1>3, <2>1, <2>2, <2>3, <2>4, <2>5, <2>6, <2>7 DEF Call
  <1>4. CASE ProcessEvents
    <2>1. CASE TxWatchdog
      BY <2>1 DEF TxWatchdog
    <2>4. CASE SilenceFires \/ SilenceIdle
      BY <2>4 DEF SilenceFires, SilenceIdle
    <2>5. CASE Silenced
      BY <2>5 DEF Silenced
    <2>7. CASE NothingToRead
      BY <2>7 DEF NothingToRead
    <2>2. CASE ReadFlags \/ RxDoneEvent \/ TxDoneEvent
      BY <2>2 DEF ReadFlags, RxDoneEvent, TxDoneEvent
    <2>3. CASE RxTimeoutEvent \/ CadDoneEvent
      BY <2>3 DEF RxTimeoutEvent, CadDoneEvent
    <2>6. CASE AfterCad
      BY <2>6 DEF AfterCad, DriverReceives, SetMode
    <2>. QED
      BY <1>4, <2>1, <2>2, <2>3, <2>4, <2>5, <2>6, <2>7 DEF ProcessEvents
  <1>5. CASE OnDriverEvent
    BY <1>5 DEF OnDriverEvent, EventCallback, PacketCallback, TxDoneCallback, EventEnds
  <1>6. CASE UserReturns \/ SendLoop
    BY <1>6 DEF UserReturns, SendLoop, SendTurn, SendOK, SendTimeout, SendAgain,
                SendReturns
  <1>7. CASE Idle \/ UNCHANGED vars
    BY <1>7 DEF Idle, vars
  <1>. QED
    BY <1>1, <1>2, <1>3, <1>4, <1>5, <1>6, <1>7 DEF Next, Thread

LEMMA BooleansStep == Booleans /\ [Next]_vars => Booleans'
  <1>. SUFFICES ASSUME Booleans, [Next]_vars PROVE Booleans'
    OBVIOUS
  <1>. USE DEF Booleans, driverVars, fsmVars, history
  <1>1. CASE Chip \/ Tick
    BY <1>1 DEF Chip, Tick
  <1>2. CASE Call
    <2>1. CASE SetStandby \/ Send \/ Poll
      BY <2>1 DEF SetStandby, Send, Poll
    <2>2. ASSUME NEW c \in BOOLEAN, StartReceive(c)
          PROVE  Booleans'
      BY <2>2 DEF StartReceive, DriverReceives
    <2>3. ASSUME NEW auto \in BOOLEAN, StartCad(auto)
          PROVE  Booleans'
      BY <2>3 DEF StartCad
    <2>4. CASE End \/ Begin
      BY <2>4 DEF End, Ended, Begin
    <2>. QED
      BY <1>2, <2>1, <2>2, <2>3, <2>4 DEF Call
  <1>3. CASE ProcessEvents
    <2>1. CASE TxWatchdog \/ SilenceFires \/ SilenceIdle \/ Silenced
      BY <2>1, ZenonT(40) DEF TxWatchdog, SilenceFires, SilenceIdle, Silenced
    <2>2. CASE NothingToRead \/ ReadFlags \/ RxDoneEvent \/ TxDoneEvent
      BY <2>2, ZenonT(40) DEF NothingToRead, ReadFlags, RxDoneEvent, TxDoneEvent
    <2>3. CASE RxTimeoutEvent \/ CadDoneEvent \/ AfterCad
      BY <2>3 DEF RxTimeoutEvent, CadDoneEvent, AfterCad
    <2>. QED
      BY <1>3, <2>1, <2>2, <2>3 DEF ProcessEvents
  <1>4. CASE OnDriverEvent
    BY <1>4 DEF OnDriverEvent, EventCallback, PacketCallback, TxDoneCallback, EventEnds
  <1>5. CASE UserReturns \/ SendLoop
    BY <1>5 DEF UserReturns, SendLoop, SendTurn, SendOK, SendTimeout, SendAgain,
                SendReturns
  <1>6. CASE Idle \/ UNCHANGED vars
    BY <1>6 DEF Idle, vars
  <1>. QED
    BY <1>1, <1>2, <1>3, <1>4, <1>5, <1>6 DEF Next, Thread

(* Chip, driver, transceiver and a stack of any depth keep their types.      *)
THEOREM TypeCorrect == Spec => []TypeOK
  <1>1. Init => Types /\ Booleans
    <2>1. << >> \in Seq(Frames)
      BY EmptySeq
    <2>2. Init => Types
      BY <2>1 DEF Init, Types, Modes, IrqFlags
    <2>3. Init => Booleans
      BY DEF Init, Booleans
    <2>. QED
      BY <2>2, <2>3
  <1>2. Types /\ Booleans /\ [Next]_vars => (Types /\ Booleans)'
    BY TypesStep, BooleansStep
  <1>. QED
    BY <1>1, <1>2, TypeGroups, PTL DEF Spec

---------------------------------------------------------------------------
(* After end() *)

(* end() has taken the driver down and the user's callbacks with it; what    *)
(* frames it finds on the stack cannot put them back.                        *)
Down == /\ ~alive => closed
        /\ closed => ~alive /\ ~registered /\ mode \in {"Sleep", "Standby"}

LEMMA DownStep == Booleans /\ Down /\ [Next]_vars => Down'
  <1>. SUFFICES ASSUME Booleans, Down, [Next]_vars PROVE Down'
    OBVIOUS
  <1>. USE DEF Booleans, Down, chipVars, driverVars, fsmVars, history
  <1>1. CASE Chip
    BY <1>1 DEF Chip, ChipPacket, ChipRxTimeout, ChipTxDone, ChipCadDone
  <1>2. CASE Tick
    BY <1>2 DEF Tick
  <1>3. CASE Call
    <2>. USE DEF SetMode
    <2>1. CASE SetStandby \/ Send
      BY <2>1 DEF SetStandby, Send, Up
    <2>4. CASE Poll
      BY <2>4 DEF Poll
    <2>5. CASE End
      BY <2>5 DEF End, Ended
    <2>6. CASE Begin
      BY <2>6 DEF Begin
    <2>2. ASSUME NEW c \in BOOLEAN, StartReceive(c)
          PROVE  Down'
      BY <2>2 DEF StartReceive, Up
    <2>3. ASSUME NEW auto \in BOOLEAN, StartCad(auto)
          PROVE  Down'
      BY <2>3 DEF StartCad, Up
    <2>. QED
      BY <1>3, <2>1, <2>2, <2>3, <2>4, <2>5, <2>6 DEF Call
  <1>4. CASE ProcessEvents
    <2>1. CASE TxWatchdog \/ SilenceFires \/ SilenceIdle \/ Silenced \/ NothingToRead
      BY <2>1 DEF TxWatchdog, SilenceFires, SilenceIdle, Silenced, NothingToRead
    <2>2. CASE ReadFlags \/ RxDoneEvent \/ TxDoneEvent
      BY <2>2 DEF ReadFlags, RxDoneEvent, TxDoneEvent
    <2>3. CASE RxTimeoutEvent \/ CadDoneEvent
      BY <2>3 DEF RxTimeoutEvent, CadDoneEvent
    <2>4. CASE AfterCad
      BY <2>4 DEF AfterCad, AutoReceives
    <2>. QED
      BY <1>4, <2>1, <2>2, <2>3, <2>4 DEF ProcessEvents
  <1>5. CASE OnDriverEvent
    BY <1>5 DEF OnDriverEvent, EventCallback, PacketCallback, TxDoneCallback, EventEnds
  <1>6. CASE UserReturns \/ SendLoop
    BY <1>6 DEF UserReturns, SendLoop, SendTurn, SendOK, SendTimeout, SendAgain,
                SendReturns
  <1>7. CASE Idle \/ UNCHANGED vars
    BY <1>7 DEF Idle, vars
  <1>. QED
    BY <1>1, <1>2, <1>3, <1>4, <1>5, <1>6, <1>7 DEF Next, Thread

(* After end() the chip is left asleep or in standby, whatever frames of      *)
(* process_events() and send() still return: QuietAfterEnd.                  *)
THEOREM EndStopsTheRadio == Spec => []QuietAfterEnd
  <1>1. Init => Down
    BY DEF Init, Down
  <1>2. TypeOK /\ Down /\ [Next]_vars => Down'
    BY DownStep, TypeGroups
  <1>3. Down => QuietAfterEnd
    BY DEF Down, QuietAfterEnd
  <1>. QED
    BY <1>1, <1>2, <1>3, TypeCorrect, PTL DEF Spec

UserFrames == {f \in Frames : f.at = "user"}

LEMMA UserDepthsAreDeep ==
  ASSUME NEW s \in Seq(Frames)
  PROVE  UserDepths(s) = Deep(s, UserFrames)
  <1>1. Len(s) \in Nat
    BY LenProperties
  <1>2. \A d \in 0 .. Len(s) - 1 : s[Len(s) - d] \in Frames
    BY <1>1, ElementOfSeq
  <1>. QED
    BY <1>2 DEF UserDepths, Deep, UserFrames

LEMMA NoNewUserFrame ==
  Types /\ ~registered /\ StackStep => UserDepths(stack') \subseteq UserDepths(stack)
  <1>. SUFFICES ASSUME Types, ~registered, StackStep
                PROVE  Deep(stack', UserFrames) \subseteq Deep(stack, UserFrames)
    BY StackStays, UserDepthsAreDeep DEF Types
  <1>. USE DEF Types
  <1>0. \A f \in Frames : MayAdd(f) => f \notin UserFrames
    BY DEF MayAdd, UserFrames
  <1>1. CASE Rests
    BY <1>1 DEF Rests
  <1>2. ASSUME NEW f \in Frames, Pushes(f), MayAdd(f)
        PROVE  Deep(stack', UserFrames) \subseteq Deep(stack, UserFrames)
    BY <1>0, <1>2, DeepPushes DEF If
  <1>3. CASE stack # << >> /\ Moved(<< >>)
    BY <1>3, DeepReturns
  <1>4. ASSUME stack # << >>, NEW f \in Frames, Moved(<<f>>), MayAdd(f)
        PROVE  Deep(stack', UserFrames) \subseteq Deep(stack, UserFrames)
    BY <1>0, <1>4, DeepMoves DEF If
  <1>5. ASSUME stack # << >>, NEW f \in Frames, NEW h \in Frames, Moved(<<f, h>>),
               MayAdd(f), MayAdd(h)
        PROVE  Deep(stack', UserFrames) \subseteq Deep(stack, UserFrames)
    BY <1>0, <1>5, DeepCalls DEF If
  <1>. QED
    BY <1>1, <1>2, <1>3, <1>4, <1>5 DEF StackStep

(* No callback of the user starts after end(), also from frames that were     *)
(* running when a callback called it: NoCallbackAfterEnd.                     *)
THEOREM EndSilencesCallbacks == Spec => NoCallbackAfterEnd
  <1>1. Init => Down
    BY DEF Init, Down
  <1>2. TypeOK /\ Down /\ [Next]_vars => Down'
    BY DownStep, TypeGroups
  <1>3. TypeOK /\ Down /\ [Next]_vars
          => [closed => UserDepths(stack') \subseteq UserDepths(stack)]_vars
    BY EachStackStep, NoNewUserFrame, TypeGroups DEF Down
  <1>. QED
    BY <1>1, <1>2, <1>3, TypeCorrect, PTL DEF Spec, NoCallbackAfterEnd

---------------------------------------------------------------------------
(* send() and what its callbacks call *)

SendFrames == {f \in Frames : f.at \in {"while", "late"}}
Unsent == {f \in SendFrames : f.id \notin sent}
Others == {f \in SendFrames : f.id # carried}
Pending == {f \in Frames : f.at \in {"rx", "tx"} /\ "TxDone" \in f.got}

Numbered == sent \subseteq 0 .. calls /\ carried \in 0 .. calls

(* While no transmission has timed out and send() and end() have not been     *)
(* called inside a send(), there is one send() at most.  It is over for the   *)
(* driver only when its packet is out; that packet's TxDone is in one place,  *)
(* the chip's flags or the flags a frame has read and not come to yet; and it *)
(* cannot stay behind for the next send().                                    *)
Watched == txActive => ~due /\ Deep(stack, SendFrames) # {}
OverWhenSent == ~txActive => Deep(stack, Unsent) = {}
OwnPacket == mode = "Tx" => txActive /\ carried \notin sent /\ Deep(stack, Others) = {}
TxDoneIsOwn == "TxDone" \in flags \/ Deep(stack, Pending) # {}
                 => txActive /\ Deep(stack, Unsent) = {}
OneTxDone == /\ "TxDone" \in flags => Deep(stack, Pending) = {}
             /\ \A d, e \in Deep(stack, Pending) : d = e

SendInv == late = {} /\ ~nested =>
             /\ Watched /\ OverWhenSent /\ OwnPacket /\ TxDoneIsOwn /\ OneTxDone

LEMMA NumberedStep == Types /\ Numbered /\ [Next]_vars => Numbered'
  <1>. SUFFICES ASSUME Types, Numbered, [Next]_vars PROVE Numbered'
    OBVIOUS
  <1>. USE DEF Types, Numbered, chipVars, driverVars, history
  <1>1. CASE Chip
    <2>1. CASE ChipTxDone
      BY <1>1, <2>1 DEF Chip, ChipTxDone
    <2>2. CASE ~ChipTxDone
      BY <1>1, <2>2 DEF Chip, ChipPacket, ChipRxTimeout, ChipCadDone
    <2>. QED
      BY <2>1, <2>2
  <1>2. CASE Tick
    BY <1>2 DEF Tick
  <1>3. CASE Call
    <2>. USE DEF Calling, SetMode
    <2>1. CASE SetStandby
      BY <2>1 DEF SetStandby
    <2>5. CASE Send
      BY <2>5 DEF Send
    <2>6. CASE Poll
      BY <2>6 DEF Poll
    <2>2. ASSUME NEW c \in BOOLEAN, StartReceive(c)
          PROVE  Numbered'
      BY <2>2 DEF StartReceive, DriverReceives
    <2>3. ASSUME NEW auto \in BOOLEAN, StartCad(auto)
          PROVE  Numbered'
      BY <2>3 DEF StartCad
    <2>4. CASE End
      BY <2>4 DEF End
    <2>7. CASE Begin
      BY <2>7 DEF Begin
    <2>. QED
      BY <1>3, <2>1, <2>2, <2>3, <2>4, <2>5, <2>6, <2>7 DEF Call
  <1>4. CASE ProcessEvents
    <2>1. CASE TxWatchdog
      BY <2>1 DEF TxWatchdog
    <2>4. CASE SilenceFires \/ SilenceIdle
      BY <2>4 DEF SilenceFires, SilenceIdle
    <2>5. CASE Silenced
      BY <2>5 DEF Silenced
    <2>7. CASE NothingToRead
      BY <2>7 DEF NothingToRead
    <2>2. CASE ReadFlags \/ RxDoneEvent \/ TxDoneEvent
      BY <2>2 DEF ReadFlags, RxDoneEvent, TxDoneEvent
    <2>3. CASE RxTimeoutEvent \/ CadDoneEvent
      BY <2>3 DEF RxTimeoutEvent, CadDoneEvent
    <2>6. CASE AfterCad
      BY <2>6 DEF AfterCad, DriverReceives, SetMode
    <2>. QED
      BY <1>4, <2>1, <2>2, <2>3, <2>4, <2>5, <2>6, <2>7 DEF ProcessEvents
  <1>5. CASE OnDriverEvent
    BY <1>5 DEF OnDriverEvent, EventCallback, PacketCallback, TxDoneCallback, EventEnds
  <1>6. CASE UserReturns \/ SendLoop
    BY <1>6 DEF UserReturns, SendLoop, SendTurn, SendOK, SendTimeout, SendAgain,
                SendReturns
  <1>7. CASE Idle \/ UNCHANGED vars
    BY <1>7 DEF Idle, vars
  <1>. QED
    BY <1>1, <1>2, <1>3, <1>4, <1>5, <1>6, <1>7 DEF Next, Thread

(* The sets of frames SendInv is about, and how a step keeps their depths.   *)
Tracked(F) == F \in {SendFrames, Unsent, Others, Pending}

Quiet == \A F : Tracked(F) => Deep(stack', F) = Deep(stack, F)

LEMMA TrackedAts ==
  ASSUME NEW F, Tracked(F)
  PROVE  /\ \A f \in F : f.at \in {"while", "late", "rx", "tx"}
         /\ \A f, h \in Frames : f.at \in {"while", "late"} /\ h.at \in {"while", "late"}
                                   /\ f.id = h.id => (f \in F <=> h \in F)
         /\ \A f, h \in Frames : f.at \in {"rx", "tx"} /\ h.at \in {"rx", "tx"}
                                   /\ f.got = h.got => (f \in F <=> h \in F)
         /\ \A f \in Frames : f.at \in {"rx", "tx"} /\ "TxDone" \notin f.got => f \notin F
  BY DEF Tracked, SendFrames, Unsent, Others, Pending

LEMMA NewNotTracked ==
  ASSUME NEW F, Tracked(F)
  PROVE  /\ \A p \in Places \ {"while", "late", "rx", "tx"} : Frame(p) \notin F
         /\ \A e \in Events : EventFrame(e) \notin F
         /\ \A n \in Nat : UserFrame(n) \notin F
  BY TrackedAts, FrameAts

LEMMA QuietRests == Rests => Quiet
  BY DEF Rests, Quiet, Deep

LEMMA QuietMoves ==
  ASSUME Types, stack # << >>, NEW h, Moved(<<h>>),
         \A F : Tracked(F) => (h \in F <=> Top \in F)
  PROVE  Quiet
  <1>1. ASSUME NEW F, Tracked(F) PROVE Deep(stack', F) = Deep(stack, F)
    <2>1. Deep(stack', F) = (Deep(stack, F) \ {TopDepth}) \cup If(h, F, TopDepth)
      BY DeepMoves DEF Types
    <2>2. TopDepth \in Deep(stack, F) <=> Top \in F
      BY DeepTop DEF Types
    <2>. QED
      BY <1>1, <2>1, <2>2 DEF If
  <1>. QED
    BY <1>1 DEF Quiet

LEMMA QuietCalls ==
  ASSUME Types, stack # << >>, NEW f, NEW h, Moved(<<f, h>>),
         \A F : Tracked(F) => f \notin F /\ (h \in F <=> Top \in F)
  PROVE  Quiet
  <1>1. ASSUME NEW F, Tracked(F) PROVE Deep(stack', F) = Deep(stack, F)
    <2>1. Deep(stack', F) = (Deep(stack, F) \ {TopDepth}) \cup If(h, F, TopDepth)
                             \cup If(f, F, TopDepth + 1)
      BY DeepCalls DEF Types
    <2>2. TopDepth \in Deep(stack, F) <=> Top \in F
      BY DeepTop DEF Types
    <2>. QED
      BY <1>1, <2>1, <2>2 DEF If
  <1>. QED
    BY <1>1 DEF Quiet

LEMMA QuietReturns ==
  ASSUME Types, stack # << >>, Return, \A F : Tracked(F) => Top \notin F
  PROVE  Quiet
  <1>1. ASSUME NEW F, Tracked(F) PROVE Deep(stack', F) = Deep(stack, F)
    <2>1. Deep(stack', F) = Deep(stack, F) \ {TopDepth}
      BY ReturnMoves, DeepReturns DEF Types
    <2>2. TopDepth \in Deep(stack, F) <=> Top \in F
      BY DeepTop DEF Types
    <2>. QED
      BY <1>1, <2>1, <2>2
  <1>. QED
    BY <1>1 DEF Quiet

(* Places no tracked frame is at. *)
Plain == Places \ {"while", "late", "rx", "tx"}

LEMMA QuietPlain ==
  ASSUME Types, NEW p \in Plain, NEW q \in Plain, At(p),
         \/ GoTo(q)
         \/ \E e \in Events : CallThen(Emitted(e), q)
         \/ \E n \in Nat : CallThen(Invoked(n), q)
         \/ CallThen(<< >>, q)
         \/ Return
  PROVE  Quiet
  <1>. USE AtFrame DEF Types
  <1>1. /\ stack # << >> /\ q \in Places /\ Here(q).at = q /\ Here(q) \in Frames
        /\ Top.at = p
    BY HereIsFrame DEF Plain
  <1>2. \A F : Tracked(F) => Here(q) \notin F /\ Top \notin F
    BY <1>1, TrackedAts DEF Plain
  <1>3. CASE GoTo(q) \/ CallThen(<< >>, q)
    <2>1. Moved(<<Here(q)>>)
      BY <1>1, <1>3, GoToMoves, NoCallMoves
    <2>. QED
      BY <1>1, <1>2, <2>1, QuietMoves
  <1>4. ASSUME NEW e \in Events, CallThen(Emitted(e), q)
        PROVE  Quiet
    <2>1. IF alive' THEN Moved(<<EventFrame(e), Here(q)>>) ELSE Moved(<<Here(q)>>)
      BY <1>1, <1>4, EmitMoves
    <2>2. \A F : Tracked(F) => EventFrame(e) \notin F
      BY NewNotTracked
    <2>3. CASE alive'
      BY <1>1, <1>2, <2>1, <2>2, <2>3, QuietCalls
    <2>4. CASE ~alive'
      BY <1>1, <1>2, <2>1, <2>4, QuietMoves
    <2>. QED
      BY <2>3, <2>4
  <1>5. ASSUME NEW n \in Nat, CallThen(Invoked(n), q)
        PROVE  Quiet
    <2>1. IF registered THEN Moved(<<UserFrame(n), Here(q)>>) ELSE Moved(<<Here(q)>>)
      BY <1>1, <1>5, InvokeMoves
    <2>2. \A F : Tracked(F) => UserFrame(n) \notin F
      BY NewNotTracked
    <2>3. CASE registered
      BY <1>1, <1>2, <2>1, <2>2, <2>3, QuietCalls
    <2>4. CASE ~registered
      BY <1>1, <1>2, <2>1, <2>4, QuietMoves
    <2>. QED
      BY <2>3, <2>4
  <1>6. CASE Return
    BY <1>1, <1>2, <1>6, QuietReturns
  <1>. QED
    BY <1>3, <1>4, <1>5, <1>6

LEMMA QuietPoll == Types /\ Poll => Quiet
  <1>. SUFFICES ASSUME Types, Poll, NEW F, Tracked(F)
                PROVE  Deep(stack', F) = Deep(stack, F)
    BY DEF Quiet
  <1>1. Frame("watchdog") \in Frames /\ Frame("watchdog") \notin F
    BY FramesAreFrames, NewNotTracked DEF Places
  <1>2. Pushes(Frame("watchdog"))
    BY <1>1, PushMoves DEF Poll, Types
  <1>. QED
    BY <1>1, <1>2, DeepPushes, ZenonT(40) DEF Types, If

(* From one place of process_events() to the next, or of send()'s loop.       *)
LEMMA QuietGoTo ==
  ASSUME Types, NEW p, NEW q \in Places, At(p), GoTo(q),
         \/ p \in {"while", "late"} /\ q \in {"while", "late"}
         \/ p \in {"rx", "tx"} /\ q \in {"rx", "tx"}
         \/ p = "tx" /\ "TxDone" \notin Top.got /\ q \in Plain
  PROVE  Quiet
  <1>1. /\ stack \in Seq(Frames) /\ stack # << >> /\ Top \in Frames /\ Top.at = p
        /\ Here(q) \in Frames /\ Here(q).at = q
        /\ Here(q).id = Top.id /\ Here(q).got = Top.got
    BY AtFrame, HereIsFrame
  <1>2. Moved(<<Here(q)>>)
    BY <1>1, GoToMoves
  <1>3. \A F : Tracked(F) => (Here(q) \in F <=> Top \in F)
    BY <1>1, TrackedAts DEF Plain
  <1>. QED
    BY <1>1, <1>2, <1>3, QuietMoves

LEMMA QuietRxDone == Types /\ RxDoneEvent => Quiet
  <1>. SUFFICES ASSUME Types, RxDoneEvent PROVE Quiet
    OBVIOUS
  <1>1. /\ stack \in Seq(Frames) /\ stack # << >> /\ Top \in Frames /\ Top.at = "rx"
        /\ Here("tx") \in Frames /\ Here("tx").at = "tx" /\ Here("tx").got = Top.got
    BY AtFrame, HereIsFrame DEF RxDoneEvent, Places
  <1>2. \A F : Tracked(F) => EventFrame("RxDone") \notin F
                             /\ (Here("tx") \in F <=> Top \in F)
    BY <1>1, TrackedAts, NewNotTracked DEF Events
  <1>3. CASE "RxDone" \in Top.got
    <2>1. CallThen(Emitted("RxDone"), "tx")
      BY <1>3 DEF RxDoneEvent
    <2>2. IF alive' THEN Moved(<<EventFrame("RxDone"), Here("tx")>>)
                    ELSE Moved(<<Here("tx")>>)
      BY <1>1, <2>1, EmitMoves DEF Places, Events
    <2>3. CASE alive'
      BY <1>1, <1>2, <2>2, <2>3, QuietCalls
    <2>4. CASE ~alive'
      BY <1>1, <1>2, <2>2, <2>4, QuietMoves
    <2>. QED
      BY <2>3, <2>4
  <1>4. CASE "RxDone" \notin Top.got
    BY <1>4, QuietGoTo DEF RxDoneEvent, Places
  <1>. QED
    BY <1>3, <1>4

LEMMA QuietProcess ==
  Types /\ ProcessEvents /\ ~ReadFlags /\ ~TxDoneEvent => Quiet
  <1>. SUFFICES ASSUME Types, ProcessEvents, ~ReadFlags, ~TxDoneEvent PROVE Quiet
    OBVIOUS
  <1>. USE DEF Plain, Places, Events
  <1>1. CASE TxWatchdog
    BY <1>1, QuietPlain DEF TxWatchdog
  <1>2. CASE SilenceFires
    BY <1>2, QuietPlain DEF SilenceFires
  <1>3. CASE SilenceIdle \/ Silenced
    BY <1>3, QuietPlain DEF SilenceIdle, Silenced
  <1>4. CASE NothingToRead
    BY <1>4, QuietPlain DEF NothingToRead
  <1>5. CASE RxTimeoutEvent
    BY <1>5, QuietPlain DEF RxTimeoutEvent
  <1>6. CASE CadDoneEvent
    BY <1>6, QuietPlain DEF CadDoneEvent
  <1>7. CASE AfterCad
    BY <1>7, QuietPlain DEF AfterCad
  <1>. QED
    BY <1>1, <1>2, <1>3, <1>4, <1>5, <1>6, <1>7, QuietRxDone DEF ProcessEvents

LEMMA QuietTxDoneCallback == Types /\ TxDoneCallback => Quiet
  <1>. SUFFICES ASSUME Types, TxDoneCallback PROVE Quiet
    OBVIOUS
  <1>1. stack \in Seq(Frames) /\ stack # << >> /\ Top.at = "switch"
    BY AtFrame DEF TxDoneCallback
  <1>2. \A F : Tracked(F) => Top \notin F /\ UserFrame(0) \notin F
    BY <1>1, TrackedAts, NewNotTracked
  <1>3. CASE registered
    <2>1. UserFrame(0) \in Frames /\ stack' = <<UserFrame(0)>> \o Tail(stack)
      BY <1>3, FramesAreFrames DEF TxDoneCallback, Invoked
    <2>. QED
      BY <1>1, <1>2, <2>1, ReplaceMoves, QuietMoves
  <1>4. CASE ~registered
    <2>1. << >> \o Tail(stack) = Tail(stack)
      BY <1>1, HeadTailProperties, ConcatEmptySeq
    <2>2. Return
      BY <1>4, <2>1 DEF TxDoneCallback, Invoked, Return
    <2>. QED
      BY <1>1, <1>2, <2>2, QuietReturns
  <1>. QED
    BY <1>3, <1>4

LEMMA QuietCallbacks == Types /\ (OnDriverEvent \/ UserReturns) => Quiet
  <1>. SUFFICES ASSUME Types, OnDriverEvent \/ UserReturns PROVE Quiet
    OBVIOUS
  <1>. USE DEF Plain, Places
  <1>0. packets \in Nat /\ 0 \in Nat
    BY DEF Types
  <1>1. CASE EventCallback
    BY <1>0, <1>1, QuietPlain DEF EventCallback
  <1>2. CASE PacketCallback
    BY <1>0, <1>2, QuietPlain DEF PacketCallback
  <1>3. CASE EventEnds
    <2>1. CASE At("end-rx")
      BY <1>3, <2>1, QuietPlain DEF EventEnds
    <2>2. CASE At("switch")
      BY <1>3, <2>2, QuietPlain DEF EventEnds
    <2>. QED
      BY <1>3, <2>1, <2>2 DEF EventEnds
  <1>4. CASE UserReturns
    BY <1>4, QuietPlain DEF UserReturns
  <1>. QED
    BY <1>1, <1>2, <1>3, <1>4, QuietTxDoneCallback DEF OnDriverEvent

LEMMA QuietLoop == Types /\ (SendTurn \/ SendAgain) => Quiet
  <1>. SUFFICES ASSUME Types, SendTurn \/ SendAgain PROVE Quiet
    OBVIOUS
  <1>1. CASE SendTurn
    <2>1. /\ stack \in Seq(Frames) /\ stack # << >> /\ Top \in Frames /\ Top.at = "while"
          /\ Here("late") \in Frames /\ Here("late").at = "late"
          /\ Here("late").id = Top.id
      BY <1>1, AtFrame, HereIsFrame DEF SendTurn, Places
    <2>2. \A F : Tracked(F) => Frame("watchdog") \notin F
                               /\ (Here("late") \in F <=> Top \in F)
      BY <2>1, TrackedAts, NewNotTracked DEF Places
    <2>3. Moved(<<Frame("watchdog"), Here("late")>>)
      BY <1>1, <2>1, TurnMoves DEF SendTurn
    <2>. QED
      BY <2>1, <2>2, <2>3, QuietCalls
  <1>2. CASE SendAgain
    BY <1>2, QuietGoTo DEF SendAgain, Places
  <1>. QED
    BY <1>1, <1>2

(* A step that neither moves the frames of send() nor brings TxDone.         *)
Harmless == /\ sent' = sent /\ late' = late /\ nested' = nested
            /\ txActive' = txActive /\ due' = due
            /\ "TxDone" \in flags' => "TxDone" \in flags
            /\ mode' = "Tx" => mode = "Tx" /\ carried' = carried

LEMMA HarmlessKeeps == SendInv /\ Quiet /\ Harmless => SendInv'
  <1>. SUFFICES ASSUME SendInv, Quiet, Harmless, late = {}, ~nested
                PROVE  (Watched /\ OverWhenSent /\ OwnPacket /\ TxDoneIsOwn /\ OneTxDone)'
    BY DEF SendInv, Harmless
  <1>1. /\ Watched /\ OverWhenSent /\ OwnPacket /\ TxDoneIsOwn /\ OneTxDone
    BY DEF SendInv
  <1>2. /\ Deep(stack', SendFrames) = Deep(stack, SendFrames)
        /\ Deep(stack', Unsent) = Deep(stack, Unsent)
        /\ Deep(stack', Others) = Deep(stack, Others)
        /\ Deep(stack', Pending) = Deep(stack, Pending)
    BY DEF Quiet, Tracked
  <1>3. Unsent' = Unsent /\ (carried' = carried => Others' = Others)
    BY DEF Harmless, Unsent, Others, SendFrames
  <1>4. Watched' /\ OverWhenSent' /\ TxDoneIsOwn' /\ OneTxDone'
    BY <1>1, <1>2, <1>3 DEF Harmless, Watched, OverWhenSent, TxDoneIsOwn, OneTxDone
  <1>5. OwnPacket'
    BY <1>1, <1>2, <1>3 DEF Harmless, OwnPacket
  <1>. QED
    BY <1>4, <1>5

LEMMA SendsAreDeep == Types => (Sends # {} <=> Deep(stack, SendFrames) # {})
  <1>. SUFFICES ASSUME Types PROVE Sends # {} <=> Deep(stack, SendFrames) # {}
    OBVIOUS
  <1>1. /\ Len(stack) \in Nat
        /\ \A i \in 1 .. Len(stack) : stack[i] \in Frames
    BY LenProperties, ElementOfSeq DEF Types
  <1>2. ASSUME NEW i \in Sends PROVE Len(stack) - i \in Deep(stack, SendFrames)
    <2>1. /\ i \in 1 .. Len(stack) /\ Len(stack) - (Len(stack) - i) = i
          /\ Len(stack) - i \in 0 .. Len(stack) - 1
          /\ stack[i].at \in {"while", "late"}
      BY <1>1 DEF Sends
    <2>. QED
      BY <1>1, <2>1 DEF Deep, SendFrames
  <1>3. ASSUME NEW d \in Deep(stack, SendFrames) PROVE Len(stack) - d \in Sends
    <2>1. /\ d \in 0 .. Len(stack) - 1 /\ Len(stack) - d \in 1 .. Len(stack)
          /\ stack[Len(stack) - d] \in SendFrames
      BY <1>1 DEF Deep
    <2>. QED
      BY <2>1 DEF Sends, SendFrames
  <1>. QED
    BY <1>2, <1>3

(* The packet on the air is that of the one send(), which waits for it.      *)
LEMMA OnTheAir ==
  Watched /\ OwnPacket /\ mode = "Tx" => Deep(stack, Unsent) # {}
  <1>. SUFFICES ASSUME Watched, OwnPacket, mode = "Tx" PROVE Deep(stack, Unsent) # {}
    OBVIOUS
  <1>1. PICK d \in Deep(stack, SendFrames) : TRUE
    BY DEF Watched, OwnPacket
  <1>2. d \in 0 .. Len(stack) - 1 /\ stack[Len(stack) - d] \in SendFrames
    BY DEF Deep
  <1>3. stack[Len(stack) - d] \notin Others
    BY <1>2 DEF OwnPacket, Deep
  <1>. QED
    BY <1>2, <1>3 DEF OwnPacket, Others, Unsent, Deep

LEMMA UnsentAreSends ==
  Deep(stack, Unsent) \subseteq Deep(stack, SendFrames)
  BY DEF Deep, Unsent

LEMMA SendChip == Types /\ SendInv /\ Chip => SendInv'
  <1>. SUFFICES ASSUME Types, SendInv, Chip PROVE SendInv'
    OBVIOUS
  <1>0. Quiet
    BY QuietRests DEF Chip, Rests
  <1>1. CASE ChipPacket
    BY <1>0, <1>1, HarmlessKeeps DEF Chip, ChipPacket, Harmless, driverVars
  <1>2. CASE ChipRxTimeout
    BY <1>0, <1>2, HarmlessKeeps DEF Chip, ChipRxTimeout, Harmless, driverVars
  <1>3. CASE ChipCadDone
    BY <1>0, <1>3, HarmlessKeeps DEF Chip, ChipCadDone, Harmless, driverVars
  <1>4. CASE ChipTxDone
    <2>. SUFFICES ASSUME late = {}, ~nested
                  PROVE  (Watched /\ OverWhenSent /\ OwnPacket /\ TxDoneIsOwn
                            /\ OneTxDone)'
      BY DEF SendInv, Chip
    <2>1. Watched /\ OverWhenSent /\ OwnPacket /\ TxDoneIsOwn /\ OneTxDone
      BY DEF SendInv
    <2>2. /\ mode = "Tx" /\ mode' = "Standby" /\ flags' = flags \cup {"TxDone"}
          /\ sent' = sent \cup {carried} /\ stack' = stack
          /\ txActive' = txActive /\ due' = due
      BY <1>4 DEF ChipTxDone, Chip, driverVars
    <2>3. Deep(stack, Unsent) # {}
      BY <2>1, <2>2, OnTheAir
    <2>4. Deep(stack, Pending) = {}
      BY <2>1, <2>3 DEF TxDoneIsOwn
    <2>5. Deep(stack, Unsent') = {}
      <3>1. Unsent' \subseteq Others
        BY <2>2 DEF Unsent, Others, SendFrames
      <3>2. Deep(stack, Others) = {}
        BY <2>1, <2>2 DEF OwnPacket
      <3>. QED
        BY <3>1, <3>2 DEF Deep
    <2>. QED
      BY <2>1, <2>2, <2>4, <2>5
         DEF Watched, OverWhenSent, OwnPacket, TxDoneIsOwn, OneTxDone
  <1>. QED
    BY <1>1, <1>2, <1>3, <1>4 DEF Chip

LEMMA SendTick == Types /\ SendInv /\ Tick => SendInv'
  <1>. SUFFICES ASSUME Types, SendInv, Tick PROVE SendInv'
    OBVIOUS
  <1>0. Quiet
    BY QuietRests DEF Tick, Rests
  <1>1. CASE silence = "running" /\ silence' = "over" /\ UNCHANGED <<due, late>>
    BY <1>0, <1>1, HarmlessKeeps DEF Tick, Harmless, chipVars
  <1>2. CASE ~due /\ due' = TRUE /\ late' = late \cup {stack[i].id : i \in Sends}
    <2>. SUFFICES ASSUME late' = {}, ~nested
                  PROVE  (Watched /\ OverWhenSent /\ OwnPacket /\ TxDoneIsOwn
                            /\ OneTxDone)'
      BY DEF SendInv, Tick
    <2>1. late = {} /\ Sends = {}
      BY <1>2
    <2>2. Watched /\ OverWhenSent /\ OwnPacket /\ TxDoneIsOwn /\ OneTxDone
      BY <2>1 DEF SendInv
    <2>3. ~txActive
      BY <2>1, <2>2, SendsAreDeep DEF Watched
    <2>4. /\ sent' = sent /\ stack' = stack /\ txActive' = txActive
          /\ flags' = flags /\ mode' = mode /\ carried' = carried
      BY DEF Tick, chipVars
    <2>. QED
      BY <2>2, <2>3, <2>4 DEF Watched, OverWhenSent, OwnPacket, TxDoneIsOwn, OneTxDone,
                              SendFrames, Unsent, Others, Pending, Deep
  <1>. QED
    BY <1>1, <1>2 DEF Tick

LEMMA SendCalls == Types /\ Numbered /\ SendInv /\ Call => SendInv'
  <1>. SUFFICES ASSUME Types, Numbered, SendInv, Call PROVE SendInv'
    OBVIOUS
  <1>0. Rests => Quiet
    BY QuietRests
  <1>1. CASE SetStandby
    BY <1>0, <1>1, HarmlessKeeps DEF SetStandby, SetMode, Harmless, Rests, driverVars
  <1>2. ASSUME NEW c \in BOOLEAN, StartReceive(c) PROVE SendInv'
    BY <1>0, <1>2, HarmlessKeeps DEF StartReceive, DriverReceives, SetMode, Harmless, Rests
  <1>3. ASSUME NEW auto \in BOOLEAN, StartCad(auto) PROVE SendInv'
    BY <1>0, <1>3, HarmlessKeeps DEF StartCad, SetMode, Harmless, Rests
  <1>4. CASE Poll
    BY <1>4, QuietPoll, HarmlessKeeps DEF Poll, Harmless, chipVars, driverVars, history
  <1>5. CASE Begin
    BY <1>0, <1>5, HarmlessKeeps DEF Begin, SetMode, Harmless, Rests
  <1>6. CASE End
    <2>. SUFFICES ASSUME late = {}, ~nested, Sends = {}
                  PROVE  (Watched /\ OverWhenSent /\ OwnPacket /\ TxDoneIsOwn
                            /\ OneTxDone)'
      BY <1>6 DEF SendInv, End
    <2>1. Watched /\ OverWhenSent /\ OwnPacket /\ TxDoneIsOwn /\ OneTxDone
      BY DEF SendInv
    <2>2. Deep(stack, SendFrames) = {} /\ Deep(stack, Unsent) = {} /\ ~txActive
      BY <2>1, SendsAreDeep, UnsentAreSends DEF Watched
    <2>3. "TxDone" \notin flags /\ Deep(stack, Pending) = {} /\ mode # "Tx"
      BY <2>1, <2>2 DEF OwnPacket, TxDoneIsOwn
    <2>4. /\ ~txActive' /\ flags' = flags /\ stack' = stack /\ sent' = sent
          /\ mode' # "Tx"
      BY <1>6, <2>3 DEF End, SetMode
    <2>. QED
      BY <2>2, <2>3, <2>4 DEF Watched, OverWhenSent, OwnPacket, TxDoneIsOwn, OneTxDone,
                              SendFrames, Unsent, Pending, Deep
  <1>7. CASE Send
    <2>. SUFFICES ASSUME late = {}, ~nested, Sends = {}
                  PROVE  (Watched /\ OverWhenSent /\ OwnPacket /\ TxDoneIsOwn
                            /\ OneTxDone)'
      BY <1>7 DEF SendInv, Send
    <2>. DEFINE f == SendFrame(calls')
    <2>1. Watched /\ OverWhenSent /\ OwnPacket /\ TxDoneIsOwn /\ OneTxDone
      BY DEF SendInv
    <2>2. Deep(stack, SendFrames) = {} /\ Deep(stack, Unsent) = {} /\ ~txActive
      BY <2>1, SendsAreDeep, UnsentAreSends DEF Watched
    <2>3. "TxDone" \notin flags /\ Deep(stack, Pending) = {}
      BY <2>1, <2>2 DEF TxDoneIsOwn
    <2>4. /\ txActive' /\ due' = FALSE /\ flags' = flags /\ sent' = sent
          /\ calls' = calls + 1 /\ carried' = calls'
          /\ stack' = <<f>> \o stack
      BY <1>7 DEF Send, Calling, SetMode
    <2>5. carried' \notin sent'
      BY <2>4 DEF Numbered, Types
    <2>6. f \in Frames /\ f.at = "while" /\ f.got = {} /\ f.id = carried'
      BY <2>4, FramesAreFrames, FrameAts DEF Types
    <2>7. Pushes(f)
      BY <2>4, <2>6, PushMoves DEF Types
    <2>8. /\ Deep(stack', SendFrames) = Deep(stack, SendFrames) \cup {Len(stack)}
          /\ Deep(stack', Pending) = Deep(stack, Pending)
          /\ Deep(stack', Others') = Deep(stack, Others')
      <3>1. \A F : Deep(stack', F) = Deep(stack, F) \cup If(f, F, Len(stack))
        BY <2>7, DeepPushes DEF Types
      <3>2. f \in SendFrames /\ f \notin Pending /\ f \notin Others'
        BY <2>6 DEF SendFrames, Pending, Others
      <3>. QED
        BY <3>1, <3>2 DEF If
    <2>9. Deep(stack, Others') = {}
      BY <2>2 DEF Deep, Others
    <2>. QED
      BY <2>3, <2>4, <2>5, <2>8, <2>9
         DEF Watched, OverWhenSent, OwnPacket, TxDoneIsOwn, OneTxDone
  <1>. QED
    BY <1>1, <1>2, <1>3, <1>4, <1>5, <1>6, <1>7 DEF Call

LEMMA SendReads == Types /\ SendInv /\ ReadFlags => SendInv'
  <1>. SUFFICES ASSUME Types, SendInv, ReadFlags, late = {}, ~nested
                PROVE  (Watched /\ OverWhenSent /\ OwnPacket /\ TxDoneIsOwn
                          /\ OneTxDone)'
    BY DEF SendInv, ReadFlags, history
  <1>. DEFINE h == [Here("rx") EXCEPT !.got = flags]
  <1>1. Watched /\ OverWhenSent /\ OwnPacket /\ TxDoneIsOwn /\ OneTxDone
    BY DEF SendInv
  <1>2. stack \in Seq(Frames) /\ stack # << >> /\ Top \in Frames /\ Top.at = "read"
    BY AtFrame DEF ReadFlags
  <1>3. h \in Frames /\ h.at = "rx" /\ h.got = flags
    <2>1. Here("rx") \in Frames /\ Here("rx").at = "rx" /\ flags \in SUBSET IrqFlags
      BY <1>2, HereIsFrame DEF Types, Places
    <2>. QED
      BY <2>1 DEF Frames
  <1>4. Moved(<<h>>)
    BY <1>2, <1>3, ReplaceMoves DEF ReadFlags
  <1>5. /\ Deep(stack', SendFrames) = Deep(stack, SendFrames)
        /\ Deep(stack', Unsent) = Deep(stack, Unsent)
        /\ Deep(stack', Others) = Deep(stack, Others)
        /\ Deep(stack', Pending) = Deep(stack, Pending) \cup If(h, Pending, TopDepth)
    <2>1. ASSUME NEW F, Tracked(F)
          PROVE  Deep(stack', F) = Deep(stack, F) \cup If(h, F, TopDepth)
      <3>1. Deep(stack', F) = (Deep(stack, F) \ {TopDepth}) \cup If(h, F, TopDepth)
        BY <1>2, <1>4, DeepMoves
      <3>2. Top \notin F
        BY <1>2, <2>1, TrackedAts
      <3>3. TopDepth \notin Deep(stack, F)
        BY <1>2, <3>2, DeepTop
      <3>. QED
        BY <3>1, <3>3
    <2>2. h \notin SendFrames /\ h \notin Unsent /\ h \notin Others
      BY <1>3 DEF SendFrames, Unsent, Others
    <2>. QED
      BY <2>1, <2>2 DEF Tracked, If
  <1>6. h \in Pending <=> "TxDone" \in flags
    BY <1>3 DEF Pending
  <1>7. /\ txActive' = txActive /\ due' = due /\ flags' = {} /\ sent' = sent
        /\ mode' = mode /\ carried' = carried
        /\ Unsent' = Unsent /\ Others' = Others
    BY DEF ReadFlags, driverVars, history, Unsent, Others, SendFrames
  <1>. QED
    BY <1>1, <1>5, <1>6, <1>7
       DEF Watched, OverWhenSent, OwnPacket, TxDoneIsOwn, OneTxDone, If

LEMMA SendTxDone == Types /\ SendInv /\ TxDoneEvent => SendInv'
  <1>. SUFFICES ASSUME Types, SendInv, TxDoneEvent PROVE SendInv'
    OBVIOUS
  <1>1. CASE "TxDone" \notin Top.got
    <2>1. Quiet
      BY <1>1, QuietGoTo DEF TxDoneEvent, Plain, Places
    <2>2. Harmless
      BY <1>1 DEF TxDoneEvent, Harmless, chipVars, history
    <2>. QED
      BY <2>1, <2>2, HarmlessKeeps
  <1>2. CASE "TxDone" \in Top.got
    <2>. SUFFICES ASSUME late = {}, ~nested
                  PROVE  (Watched /\ OverWhenSent /\ OwnPacket /\ TxDoneIsOwn
                            /\ OneTxDone)'
      BY DEF SendInv, TxDoneEvent, history
    <2>. DEFINE f == EventFrame("TxDone")
                h == Here("timeout")
    <2>1. Watched /\ OverWhenSent /\ OwnPacket /\ TxDoneIsOwn /\ OneTxDone
      BY DEF SendInv
    <2>2. stack \in Seq(Frames) /\ stack # << >> /\ Top \in Frames /\ Top.at = "tx"
      BY AtFrame DEF TxDoneEvent
    <2>3. /\ h \in Frames /\ h.at = "timeout" /\ f \in Frames /\ f.at = "event"
      BY <2>2, HereIsFrame, FramesAreFrames, FrameAts DEF Places, Events
    <2>4. IF alive' THEN Moved(<<f, h>>) ELSE Moved(<<h>>)
      BY <1>2, <2>2, EmitMoves DEF TxDoneEvent, Places, Events
    <2>5. ASSUME NEW F, Tracked(F)
          PROVE  Deep(stack', F) = Deep(stack, F) \ {TopDepth}
      <3>1. f \notin F /\ h \notin F
        BY <2>3, <2>5, TrackedAts
      <3>2. CASE alive'
        BY <2>2, <2>4, <3>1, <3>2, DeepCalls DEF If
      <3>3. CASE ~alive'
        BY <2>2, <2>4, <3>1, <3>3, DeepMoves DEF If
      <3>. QED
        BY <3>2, <3>3
    <2>6. TopDepth \in Deep(stack, Pending)
      BY <1>2, <2>2, DeepTop DEF Pending
    <2>7. /\ "TxDone" \notin flags /\ txActive /\ Deep(stack, Unsent) = {}
          /\ Deep(stack, Pending) \ {TopDepth} = {}
      BY <2>1, <2>6 DEF TxDoneIsOwn, OneTxDone
    <2>8. mode # "Tx"
      BY <2>1, <2>7, OnTheAir
    <2>9. /\ ~txActive' /\ flags' = flags /\ sent' = sent /\ mode' = mode
          /\ Unsent' = Unsent
      BY <1>2 DEF TxDoneEvent, chipVars, history, Unsent, SendFrames
    <2>10. Deep(stack', Unsent) = {} /\ Deep(stack', Pending) = {}
      BY <2>5, <2>7 DEF Tracked
    <2>. QED
      BY <2>7, <2>8, <2>9, <2>10
         DEF Watched, OverWhenSent, OwnPacket, TxDoneIsOwn, OneTxDone
  <1>. QED
    BY <1>1, <1>2

LEMMA SendEvents == Types /\ SendInv /\ ProcessEvents => SendInv'
  <1>. SUFFICES ASSUME Types, SendInv, ProcessEvents PROVE SendInv'
    OBVIOUS
  <1>1. CASE ReadFlags \/ TxDoneEvent
    BY <1>1, SendReads, SendTxDone
  <1>2. CASE ~ReadFlags /\ ~TxDoneEvent
    <2>. USE DEF Harmless, chipVars, driverVars, history
    <2>0. Quiet
      BY <1>2, QuietProcess
    <2>1. CASE TxWatchdog
      <3>1. CASE txActive /\ due
        <4>1. ~(late = {} /\ ~nested)
          BY <3>1 DEF SendInv, Watched
        <4>2. late' = late /\ nested' = nested
          BY <2>1 DEF TxWatchdog
        <4>. QED
          BY <4>1, <4>2 DEF SendInv
      <3>2. CASE ~(txActive /\ due)
        BY <2>0, <2>1, <3>2, HarmlessKeeps DEF TxWatchdog
      <3>. QED
        BY <3>1, <3>2
    <2>2. CASE SilenceFires \/ SilenceIdle
      BY <2>0, <2>2, HarmlessKeeps DEF SilenceFires, SilenceIdle
    <2>3. CASE Silenced
      BY <2>0, <2>3, HarmlessKeeps DEF Silenced
    <2>4. CASE NothingToRead
      BY <2>0, <2>4, HarmlessKeeps DEF NothingToRead
    <2>5. CASE RxDoneEvent
      BY <2>0, <2>5, HarmlessKeeps DEF RxDoneEvent
    <2>6. CASE RxTimeoutEvent \/ CadDoneEvent
      BY <2>0, <2>6, HarmlessKeeps DEF RxTimeoutEvent, CadDoneEvent
    <2>7. CASE AfterCad
      BY <2>0, <2>7, HarmlessKeeps DEF AfterCad, DriverReceives, SetMode
    <2>. QED
      BY <1>2, <2>1, <2>2, <2>3, <2>4, <2>5, <2>6, <2>7 DEF ProcessEvents
  <1>. QED
    BY <1>1, <1>2

LEMMA SendCallbacks == Types /\ SendInv /\ (OnDriverEvent \/ UserReturns) => SendInv'
  <1>. SUFFICES ASSUME Types, SendInv, OnDriverEvent \/ UserReturns PROVE SendInv'
    OBVIOUS
  <1>1. Quiet
    BY QuietCallbacks
  <1>2. Harmless
    BY DEF OnDriverEvent, EventCallback, PacketCallback, TxDoneCallback, EventEnds,
           UserReturns, Harmless, chipVars, driverVars, history
  <1>. QED
    BY <1>1, <1>2, HarmlessKeeps

LEMMA SendEnds == Types /\ SendInv /\ SendLoop => SendInv'
  <1>. SUFFICES ASSUME Types, SendInv, SendLoop PROVE SendInv'
    OBVIOUS
  <1>1. CASE SendTurn \/ SendAgain
    <2>1. Harmless
      BY <1>1 DEF SendTurn, SendAgain, Harmless, chipVars, driverVars, history
    <2>. QED
      BY <1>1, <2>1, QuietLoop, HarmlessKeeps
  <1>2. CASE SendTimeout
    BY <1>2 DEF SendTimeout, SendReturns, SendInv, history
  <1>3. CASE SendOK
    <2>. SUFFICES ASSUME late = {}, ~nested
                  PROVE  (Watched /\ OverWhenSent /\ OwnPacket /\ TxDoneIsOwn
                            /\ OneTxDone)'
      BY <1>3 DEF SendInv, SendOK, SendReturns, history
    <2>1. Watched /\ OverWhenSent /\ OwnPacket /\ TxDoneIsOwn /\ OneTxDone
      BY DEF SendInv
    <2>2. /\ ~txActive /\ ~txActive' /\ flags' = flags /\ sent' = sent /\ mode' = mode
          /\ Unsent' = Unsent
      BY <1>3 DEF SendOK, SendReturns, chipVars, driverVars, history, Unsent, SendFrames
    <2>3. \A F : Deep(stack', F) = Deep(stack, F) \ {TopDepth}
      BY <1>3, AtFrame, ReturnMoves, DeepReturns DEF SendOK, SendReturns
    <2>4. /\ Deep(stack, Unsent) = {} /\ "TxDone" \notin flags
          /\ Deep(stack, Pending) = {} /\ mode # "Tx"
      BY <2>1, <2>2 DEF OverWhenSent, OwnPacket, TxDoneIsOwn
    <2>5. Deep(stack', Unsent) = {} /\ Deep(stack', Pending) = {}
      BY <2>3, <2>4
    <2>. QED
      BY <2>2, <2>4, <2>5 DEF Watched, OverWhenSent, OwnPacket, TxDoneIsOwn, OneTxDone
  <1>. QED
    BY <1>1, <1>2, <1>3 DEF SendLoop

LEMMA SendInvStep == Types /\ Numbered /\ SendInv /\ [Next]_vars => SendInv'
  <1>. SUFFICES ASSUME Types, Numbered, SendInv, [Next]_vars PROVE SendInv'
    OBVIOUS
  <1>1. CASE Idle \/ UNCHANGED vars
    <2>1. Rests /\ Harmless
      BY <1>1 DEF Idle, vars, chipVars, driverVars, history, Rests, Harmless
    <2>. QED
      BY <2>1, QuietRests, HarmlessKeeps
  <1>. QED
    BY <1>1, SendChip, SendTick, SendCalls, SendEvents, SendCallbacks, SendEnds
       DEF Next, Thread

(* While no transmission has timed out and no callback of a send() has called *)
(* send() or end(), send() answers OK only for a packet that went out whole,  *)
(* however deep the callbacks of its loop nest: OkMeansSent.                  *)
THEOREM OkIsSent == Spec => OkMeansSent
  <1>. DEFINE SI == Numbered /\ SendInv
  <1>1. Init => SI
    <2>1. Init => \A F : Deep(stack, F) = {}
      BY EmptySeq DEF Init, Deep
    <2>. QED
      BY <2>1 DEF Init, Numbered, SendInv, Watched, OverWhenSent, OwnPacket, TxDoneIsOwn,
                  OneTxDone
  <1>2. TypeOK /\ SI /\ [Next]_vars => SI'
    BY NumberedStep, SendInvStep, TypeGroups
  <1>3. TypeOK /\ SI /\ [Next]_vars
          => [SendOK /\ late = {} /\ ~nested => Top.id \in sent]_vars
    <2>. SUFFICES ASSUME Types, SendInv, SendOK, late = {}, ~nested
                  PROVE  Top.id \in sent
      BY TypeGroups
    <2>1. stack \in Seq(Frames) /\ stack # << >> /\ Top \in SendFrames
      BY AtFrame DEF SendOK, SendFrames
    <2>2. Deep(stack, Unsent) = {}
      BY DEF SendOK, SendInv, OverWhenSent
    <2>. QED
      BY <2>1, <2>2, DeepTop DEF Unsent
  <1>. QED
    BY <1>1, <1>2, <1>3, TypeCorrect, PTL DEF Spec, OkMeansSent
=============================================================================
