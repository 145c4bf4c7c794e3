------------------------- MODULE LoadDocumentProofs -------------------------
(***************************************************************************)
(* However many timer threads there are: at most one polls (IInv), and     *)
(* while nothing comes in the way of a timer (no load, no image, and none  *)
(* that is sent directly beside it) its buffers are alive, it sends the    *)
(* last image of the document, and it gives up only on an image rendered   *)
(* after the end mark (LoadInv, which contains IInv).                      *)
(* IInv is strengthened by the step between the decision to send and the   *)
(* assignment to isStartCount, where the thread is no poller any more but  *)
(* still the only one that may let the next one start.                     *)
(***************************************************************************)
EXTENDS LoadDocument, TLAPS

Undecided == {t \in Timers : timer[t] \in {"poll", "mark"}}

TimerType ==
  /\ timer \in [Timers -> {"none", "poll", "mark", "copy", "alloc", "send", "backup"}]
  /\ canStart \in BOOLEAN

IInv ==
  /\ TimerType
  /\ canStart => Undecided = {}
  /\ \A t, u \in Undecided : t = u

\* Initially no timer thread exists.
LEMMA InitIInv == Init => IInv
BY DEF Init, IInv, TimerType, Undecided

\* The timer threads' steps: a thread leaves the undecided ones, or goes
\* from polling to sending.
LEMMA TimerKeeps ==
  ASSUME IInv, NEW t \in Timers, Timer(t)
  PROVE  IInv'
<1>1. CASE PollSend(t) BY <1>1 DEF PollSend, IInv, TimerType, Undecided, count
<1>2. CASE PollGiveUp(t) BY <1>2 DEF PollGiveUp, IInv, TimerType, Undecided, count
<1>3. CASE SendBufferOnTimer(t)
  <2>1. PICK at \in {"none", "copy"} :
          timer' = [timer EXCEPT ![t] = at] /\ canStart' \in {canStart, TRUE}
    BY <1>3 DEF SendBufferOnTimer
  <2>2. timer[t] = "mark" /\ t \in Undecided BY <1>3 DEF SendBufferOnTimer, Undecided
  <2>3. \A u \in Timers : u # t => timer[u] \notin {"poll", "mark"}
    BY <2>2 DEF IInv, Undecided
  <2>4. Undecided' = {} BY <2>1, <2>3 DEF Undecided, IInv, TimerType
  <2>5. TimerType' BY <2>1 DEF IInv, TimerType
  <2>6. QED BY <2>4, <2>5 DEF IInv
<1>4. CASE CopyBuffer(t) BY <1>4 DEF CopyBuffer, IInv, TimerType, Undecided, count
<1>5. CASE AllocWholeBuffer(t)
  BY <1>5 DEF AllocWholeBuffer, IInv, TimerType, Undecided, count
<1>6. CASE SendPixmap(t) BY <1>6 DEF SendPixmap, IInv, TimerType, Undecided, count
<1>7. CASE FreeJpgMemory(t)
  BY <1>7 DEF FreeJpgMemory, IInv, TimerType, Undecided, count
<1>8. QED BY <1>1, <1>2, <1>3, <1>4, <1>5, <1>6, <1>7 DEF Timer

\* Steps that touch neither the threads nor isStartCount.
LEMMA QuietKeeps ==
  ASSUME IInv, UNCHANGED <<timer, canStart>>
  PROVE  IInv'
BY DEF IInv, TimerType, Undecided

\* A thread is started only while no other one is undecided.
LEMMA EngineKeeps ==
  ASSUME IInv, Engine
  PROVE  IInv'
<1>1. CASE \E t \in Timers : StartTimer(t)
  <2>1. PICK t \in Timers : StartTimer(t) BY <1>1
  <2>2. QED BY <2>1 DEF StartTimer, IInv, TimerType, Undecided
<1>2. CASE ~ \E t \in Timers : StartTimer(t)
  <2>1. UNCHANGED <<timer, canStart>>
    BY <1>2 DEF Engine, Callback, TestStamp, TestFlag, AllocDirect, SendDirect,
                FreeDirect, StoreFrame, StartNoTimer, FlushEmptyCallback, SetFlushEmpty,
                count
  <2>2. QED BY <2>1, QuietKeeps
<1>3. QED BY <1>1, <1>2

LEMMA StepIInv == IInv /\ [Next]_vars => IInv'
<1>1. SUFFICES ASSUME IInv, [Next]_vars PROVE IInv' OBVIOUS
<1>2. CASE Tick \/ Command \/ UNCHANGED vars
  <2>1. UNCHANGED <<timer, canStart>>
    BY <1>2 DEF Tick, Command, LoadBegin, InitFlushEmptyTime, LoadFinished, vars,
                count
  <2>2. QED BY <1>1, <2>1, QuietKeeps
<1>3. CASE Engine BY <1>1, <1>3, EngineKeeps
<1>4. CASE \E t \in Timers : Timer(t) BY <1>1, <1>4, TimerKeeps
<1>5. QED BY <1>1, <1>2, <1>3, <1>4 DEF Next

(* At most one timer thread polls, and none while isStartCount lets the    *)
(* render thread of LoadDocCallback start one, for any number of threads.  *)
THEOREM PollersExclude == Spec => []OnePoller
<1>1. IInv => OnePoller BY DEF IInv, OnePoller, Polling, Undecided
<1>2. QED BY InitIInv, StepIInv, <1>1, PTL DEF Spec

(***************************************************************************)
(* What a timer sends, and why the buffers are alive while it does.        *)
(***************************************************************************)
AnyFrame == [stamp : Nat, size : Sizes]
RenderAt == {"idle", "stamp", "flag", "alloc", "send", "backup", "store", "start"}

LoadTypeOK ==
  /\ now \in Nat \ {0} /\ startTime \in Nat /\ docTime \in Nat /\ renderTime \in Nat
  /\ flag \in {"INIT", "START", "FINISHED", "NORMAL"}
  /\ flush \in [on : BOOLEAN, time : Nat, stamp : Nat]
  /\ temp \in AnyFrame \cup {NoFrame} /\ copy \in AnyFrame \cup {NoFrame}
  /\ meta \in [stamp : Nat, size : Nat] /\ whole \in Nat
  /\ render \in [at : RenderAt, frame : AnyFrame \cup {NoFrame}]
  /\ render.at = "idle" <=> render = Resting
  /\ render.at # "idle" => render.frame # NoFrame
  /\ mark \in Nat
  /\ repeated \in BOOLEAN /\ raced \in BOOLEAN /\ broken \in BOOLEAN

\* The kept image and what is known of it are written together, except that a
\* freed image leaves its size behind.
KeptInv == temp # NoFrame => temp = meta /\ temp.size # 0

ClockInv ==
  /\ startTime <= now
  /\ flush.on => flush.time <= now

(***************************************************************************)
(* The rest holds while nothing came in the way of a timer.                *)
(***************************************************************************)
\* A timer has no other beside it, nor an image that is sent directly and freed.
AloneInv ==
  /\ \A t, u \in Alive : t = u
  /\ Alive # {} => render.at \notin {"alloc", "send", "backup"}

\* What each step of a timer, or of a direct sending, has found is there until
\* the last one frees it.
BufferInv ==
  /\ \A t \in Timers :
       /\ timer[t] \in {"copy", "alloc", "send", "backup"} => temp # NoFrame
       /\ timer[t] \in {"alloc", "send", "backup"} => copy = temp
       /\ timer[t] \in {"send", "backup"} => whole = Whole(meta.size)
  /\ render.at \in {"send", "backup"} => whole = Whole(render.frame.size)
  /\ ~broken

\* An image older than the document is never picked up: no timer starts any more.
DocInv ==
  /\ render.at \in {"flag", "store"} => render.frame.stamp >= docTime
  /\ temp # NoFrame => temp.stamp >= docTime \/ (~canStart /\ Alive = {})
  /\ temp # NoFrame /\ canStart => Alive # {} \/ render.at = "start"

\* A timer sends after SendDuration unless an end mark came before.
PollInv ==
  /\ Alive # {} \/ render.at = "start" => renderTime # Never
  /\ Polling # {} /\ ~flush.on => now <= startTime + SendDuration
  /\ Polling # {} /\ flush.on /\ ~repeated => flush.time <= startTime + SendDuration

QuietInv == AloneInv /\ BufferInv /\ DocInv /\ PollInv
LoadInv == IInv /\ LoadTypeOK /\ KeptInv /\ ClockInv /\ (~raced => QuietInv)

\* Every variable keeps its type; the idle render thread holds no image.
LEMMA LoadTypeKeeps == LoadTypeOK /\ IInv /\ [Next]_vars => LoadTypeOK'
<1> SUFFICES ASSUME LoadTypeOK, IInv, [Next]_vars PROVE LoadTypeOK'
  OBVIOUS
<1> USE LoadAssumption
    DEF LoadAssumption, LoadTypeOK, AnyFrame, RenderAt, Never, NoFlush, Resting, Rendered,
        doc, count,
        buffers, inputs, history
<1>1. CASE Tick
  BY <1>1 DEF Tick
<1>2. CASE Command
  <2>1. CASE LoadBegin BY <2>1 DEF LoadBegin
  <2>2. CASE InitFlushEmptyTime
    <3>1. raced' \in BOOLEAN BY <2>2 DEF InitFlushEmptyTime
    <3>2. /\ flush' \in [on : BOOLEAN, time : Nat, stamp : Nat]
          /\ renderTime' = 0 /\ docTime' = now /\ repeated' = FALSE
          /\ UNCHANGED <<now, flag, startTime, temp, meta, copy, whole, render, mark, broken>>
      BY <2>2 DEF InitFlushEmptyTime
    <3>3. QED BY <3>1, <3>2
  <2>3. CASE LoadFinished BY <2>3 DEF LoadFinished
  <2>4. QED BY <1>2, <2>1, <2>2, <2>3 DEF Command
<1>3. CASE \E f \in [stamp : Rendered, size : Sizes] : Callback(f)
  BY <1>3 DEF Callback
<1>4. CASE TestStamp \/ TestFlag \/ AllocDirect \/ SendDirect \/ FreeDirect
  <2>1. CASE TestStamp BY <2>1 DEF TestStamp
  <2>2. CASE TestFlag BY <2>2 DEF TestFlag
  <2>3. CASE AllocDirect BY <2>3 DEF AllocDirect, Whole
  <2>4. CASE SendDirect
    <3>1. broken' \in BOOLEAN BY <2>4 DEF SendDirect
    <3>2. /\ render' \in [at : RenderAt, frame : AnyFrame \cup {NoFrame}]
          /\ render'.at = "idle" <=> render' = Resting
          /\ render'.at # "idle" => render'.frame # NoFrame
      BY <2>4 DEF SendDirect
    <3>3. UNCHANGED <<now, startTime, flag, docTime, flush, renderTime, temp, copy, meta,
                      whole, mark, repeated, raced>>
      BY <2>4 DEF SendDirect
    <3> QED BY <3>1, <3>2, <3>3
  <2>5. CASE FreeDirect BY <2>5 DEF FreeDirect
  <2> QED BY <1>4, <2>1, <2>2, <2>3, <2>4, <2>5
<1>5. CASE StoreFrame
  BY <1>5 DEF StoreFrame
<1>6. CASE StartNoTimer
  BY <1>6 DEF StartNoTimer
<1>7. CASE \E t \in Timers : StartTimer(t)
  BY <1>7 DEF StartTimer
<1>8. CASE \E s \in Rendered : FlushEmptyCallback(s)
  BY <1>8 DEF FlushEmptyCallback
<1>9. CASE SetFlushEmpty
  BY <1>9 DEF SetFlushEmpty
<1>10. CASE \E t \in Timers : Timer(t)
  <2> SUFFICES ASSUME NEW t \in Timers, Timer(t) PROVE LoadTypeOK'
    BY <1>10
  <2>1. CASE PollSend(t)
    BY <2>1 DEF PollSend
  <2>2. CASE PollGiveUp(t)
    BY <2>2 DEF PollGiveUp
  <2>3. CASE SendBufferOnTimer(t)
    BY <2>3 DEF SendBufferOnTimer
  <2>4. CASE CopyBuffer(t)
    BY <2>4 DEF CopyBuffer
  <2>5. CASE AllocWholeBuffer(t)
    BY <2>5 DEF AllocWholeBuffer, Whole
  <2>6. CASE SendPixmap(t)
    BY <2>6 DEF SendPixmap
  <2>7. CASE FreeJpgMemory(t)
    BY <2>7 DEF FreeJpgMemory
  <2> QED BY <2>1, <2>2, <2>3, <2>4, <2>5, <2>6, <2>7 DEF Timer
<1>11. CASE UNCHANGED vars
  BY <1>11 DEF vars
<1> QED BY <1>1, <1>2, <1>3, <1>4, <1>5, <1>6, <1>7, <1>8, <1>9, <1>10, <1>11 DEF Next, Engine

\* Once something came in the way of a timer, that stays so.
LEMMA RacedStays ==
  ASSUME LoadInv, [Next]_vars, ~raced'
  PROVE  ~raced /\ QuietInv
<1> SUFFICES ASSUME raced PROVE FALSE BY DEF LoadInv
<1>1. CASE raced' = raced BY <1>1
<1>2. CASE InitFlushEmptyTime BY <1>2, Zenon DEF InitFlushEmptyTime
<1>3. CASE StoreFrame BY <1>3, Zenon DEF StoreFrame
<1>4. CASE \E t \in Timers : StartTimer(t) BY <1>4, Zenon DEF StartTimer
<1>5. CASE TestFlag BY <1>5, Zenon DEF TestFlag
<1>6. \/ raced' = raced
      \/ InitFlushEmptyTime \/ TestFlag \/ StoreFrame
      \/ \E t \in Timers : StartTimer(t)
  <2>1. CASE Tick \/ UNCHANGED vars BY <2>1 DEF Tick, history, vars
  <2>2. CASE Command BY <2>2 DEF Command, LoadBegin, LoadFinished, history
  <2>3. CASE Engine
    BY <2>3 DEF Engine, Callback, TestStamp, AllocDirect, SendDirect, FreeDirect,
                StartNoTimer, FlushEmptyCallback, SetFlushEmpty, history
  <2>4. CASE \E t \in Timers : Timer(t)
    BY <2>4 DEF Timer, PollSend, PollGiveUp, SendBufferOnTimer, CopyBuffer,
                AllocWholeBuffer, SendPixmap, FreeJpgMemory, history
  <2> QED BY <2>1, <2>2, <2>3, <2>4 DEF Next
<1> QED BY <1>1, <1>2, <1>3, <1>4, <1>5, <1>6

\* A load that makes no race finds no image and no timer on their way, and
\* a timer that makes none starts alone for a loaded document; nor is an
\* image to be sent directly beside a timer.
LEMMA RaceFree ==
  ASSUME ~raced'
  PROVE  /\ InitFlushEmptyTime => Alive = {} /\ render = Resting /\ mark = Never
         /\ \A t \in Timers : StartTimer(t) => Alive = {} /\ flag = "FINISHED"
         /\ StoreFrame => Sending = {}
         /\ TestFlag /\ flag # "FINISHED" => Alive = {}
BY Zenon DEF InitFlushEmptyTime, StartTimer, StoreFrame, TestFlag

\* A timer starts only when no other is there; else the step counts as a race.
LEMMA AloneKeeps ==
  ASSUME LoadInv, [Next]_vars, ~raced'
  PROVE  AloneInv'
<1>1. ~raced /\ QuietInv BY RacedStays DEF LoadInv
<1> USE <1>1, LoadAssumption
    DEF LoadAssumption, LoadInv, IInv, TimerType, LoadTypeOK, QuietInv,
        AloneInv, Alive, Polling, Sending, Undecided,
        AnyFrame, RenderAt, Never, NoFlush, Resting, doc, count, buffers, inputs, history
<1>2. CASE Tick
  BY <1>2 DEF Tick, Passed, Ready, NoFlushEmptyFunc
<1>3. CASE LoadBegin
  BY <1>3 DEF LoadBegin
<1>4. CASE InitFlushEmptyTime
  <2>1. Alive = {} /\ render = Resting BY <1>4, RaceFree, Zenon
  <2>2. QED BY <1>4, <2>1 DEF InitFlushEmptyTime
<1>5. CASE LoadFinished
  BY <1>5 DEF LoadFinished
<1>6. CASE \E f \in [stamp : Rendered, size : Sizes] : Callback(f)
  BY <1>6 DEF Callback, Rendered
<1>7. CASE TestStamp \/ AllocDirect \/ SendDirect \/ FreeDirect
  <2>1. CASE TestStamp BY <2>1 DEF TestStamp
  <2>2. CASE AllocDirect BY <2>2 DEF AllocDirect, Whole
  <2>3. CASE SendDirect BY <2>3 DEF SendDirect, Whole
  <2>4. CASE FreeDirect BY <2>4 DEF FreeDirect, Whole
  <2> QED BY <1>7, <2>1, <2>2, <2>3, <2>4
<1>15. CASE TestFlag
  <2>1. flag # "FINISHED" => Alive = {} BY <1>15, RaceFree, Zenon
  <2> QED BY <1>15, <2>1 DEF TestFlag
<1>8. CASE StoreFrame
  BY <1>8 DEF StoreFrame
<1>9. CASE StartNoTimer
  BY <1>9 DEF StartNoTimer
<1>10. CASE \E t \in Timers : StartTimer(t)
  <2>1. PICK t \in Timers : StartTimer(t) BY <1>10
  <2>2. Alive = {} /\ flag = "FINISHED" BY <2>1, RaceFree, Zenon
  <2>3. QED BY <2>1, <2>2 DEF StartTimer
<1>11. CASE \E s \in Rendered : FlushEmptyCallback(s)
  BY <1>11 DEF FlushEmptyCallback
<1>12. CASE SetFlushEmpty
  BY <1>12 DEF SetFlushEmpty
<1>13. CASE \E t \in Timers : Timer(t)
  <2> SUFFICES ASSUME NEW t \in Timers, Timer(t) PROVE AloneInv' BY <1>13
  <2>1. CASE PollSend(t) BY <2>1 DEF PollSend
  <2>2. CASE PollGiveUp(t) BY <2>2 DEF PollGiveUp
  <2>3. CASE SendBufferOnTimer(t) BY <2>3 DEF SendBufferOnTimer
  <2>4. CASE CopyBuffer(t) BY <2>4 DEF CopyBuffer
  <2>5. CASE AllocWholeBuffer(t) BY <2>5 DEF AllocWholeBuffer, Whole
  <2>6. CASE SendPixmap(t) BY <2>6 DEF SendPixmap, Whole
  <2>7. CASE FreeJpgMemory(t) BY <2>7 DEF FreeJpgMemory, Whole
  <2> QED BY <2>1, <2>2, <2>3, <2>4, <2>5, <2>6, <2>7 DEF Timer
<1>14. CASE UNCHANGED vars
  BY <1>14 DEF vars
<1> QED BY <1>2, <1>3, <1>4, <1>5, <1>6, <1>7, <1>8, <1>9, <1>10, <1>11, <1>12, <1>13,
        <1>14, <1>15 DEF Next, Command, Engine

\* No step takes a buffer from a timer that still needs it.
LEMMA BufferKeeps ==
  ASSUME LoadInv, [Next]_vars, ~raced'
  PROVE  BufferInv'
<1>1. ~raced /\ QuietInv BY RacedStays DEF LoadInv
<1> USE <1>1, LoadAssumption
    DEF LoadAssumption, LoadInv, IInv, TimerType, LoadTypeOK, QuietInv,
        AloneInv, BufferInv, KeptInv, Alive, Polling, Sending, Undecided,
        AnyFrame, RenderAt, Never, NoFlush, Resting, doc, count, buffers, inputs, history
<1>2. CASE Tick
  BY <1>2 DEF Tick, Passed, Ready, NoFlushEmptyFunc
<1>3. CASE LoadBegin
  BY <1>3 DEF LoadBegin
<1>4. CASE InitFlushEmptyTime
  <2>1. Alive = {} /\ render = Resting BY <1>4, RaceFree, Zenon
  <2>2. QED BY <1>4, <2>1 DEF InitFlushEmptyTime
<1>5. CASE LoadFinished
  BY <1>5 DEF LoadFinished
<1>6. CASE \E f \in [stamp : Rendered, size : Sizes] : Callback(f)
  BY <1>6 DEF Callback, Rendered
<1>7. CASE TestStamp \/ AllocDirect \/ SendDirect \/ FreeDirect
  <2>1. CASE TestStamp BY <2>1 DEF TestStamp
  <2>2. CASE AllocDirect BY <2>2 DEF AllocDirect, Whole
  <2>3. CASE SendDirect BY <2>3 DEF SendDirect, Whole
  <2>4. CASE FreeDirect BY <2>4 DEF FreeDirect, Whole
  <2> QED BY <1>7, <2>1, <2>2, <2>3, <2>4
<1>15. CASE TestFlag
  <2>1. flag # "FINISHED" => Alive = {} BY <1>15, RaceFree, Zenon
  <2> QED BY <1>15, <2>1 DEF TestFlag
<1>8. CASE StoreFrame
  <2>1. \A t \in Timers : timer[t] \in {"none", "poll"} BY <1>8, RaceFree, Zenon DEF Sending
  <2>2. UNCHANGED <<timer, whole, broken>> BY <1>8 DEF StoreFrame
  <2>3. render'.at \notin {"send", "backup"} BY <1>8 DEF StoreFrame
  <2> QED BY <2>1, <2>2, <2>3
<1>9. CASE StartNoTimer
  BY <1>9 DEF StartNoTimer
<1>10. CASE \E t \in Timers : StartTimer(t)
  <2>1. PICK t \in Timers : StartTimer(t) BY <1>10
  <2>2. Alive = {} /\ flag = "FINISHED" BY <2>1, RaceFree, Zenon
  <2>3. QED BY <2>1, <2>2 DEF StartTimer
<1>11. CASE \E s \in Rendered : FlushEmptyCallback(s)
  BY <1>11 DEF FlushEmptyCallback
<1>12. CASE SetFlushEmpty
  BY <1>12 DEF SetFlushEmpty
<1>13. CASE \E t \in Timers : Timer(t)
  <2> SUFFICES ASSUME NEW t \in Timers, Timer(t) PROVE BufferInv' BY <1>13
  <2>1. CASE PollSend(t) BY <2>1 DEF PollSend
  <2>2. CASE PollGiveUp(t) BY <2>2 DEF PollGiveUp
  <2>3. CASE SendBufferOnTimer(t) BY <2>3 DEF SendBufferOnTimer
  <2>4. CASE CopyBuffer(t) BY <2>4 DEF CopyBuffer
  <2>5. CASE AllocWholeBuffer(t) BY <2>5 DEF AllocWholeBuffer, Whole
  <2>6. CASE SendPixmap(t) BY <2>6 DEF SendPixmap, Whole
  <2>7. CASE FreeJpgMemory(t) BY <2>7 DEF FreeJpgMemory, Whole
  <2> QED BY <2>1, <2>2, <2>3, <2>4, <2>5, <2>6, <2>7 DEF Timer
<1>14. CASE UNCHANGED vars
  BY <1>14 DEF vars
<1> QED BY <1>2, <1>3, <1>4, <1>5, <1>6, <1>7, <1>8, <1>9, <1>10, <1>11, <1>12, <1>13,
        <1>14, <1>15 DEF Next, Command, Engine

\* No timer starts for an image older than the document.
LEMMA DocKeeps ==
  ASSUME LoadInv, [Next]_vars, ~raced'
  PROVE  DocInv'
<1>1. ~raced /\ QuietInv BY RacedStays DEF LoadInv
<1> USE <1>1, LoadAssumption
    DEF LoadAssumption, LoadInv, IInv, TimerType, LoadTypeOK, QuietInv,
        AloneInv, DocInv, Alive, Polling, Sending, Undecided,
        AnyFrame, RenderAt, Never, NoFlush, Resting, doc, count, buffers, inputs, history
<1>2. CASE Tick
  BY <1>2 DEF Tick, Passed, Ready, NoFlushEmptyFunc
<1>3. CASE LoadBegin
  BY <1>3 DEF LoadBegin
<1>4. CASE InitFlushEmptyTime
  <2>1. Alive = {} /\ render = Resting BY <1>4, RaceFree, Zenon
  <2>2. QED BY <1>4, <2>1 DEF InitFlushEmptyTime
<1>5. CASE LoadFinished
  BY <1>5 DEF LoadFinished
<1>6. CASE \E f \in [stamp : Rendered, size : Sizes] : Callback(f)
  BY <1>6 DEF Callback, Rendered
<1>7. CASE TestStamp \/ AllocDirect \/ SendDirect \/ FreeDirect
  <2>1. CASE TestStamp BY <2>1 DEF TestStamp
  <2>2. CASE AllocDirect BY <2>2 DEF AllocDirect, Whole
  <2>3. CASE SendDirect BY <2>3 DEF SendDirect, Whole
  <2>4. CASE FreeDirect BY <2>4 DEF FreeDirect, Whole
  <2> QED BY <1>7, <2>1, <2>2, <2>3, <2>4
<1>15. CASE TestFlag
  <2>1. flag # "FINISHED" => Alive = {} BY <1>15, RaceFree, Zenon
  <2> QED BY <1>15, <2>1 DEF TestFlag
<1>8. CASE StoreFrame
  BY <1>8 DEF StoreFrame
<1>9. CASE StartNoTimer
  BY <1>9 DEF StartNoTimer
<1>10. CASE \E t \in Timers : StartTimer(t)
  <2>1. PICK t \in Timers : StartTimer(t) BY <1>10
  <2>2. Alive = {} /\ flag = "FINISHED" BY <2>1, RaceFree, Zenon
  <2>3. QED BY <2>1, <2>2 DEF StartTimer
<1>11. CASE \E s \in Rendered : FlushEmptyCallback(s)
  BY <1>11 DEF FlushEmptyCallback
<1>12. CASE SetFlushEmpty
  BY <1>12 DEF SetFlushEmpty
<1>13. CASE \E t \in Timers : Timer(t)
  <2> SUFFICES ASSUME NEW t \in Timers, Timer(t) PROVE DocInv' BY <1>13
  <2>1. CASE PollSend(t) BY <2>1 DEF PollSend
  <2>2. CASE PollGiveUp(t) BY <2>2 DEF PollGiveUp
  <2>3. CASE SendBufferOnTimer(t) BY <2>3 DEF SendBufferOnTimer
  <2>4. CASE CopyBuffer(t) BY <2>4 DEF CopyBuffer
  <2>5. CASE AllocWholeBuffer(t) BY <2>5 DEF AllocWholeBuffer, Whole
  <2>6. CASE SendPixmap(t) BY <2>6 DEF SendPixmap, Whole
  <2>7. CASE FreeJpgMemory(t) BY <2>7 DEF FreeJpgMemory, Whole
  <2> QED BY <2>1, <2>2, <2>3, <2>4, <2>5, <2>6, <2>7 DEF Timer
<1>14. CASE UNCHANGED vars
  BY <1>14 DEF vars
<1> QED BY <1>2, <1>3, <1>4, <1>5, <1>6, <1>7, <1>8, <1>9, <1>10, <1>11, <1>12, <1>13,
        <1>14, <1>15 DEF Next, Command, Engine

\* While a poll is ready, time stands still.
LEMMA PollKeeps ==
  ASSUME LoadInv, [Next]_vars, ~raced'
  PROVE  PollInv'
<1>1. ~raced /\ QuietInv BY RacedStays DEF LoadInv
<1> USE <1>1, LoadAssumption
    DEF LoadAssumption, LoadInv, IInv, TimerType, LoadTypeOK, QuietInv,
        PollInv, ClockInv, Alive, Polling, Sending, Undecided,
        AnyFrame, RenderAt, Never, NoFlush, Resting, doc, count, buffers, inputs, history
<1>2. CASE Tick
  BY <1>2 DEF Tick, Passed, Ready, NoFlushEmptyFunc
<1>3. CASE LoadBegin
  BY <1>3 DEF LoadBegin
<1>4. CASE InitFlushEmptyTime
  <2>1. Alive = {} /\ render = Resting BY <1>4, RaceFree, Zenon
  <2>2. QED BY <1>4, <2>1 DEF InitFlushEmptyTime
<1>5. CASE LoadFinished
  BY <1>5 DEF LoadFinished
<1>6. CASE \E f \in [stamp : Rendered, size : Sizes] : Callback(f)
  BY <1>6 DEF Callback, Rendered
<1>7. CASE TestStamp \/ AllocDirect \/ SendDirect \/ FreeDirect
  <2>1. CASE TestStamp BY <2>1 DEF TestStamp
  <2>2. CASE AllocDirect BY <2>2 DEF AllocDirect, Whole
  <2>3. CASE SendDirect BY <2>3 DEF SendDirect, Whole
  <2>4. CASE FreeDirect BY <2>4 DEF FreeDirect, Whole
  <2> QED BY <1>7, <2>1, <2>2, <2>3, <2>4
<1>15. CASE TestFlag
  <2>1. flag # "FINISHED" => Alive = {} BY <1>15, RaceFree, Zenon
  <2> QED BY <1>15, <2>1 DEF TestFlag
<1>8. CASE StoreFrame
  BY <1>8 DEF StoreFrame
<1>9. CASE StartNoTimer
  BY <1>9 DEF StartNoTimer
<1>10. CASE \E t \in Timers : StartTimer(t)
  <2>1. PICK t \in Timers : StartTimer(t) BY <1>10
  <2>2. Alive = {} /\ flag = "FINISHED" BY <2>1, RaceFree, Zenon
  <2>3. QED BY <2>1, <2>2 DEF StartTimer
<1>11. CASE \E s \in Rendered : FlushEmptyCallback(s)
  BY <1>11 DEF FlushEmptyCallback
<1>12. CASE SetFlushEmpty
  BY <1>12 DEF SetFlushEmpty
<1>13. CASE \E t \in Timers : Timer(t)
  <2> SUFFICES ASSUME NEW t \in Timers, Timer(t) PROVE PollInv' BY <1>13
  <2>1. CASE PollSend(t) BY <2>1 DEF PollSend
  <2>2. CASE PollGiveUp(t) BY <2>2 DEF PollGiveUp
  <2>3. CASE SendBufferOnTimer(t) BY <2>3 DEF SendBufferOnTimer
  <2>4. CASE CopyBuffer(t) BY <2>4 DEF CopyBuffer
  <2>5. CASE AllocWholeBuffer(t) BY <2>5 DEF AllocWholeBuffer, Whole
  <2>6. CASE SendPixmap(t) BY <2>6 DEF SendPixmap, Whole
  <2>7. CASE FreeJpgMemory(t) BY <2>7 DEF FreeJpgMemory, Whole
  <2> QED BY <2>1, <2>2, <2>3, <2>4, <2>5, <2>6, <2>7 DEF Timer
<1>14. CASE UNCHANGED vars
  BY <1>14 DEF vars
<1> QED BY <1>2, <1>3, <1>4, <1>5, <1>6, <1>7, <1>8, <1>9, <1>10, <1>11, <1>12, <1>13,
        <1>14, <1>15 DEF Next, Command, Engine


\* What is known of the kept image is written with it; times are not ahead.
LEMMA KeptKeeps ==
  ASSUME LoadInv, [Next]_vars
  PROVE  KeptInv' /\ ClockInv'
<1> USE LoadAssumption DEF LoadAssumption, LoadInv, LoadTypeOK, KeptInv, ClockInv, AnyFrame,
        NoFlush, Resting, doc, count, buffers, inputs, history
<1>1. CASE Tick BY <1>1 DEF Tick
<1>2. CASE Command BY <1>2 DEF Command, LoadBegin, InitFlushEmptyTime, LoadFinished
<1>3. CASE \E f \in [stamp : Rendered, size : Sizes] : Callback(f) BY <1>3 DEF Callback
<1>4. CASE TestStamp \/ TestFlag \/ AllocDirect \/ SendDirect \/ FreeDirect
  BY <1>4 DEF TestStamp, TestFlag, AllocDirect, SendDirect, FreeDirect
<1>5. CASE StoreFrame BY <1>5 DEF StoreFrame
<1>6. CASE StartNoTimer BY <1>6 DEF StartNoTimer
<1>7. CASE \E t \in Timers : StartTimer(t) BY <1>7 DEF StartTimer
<1>8. CASE \E s \in Rendered : FlushEmptyCallback(s) BY <1>8 DEF FlushEmptyCallback
<1>9. CASE SetFlushEmpty BY <1>9 DEF SetFlushEmpty
<1>10. CASE \E t \in Timers : Timer(t)
  BY <1>10 DEF Timer, PollSend, PollGiveUp, SendBufferOnTimer, CopyBuffer,
               AllocWholeBuffer, SendPixmap, FreeJpgMemory
<1>11. CASE UNCHANGED vars BY <1>11 DEF vars
<1> QED BY <1>1, <1>2, <1>3, <1>4, <1>5, <1>6, <1>7, <1>8, <1>9, <1>10, <1>11
        DEF Next, Engine

\* Initially there is no image, no timer and no race.
LEMMA InitLoadInv == Init => LoadInv
<1> SUFFICES ASSUME Init PROVE LoadInv OBVIOUS
<1>1. IInv BY InitIInv
<1>2. LoadTypeOK
  <2>1. flush \in [on : BOOLEAN, time : Nat, stamp : Nat] BY DEF Init, NoFlush, Never
  <2>2. /\ render = Resting /\ render.at = "idle"
        /\ render \in [at : RenderAt, frame : AnyFrame \cup {NoFrame}]
    BY DEF Init, Resting, RenderAt
  <2>3. /\ now \in Nat \ {0} /\ startTime \in Nat /\ docTime \in Nat /\ renderTime \in Nat
        /\ meta \in [stamp : Nat, size : Nat] /\ whole \in Nat /\ mark \in Nat
    BY DEF Init, Never
  <2>4. /\ flag \in {"INIT", "START", "FINISHED", "NORMAL"}
        /\ temp \in AnyFrame \cup {NoFrame} /\ copy \in AnyFrame \cup {NoFrame}
        /\ repeated \in BOOLEAN /\ raced \in BOOLEAN /\ broken \in BOOLEAN
    BY DEF Init
  <2> QED BY <2>1, <2>2, <2>3, <2>4 DEF LoadTypeOK
<1>3. Alive = {} /\ Polling = {} BY DEF Init, Alive, Polling
<1>4. QuietInv
  <2>1. AloneInv BY <1>3 DEF Init, AloneInv
  <2>2. BufferInv BY DEF Init, BufferInv, Resting
  <2>3. DocInv BY DEF Init, DocInv, Resting
  <2>4. PollInv BY <1>3 DEF Init, PollInv, Resting
  <2> QED BY <2>1, <2>2, <2>3, <2>4 DEF QuietInv
<1>5. KeptInv /\ ClockInv BY DEF Init, KeptInv, ClockInv, NoFlush
<1> QED BY <1>1, <1>2, <1>4, <1>5 DEF LoadInv

\* The invariant is inductive: one lemma per part.
LEMMA StepLoadInv == LoadInv /\ [Next]_vars => LoadInv'
<1> SUFFICES ASSUME LoadInv, [Next]_vars PROVE LoadInv' OBVIOUS
<1>1. IInv' BY StepIInv DEF LoadInv
<1>2. LoadTypeOK' BY LoadTypeKeeps DEF LoadInv
<1>3. KeptInv' /\ ClockInv' BY KeptKeeps
<1>4. ~raced' => QuietInv' BY AloneKeeps, BufferKeeps, DocKeeps, PollKeeps DEF QuietInv
<1> QED BY <1>1, <1>2, <1>3, <1>4 DEF LoadInv

(* While nothing comes in the way of a timer, no load, no image, and none  *)
(* that is sent directly beside it, no buffer is read after FreeJpgMemory  *)
(* freed it or past its end, whatever the sizes.                           *)
THEOREM BuffersStayAlive == Spec => []BuffersAlive
<1>1. LoadInv => BuffersAlive BY DEF LoadInv, QuietInv, BufferInv, BuffersAlive
<1>2. QED BY InitLoadInv, StepLoadInv, <1>1, PTL DEF Spec

(* And what SendPixmap writes is then the kept image, at its full size and *)
(* of the document that is loaded: an image of the one before is not sent. *)
THEOREM LastImageIsSent == Spec => SendsLastImage
<1>1. ASSUME LoadInv, [Next]_vars, NEW t \in Timers, SendPixmap(t), ~raced
      PROVE  copy = temp /\ copy.size = meta.size /\ copy.stamp >= docTime
  <2>1. timer[t] = "send" /\ t \in Alive BY <1>1 DEF SendPixmap, Alive
  <2>2. temp # NoFrame /\ copy = temp
    BY <1>1, <2>1 DEF LoadInv, QuietInv, BufferInv
  <2>3. temp = meta BY <1>1, <2>2 DEF LoadInv, KeptInv
  <2>4. temp.stamp >= docTime BY <1>1, <2>1, <2>2 DEF LoadInv, QuietInv, DocInv
  <2> QED BY <2>2, <2>3, <2>4
<1>2. LoadInv /\ [Next]_vars =>
        [\A t \in Timers : (SendPixmap(t) /\ ~raced) =>
           /\ copy = temp /\ copy.size = meta.size
           /\ copy.stamp >= docTime]_vars
  BY <1>1
<1>3. QED BY InitLoadInv, StepLoadInv, <1>2, PTL DEF Spec, SendsLastImage

(* And a timer then gives up, for one end mark, only on an image rendered  *)
(* after it: at nine seconds an older one would have been due for sending, *)
(* because OnRenderTimeout + SendDuration < NineSeconds.                   *)
THEOREM OnlyLateImagesAreGivenUp == Spec => GivesUpOnLateImage
<1>1. ASSUME LoadInv, [Next]_vars, NEW t \in Timers, PollGiveUp(t), ~raced, ~repeated,
             temp # NoFrame, ~(meta.stamp >= flush.stamp)
      PROVE  FALSE
  <2> USE <1>1, LoadAssumption DEF LoadInv, LoadTypeOK, LoadAssumption
  <2>1. /\ flush.on /\ ~FlushEmptyFunc /\ now - startTime >= NineSeconds
        /\ t \in Polling
    BY DEF PollGiveUp, Passed, Polling
  <2>2. flush.time <= startTime + SendDuration BY <2>1 DEF QuietInv, PollInv
  <2>3. meta.stamp < flush.stamp OBVIOUS
  <2>4. now - flush.time > OnRenderTimeout BY <2>1, <2>2
  <2> QED BY <2>1, <2>3, <2>4 DEF FlushEmptyFunc
<1>2. LoadInv /\ [Next]_vars =>
        [\A t \in Timers : (PollGiveUp(t) /\ ~raced /\ ~repeated) =>
           (temp = NoFrame \/ meta.stamp >= flush.stamp)]_vars
  BY <1>1
<1>3. QED BY InitLoadInv, StepLoadInv, <1>2, PTL DEF Spec, GivesUpOnLateImage
=============================================================================
