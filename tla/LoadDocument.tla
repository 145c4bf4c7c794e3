---------------------------- MODULE LoadDocument ----------------------------
(***************************************************************************)
(* Component preview in the rich previewer: a LoadDocument command shows   *)
(* one component, and exactly one image of it is to be sent.  Which one is *)
(* decided between                                                         *)
(*   - the command thread (LoadDocumentCommand::RunSet),                   *)
(*   - the render thread (VirtualScreenImpl::Callback, LoadDocCallback),   *)
(*     which keeps the last image in loadDocTempBuffer,                    *)
(*   - the engine's end mark (VirtualScreenImpl::FlushEmptyCallback), and  *)
(*   - a detached timer thread (VirtualScreenImpl::StartTimer), which      *)
(*     polls until it sends the image or gives up.                         *)
(* Only the buffers are guarded by a mutex.  Time is counted in ticks of   *)
(* both the system clock and the monotonic clock.                          *)
(***************************************************************************)
EXTENDS Naturals, FiniteSets

CONSTANTS
  Timers,           \* timer threads that may be alive at once
  Sizes,            \* image sizes; 0 is an empty image
  NoFrame,          \* nullptr
  OnRenderTimeout,  \* TIMEOUT_ONRENDER_DURATION_MS
  SendDuration,     \* SEND_IMG_DURATION_MS
  NineSeconds,      \* TIMEOUT_NINE_S
  MaxLoads,         \* bound: LoadDocument commands
  MaxFrames,        \* bound: images and end marks that are let through
  Horizon           \* bound: the engine and the IDE act up to this time

ASSUME LoadAssumption ==
  /\ Sizes \subseteq Nat
  /\ NoFrame \notin [stamp : Nat, size : Sizes]
  /\ {OnRenderTimeout, SendDuration, NineSeconds, MaxLoads, MaxFrames, Horizon} \subseteq Nat
  /\ OnRenderTimeout + SendDuration < NineSeconds

Never == 0      \* system_clock::time_point::min()
MaxTime == Horizon + 1 + 2 * NineSeconds
Time == 0..MaxTime
Frame == [stamp : Time, size : Sizes]

VARIABLES
  now,
  flag,         \* startLoadDoc
  canStart,     \* isStartCount
  startTime,
  docTime,      \* loadDocTimeStamp
  flush,        \* isFlushEmpty, flushEmptyTime, flushEmptyTimeStamp
  renderTime,   \* onRenderTime
  temp,         \* loadDocTempBuffer
  meta,         \* lengthTemp, widthTemp, heightTemp and timeStampTemp
  copy,         \* loadDocCopyBuffer
  whole,        \* size of wholeBuffer, its header as one unit, 0 for nullptr
  command,      \* the command thread
  loads,        \* LoadDocument commands so far
  frames,       \* images and end marks so far
  render,       \* the render thread: where it is, with which image
  mark,         \* the end mark FlushEmptyCallback works on, Never for none
  timer,        \* where each timer thread is
  repeated,     \* history: the document got more than one end mark
  gaveUp,       \* history: a timer thread ended without sending
  raced,        \* history: a load or an image came while a timer was busy, or
                \* an image was to be sent directly beside one
  broken        \* history: a buffer was read past its end or through nullptr

inputs == <<loads, frames>>
buffers == <<temp, meta, copy, whole>>
doc == <<flag, docTime, flush, renderTime>>
count == <<canStart, startTime>>
history == <<repeated, gaveUp, raced, broken>>
vars == <<now, doc, count, buffers, command, inputs, render, mark, timer, history>>

NoFlush == [on |-> FALSE, time |-> Never, stamp |-> 0]
Resting == [at |-> "idle", frame |-> NoFrame]
Alive == {t \in Timers : timer[t] # "none"}
Sending == {t \in Timers : timer[t] \notin {"none", "poll"}}
Polling == {t \in Timers : timer[t] = "poll"}

\* The size of wholeBuffer for an image.
Whole(size) == 1 + size

Init ==
  /\ now = 1
  /\ flag = "INIT"
  /\ canStart = TRUE
  /\ startTime = 0
  /\ docTime = 0
  /\ flush = NoFlush
  /\ renderTime = Never
  /\ temp = NoFrame
  /\ meta = [stamp |-> 0, size |-> 0]
  /\ copy = NoFrame
  /\ whole = 0
  /\ command = "idle"
  /\ loads = 0
  /\ frames = 0
  /\ render = Resting
  /\ mark = Never
  /\ timer = [t \in Timers |-> "none"]
  /\ repeated = FALSE
  /\ gaveUp = FALSE
  /\ raced = FALSE
  /\ broken = FALSE

Passed == now - startTime

\* The conditions under which FlushEmptyFunc and NoFlushEmptyFunc send.
FlushEmptyFunc ==
  /\ meta.stamp < flush.stamp
  /\ renderTime > flush.time \/ now - flush.time > OnRenderTimeout

\* Mutant of NoFlushEmptyFunc: only the nine seconds are waited for.
NoFlushEmptyFuncLate == Passed >= NineSeconds

NoFlushEmptyFunc ==
  \/ Passed >= SendDuration /\ renderTime # Never
  \/ Passed >= NineSeconds

\* The loop of StartTimer leaves it in this turn.
Ready == IF flush.on THEN FlushEmptyFunc \/ Passed >= NineSeconds
                    ELSE NoFlushEmptyFunc

\* The loop does not sleep: a tick is long enough for a turn of it.  After
\* Horizon time passes only for timers that still poll.
Tick ==
  /\ now < MaxTime
  /\ now <= Horizon \/ Polling # {}
  /\ Ready => Polling = {}
  /\ now' = now + 1
  /\ UNCHANGED <<doc, count, buffers, command, inputs, render, mark, timer,
                 history>>

(***************************************************************************)
(* The command thread.                                                     *)
(***************************************************************************)
LoadBegin ==
  /\ command = "idle"
  /\ loads < MaxLoads
  /\ now <= Horizon
  /\ loads' = loads + 1
  /\ flag' = "START"
  /\ command' = "init"
  /\ UNCHANGED <<now, frames, docTime, flush, renderTime, count, buffers,
                 render, mark, timer, history>>

InitFlushEmptyTime ==
  /\ command = "init"
  /\ flush' = NoFlush
  /\ renderTime' = Never
  /\ docTime' = now
  /\ command' = "loading"
  /\ raced' = (raced \/ Alive # {} \/ render # Resting \/ mark # Never)
  /\ repeated' = FALSE
  /\ UNCHANGED <<now, flag, count, buffers, inputs, render, mark, timer,
                 gaveUp, broken>>

LoadFinished ==
  /\ command = "loading"
  /\ flag' = "FINISHED"
  /\ command' = "idle"
  /\ UNCHANGED <<now, docTime, flush, renderTime, count, buffers, inputs,
                 render, mark, timer, history>>

(***************************************************************************)
(* The engine: images are delivered at most one tick after they were       *)
(* rendered, and so is the end mark.                                       *)
(***************************************************************************)
Rendered == {now - 1, now}

\* Callback: the first look at the flag (GetLoadDocFlag() < FINISHED).
Callback(f) ==
  /\ render = Resting
  /\ now <= Horizon /\ frames < MaxFrames
  /\ frames' = frames + 1
  /\ flag \in {"INIT", "FINISHED"}
  /\ render' = [at |-> "stamp", frame |-> f]
  /\ UNCHANGED <<now, doc, count, buffers, command, loads, mark, timer,
                 history>>

\* Mutant of TestStamp: images of the document before are let through.
TestNoStamp ==
  /\ render.at = "stamp"
  /\ render' = [render EXCEPT !.at = "flag"]
  /\ UNCHANGED <<now, doc, count, buffers, command, inputs, mark, timer,
                 history>>

TestStamp ==
  /\ render.at = "stamp"
  /\ render' = IF render.frame.stamp < docTime THEN Resting
               ELSE [render EXCEPT !.at = "flag"]
  /\ UNCHANGED <<now, doc, count, buffers, command, inputs, mark, timer,
                 history>>

\* LoadDocCallback looks at the flag again.  It returns true, to send at once,
\* before the first LoadDocument, but also if a timer or the next LoadDocument
\* has changed the flag since Callback looked at it.
TestFlag ==
  /\ render.at = "flag"
  /\ render' = [render EXCEPT !.at = IF flag = "FINISHED" THEN "store" ELSE "alloc"]
  /\ raced' = (raced \/ (flag # "FINISHED" /\ Alive # {}))
  /\ UNCHANGED <<now, doc, count, buffers, command, inputs, mark, timer,
                 repeated, gaveUp, broken>>

(***************************************************************************)
(* An image that is sent directly: with the same buffers as a timer's and  *)
(* without the mutex.                                                      *)
(***************************************************************************)
AllocDirect ==
  /\ render.at = "alloc"
  /\ whole' = Whole(render.frame.size)
  /\ render' = [render EXCEPT !.at = "send"]
  /\ UNCHANGED <<now, doc, count, temp, meta, copy, command, inputs, mark,
                 timer, history>>

\* An empty image may be refused (JudgeBeforeSend, Send); nothing is freed then.
SendDirect ==
  /\ render.at = "send"
  /\ \/ /\ broken' = (broken \/ whole < Whole(render.frame.size))
        /\ render' = [render EXCEPT !.at = "backup"]
     \/ /\ render.frame.size = 0
        /\ render' = Resting
        /\ UNCHANGED broken
  /\ UNCHANGED <<now, doc, count, buffers, command, inputs, mark, timer,
                 repeated, gaveUp, raced>>

FreeDirect ==
  /\ render.at = "backup"
  /\ broken' = (broken \/ whole < Whole(render.frame.size))
  /\ whole' = 0
  /\ copy' = NoFrame
  /\ temp' = NoFrame
  /\ render' = Resting
  /\ UNCHANGED <<now, doc, count, meta, command, inputs, mark, timer,
                 repeated, gaveUp, raced>>

\* LoadDocCallback keeps the image, under the mutex.
StoreFrame ==
  /\ render.at = "store"
  /\ meta' = render.frame
  /\ raced' = (raced \/ Sending # {})
  /\ IF render.frame.size = 0
     THEN temp' = NoFrame /\ render' = Resting /\ UNCHANGED renderTime
     ELSE /\ temp' = render.frame
          /\ renderTime' = now
          /\ render' = [render EXCEPT !.at = "start"]
  /\ UNCHANGED <<now, flag, docTime, flush, count, copy, whole, command,
                 inputs, mark, timer, repeated, gaveUp, broken>>

\* Mutant of StartTimer: isStartCount is left TRUE.
StartTimerTwice(t) ==
  /\ render.at = "start"
  /\ canStart
  /\ timer[t] = "none"
  /\ startTime' = now
  /\ timer' = [timer EXCEPT ![t] = "poll"]
  /\ render' = Resting
  /\ raced' = (raced \/ flag # "FINISHED" \/ Alive # {})
  /\ UNCHANGED <<now, doc, canStart, buffers, command, inputs, mark, repeated,
                 gaveUp, broken>>

StartTimer(t) ==
  /\ render.at = "start"
  /\ canStart
  /\ timer[t] = "none"
  /\ canStart' = FALSE
  /\ startTime' = now
  /\ timer' = [timer EXCEPT ![t] = "poll"]
  /\ render' = Resting
  /\ raced' = (raced \/ flag # "FINISHED" \/ Alive # {})
  /\ UNCHANGED <<now, doc, buffers, command, inputs, mark, repeated, gaveUp,
                 broken>>

StartNoTimer ==
  /\ render.at = "start"
  /\ ~canStart
  /\ render' = Resting
  /\ UNCHANGED <<now, doc, count, buffers, command, inputs, mark, timer,
                 history>>

FlushEmptyCallback(s) ==
  /\ mark = Never
  /\ now <= Horizon /\ frames < MaxFrames
  /\ frames' = frames + 1
  /\ s >= docTime
  /\ s # Never
  /\ s >= flush.stamp
  /\ mark' = s
  /\ UNCHANGED <<now, doc, count, buffers, command, loads, render, timer,
                 history>>

SetFlushEmpty ==
  /\ mark # Never
  /\ flush' = [on |-> TRUE, time |-> now, stamp |-> mark]
  /\ mark' = Never
  /\ repeated' = flush.on
  /\ UNCHANGED <<now, flag, docTime, renderTime, count, buffers, command,
                 inputs, render, timer, gaveUp, raced, broken>>

(***************************************************************************)
(* A timer thread.                                                         *)
(***************************************************************************)
PollSend(t) ==
  /\ timer[t] = "poll"
  /\ IF flush.on THEN FlushEmptyFunc ELSE NoFlushEmptyFunc
  /\ timer' = [timer EXCEPT ![t] = "mark"]
  /\ UNCHANGED <<now, doc, count, buffers, command, inputs, render, mark,
                 history>>

\* Mutant of PollGiveUp: the loop has no last limit.
PollNeverGivesUp(t) ==
  /\ timer[t] = "poll"
  /\ FALSE
  /\ UNCHANGED vars

PollGiveUp(t) ==
  /\ timer[t] = "poll"
  /\ flush.on /\ ~FlushEmptyFunc
  /\ Passed >= NineSeconds
  /\ timer' = [timer EXCEPT ![t] = "none"]
  /\ gaveUp' = TRUE
  /\ UNCHANGED <<now, doc, count, buffers, command, inputs, render, mark,
                 repeated, raced, broken>>

\* Mutant of SendBufferOnTimer: isStartCount is not set again.
SendBufferOnTimerOnce(t) ==
  /\ timer[t] = "mark"
  /\ flag' = "NORMAL"
  /\ IF temp = NoFrame
     THEN timer' = [timer EXCEPT ![t] = "none"] /\ gaveUp' = TRUE
     ELSE timer' = [timer EXCEPT ![t] = "copy"] /\ UNCHANGED gaveUp
  /\ UNCHANGED <<now, docTime, flush, renderTime, count, buffers, command,
                 inputs, render, mark, repeated, raced, broken>>

SendBufferOnTimer(t) ==
  /\ timer[t] = "mark"
  /\ flag' = "NORMAL"
  /\ IF temp = NoFrame
     THEN /\ timer' = [timer EXCEPT ![t] = "none"]
          /\ gaveUp' = TRUE
          /\ UNCHANGED canStart
     ELSE /\ timer' = [timer EXCEPT ![t] = "copy"]
          /\ canStart' = TRUE
          /\ UNCHANGED gaveUp
  /\ UNCHANGED <<now, docTime, flush, renderTime, startTime, buffers, command,
                 inputs, render, mark, repeated, raced, broken>>

CopyBuffer(t) ==
  /\ timer[t] = "copy"
  /\ copy' = temp
  /\ broken' = (broken \/ temp = NoFrame)
  /\ timer' = [timer EXCEPT ![t] = "alloc"]
  /\ UNCHANGED <<now, doc, count, temp, meta, whole, command, inputs, render,
                 mark, repeated, gaveUp, raced>>

AllocWholeBuffer(t) ==
  /\ timer[t] = "alloc"
  /\ whole' = Whole(meta.size)
  /\ timer' = [timer EXCEPT ![t] = "send"]
  /\ UNCHANGED <<now, doc, count, temp, meta, copy, command, inputs, render,
                 mark, history>>

\* Mutant of SendPixmap: the buffers are freed before the image is written.
SendPixmapFreed(t) ==
  /\ timer[t] = "send"
  /\ broken' = (broken \/ copy = NoFrame \/ whole < Whole(meta.size)
                \/ (copy # NoFrame /\ copy.size < meta.size))
  /\ timer' = [timer EXCEPT ![t] = "backup"]
  /\ whole' = 0
  /\ UNCHANGED <<now, doc, count, temp, meta, copy, command, inputs, render,
                 mark, repeated, gaveUp, raced>>

\* The image is copied behind its header and written; meta is read again.
SendPixmap(t) ==
  /\ timer[t] = "send"
  /\ broken' = (broken \/ copy = NoFrame \/ whole < Whole(meta.size)
                \/ (copy # NoFrame /\ copy.size < meta.size))
  /\ timer' = [timer EXCEPT ![t] = "backup"]
  /\ UNCHANGED <<now, doc, count, buffers, command, inputs, render, mark,
                 repeated, gaveUp, raced>>

\* BackupAndDeleteBuffer reads wholeBuffer; FreeJpgMemory frees all three.
FreeJpgMemory(t) ==
  /\ timer[t] = "backup"
  /\ broken' = (broken \/ whole < Whole(meta.size))
  /\ whole' = 0
  /\ copy' = NoFrame
  /\ temp' = NoFrame
  /\ timer' = [timer EXCEPT ![t] = "none"]
  /\ UNCHANGED <<now, doc, count, meta, command, inputs, render, mark,
                 repeated, gaveUp, raced>>

Command == LoadBegin \/ InitFlushEmptyTime \/ LoadFinished

Engine ==
  \/ \E f \in [stamp : Rendered, size : Sizes] : Callback(f)
  \/ TestStamp \/ TestFlag
  \/ AllocDirect \/ SendDirect \/ FreeDirect
  \/ StoreFrame \/ StartNoTimer
  \/ \E t \in Timers : StartTimer(t)
  \/ \E s \in Rendered : FlushEmptyCallback(s)
  \/ SetFlushEmpty

Timer(t) ==
  \/ PollSend(t) \/ PollGiveUp(t)
  \/ SendBufferOnTimer(t) \/ CopyBuffer(t) \/ AllocWholeBuffer(t)
  \/ SendPixmap(t) \/ FreeJpgMemory(t)

Next == Tick \/ Command \/ Engine \/ \E t \in Timers : Timer(t)

Spec == Init /\ [][Next]_vars

(* Time passes and the threads run; WriteData returns (see ImageChannel).  *)
FairSpec ==
  /\ Spec
  /\ WF_vars(Tick)
  /\ WF_vars(InitFlushEmptyTime \/ LoadFinished)
  /\ WF_vars(\/ TestStamp \/ TestFlag \/ AllocDirect \/ SendDirect \/ FreeDirect
             \/ StoreFrame \/ StartNoTimer \/ \E t \in Timers : StartTimer(t))
  /\ WF_vars(SetFlushEmpty)
  /\ \A t \in Timers : WF_vars(Timer(t))

----------------------------------------------------------------------------

(* At most one timer thread polls, and none while isStartCount lets the    *)
(* render thread start one, however loads, images and timers overlap.      *)
OnePoller ==
  /\ canStart => Polling = {}
  /\ \A t, u \in Polling : t = u

(* As long as nothing comes in the way of a timer, no buffer is read after *)
(* FreeJpgMemory or past its end, although lengthTemp is read again,       *)
(* without the mutex, after the copy was made.  In the way comes a load or *)
(* an image while the timer is busy, or an image that Callback let through *)
(* and LoadDocCallback sends directly beside the timer: nothing in the code*)
(* prevents it, and it may free or replace what the timer reads.           *)
BuffersAlive == ~raced => ~broken

(* And what a timer sends is the last image of the last loaded document:   *)
(* "300ms内有出图选取最后一张图".                                                     *)
SendsLastImage ==
  [][\A t \in Timers : (SendPixmap(t) /\ ~raced) =>
        /\ copy = temp /\ copy.size = meta.size
        /\ copy.stamp >= docTime]_vars

(* And a timer ends without sending an image it has only if the image was  *)
(* rendered after the end mark, or the end mark came again and again: the  *)
(* 300 ms and 100 ms limits leave no other image for the nine seconds.     *)
GivesUpOnLateImage ==
  [][\A t \in Timers : (PollGiveUp(t) /\ ~raced /\ ~repeated) =>
        (temp = NoFrame \/ meta.stamp >= flush.stamp)]_vars

(* A timer that polls comes to an end, whatever arrives meanwhile. *)
PollingEnds == (Polling # {}) ~> (Polling = {})

(* An image kept for a loaded document is sent, unless a timer gave up     *)
(* before or the commands overlapped: then no timer is left to send it.    *)
KeptImageIsSent ==
  (flag = "FINISHED" /\ temp # NoFrame) ~> (flag # "FINISHED" \/ gaveUp \/ raced)

=============================================================================
