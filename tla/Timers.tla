------------------------------- MODULE Timers -------------------------------
(***************************************************************************)
(* What the JS thread of the lite previewer runs in its loop: the timers   *)
(* of its CppTimerManager and, from the timer that checks the device, the  *)
(* asynchronous work.  A turn copies the list of timers, queues the        *)
(* callbacks of those that expired and only then runs the queue, from its  *)
(* back; the application's code starts and stops timers and dispatches     *)
(* work while it runs.  A handle is used for one timer only.               *)
(***************************************************************************)
EXTENDS Integers, Sequences, SequencesExt

CONSTANTS
  Handles,      \* handles of the application's timers
  Device,       \* JsAppImpl::deviceCheckTimer
  Delays,       \* delays the application asks for
  DeviceDelay,  \* DEVICE_CHECK_TIMER_INTERVAL
  MaxWork       \* bound: asynchronous work dispatched

ASSUME TimersAssumption ==
  /\ Device \notin Handles
  /\ Delays \subseteq Nat /\ DeviceDelay \in Nat \ {0} /\ MaxWork \in Nat

Timer == Handles \cup {Device}
Forever == -1   \* shotTimes of a periodic timer

VARIABLES
  timer,         \* CppTimer: interval, shotTimes and the time since startTime
  runningTimers, \* CppTimerManager::runningTimers
  tempTimers,    \* its copy, from the timer that is looked at next
  callBackList,  \* CallbackQueue::callBackList
  workList,      \* AsyncWorkManager::workList, work numbered as dispatched
  tempList,      \* the copy that is being run
  js,            \* where the JS thread is
  fired,         \* history: callbacks run per timer, up to two
  late,          \* history: those run after the timer was stopped
  dispatched,    \* history: how much work was dispatched
  worked         \* history: the work that was run

timers == <<timer, runningTimers, tempTimers, callBackList, fired, late>>
work == <<workList, tempList, dispatched, worked>>

Unused == [state |-> "unused", interval |-> 0, shotTimes |-> 0, passed |-> 0]
NewTimer(delay, shots) ==
  [state |-> "live", interval |-> delay, shotTimes |-> shots, passed |-> 0]
Live(t) == timer[t].state = "live"
AtMostTwo(n) == IF n < 2 THEN n + 1 ELSE 2

TimersInit ==
  /\ timer = [t \in Timer |-> Unused]
  /\ runningTimers = <<>> /\ tempTimers = <<>> /\ callBackList = <<>>
  /\ workList = <<>> /\ tempList = <<>> /\ worked = <<>>
  /\ dispatched = 0
  /\ fired = [t \in Handles |-> 0] /\ late = [t \in Handles |-> 0]

\* Time passes for all timers; what is past the interval is not told apart.
Tick ==
  /\ timer' = [t \in Timer |->
       [timer[t] EXCEPT !.passed = IF Live(t) /\ @ < timer[t].interval
                                     THEN @ + 1 ELSE @]]
  /\ UNCHANGED <<runningTimers, tempTimers, callBackList, fired, late, js>>
  /\ UNCHANGED work

(***************************************************************************)
(* What the application's code does while a callback of it runs.           *)
(***************************************************************************)
StartTimerTask(t, delay, shots) ==
  /\ timer[t] = Unused
  /\ timer' = [timer EXCEPT ![t] = NewTimer(delay, shots)]
  /\ runningTimers' = Append(runningTimers, t)
  /\ UNCHANGED <<tempTimers, callBackList, fired, late, js>>
  /\ UNCHANGED work

\* Mutant of StopTimerTask: the freed timer stays in the list.
StopTimerTaskListed(t) ==
  /\ Live(t)
  /\ timer' = [timer EXCEPT ![t] = [Unused EXCEPT !.state = "freed"]]
  /\ UNCHANGED <<runningTimers, tempTimers, callBackList, fired, late, js>>
  /\ UNCHANGED work

\* A callback that is queued stays queued.  The list holds a timer once.
StopTimerTask(t) ==
  /\ Live(t)
  /\ timer' = [timer EXCEPT ![t] = [Unused EXCEPT !.state = "freed"]]
  /\ runningTimers' = RemoveFirst(runningTimers, t)
  /\ UNCHANGED <<tempTimers, callBackList, fired, late, js>>
  /\ UNCHANGED work

DispatchAsyncWork ==
  /\ dispatched < MaxWork
  /\ dispatched' = dispatched + 1
  /\ workList' = Append(workList, dispatched')
  /\ UNCHANGED <<tempList, worked, js>>
  /\ UNCHANGED timers

AppCode ==
  \/ \E t \in Handles :
       \/ \E delay \in Delays, shots \in {1, Forever} : StartTimerTask(t, delay, shots)
       \/ StopTimerTask(t)
  \/ DispatchAsyncWork

(***************************************************************************)
(* CppTimerManager::RunTimerTick.                                          *)
(***************************************************************************)
\* Of the three timers only the one that checks the device is told apart: what
\* the others run is the engine's tasks and a flag.
InitTimer ==
  /\ js = "timers"
  /\ timer' = [timer EXCEPT ![Device] = NewTimer(DeviceDelay, Forever)]
  /\ runningTimers' = Append(runningTimers, Device)
  /\ js' = "loop"
  /\ UNCHANGED <<tempTimers, callBackList, fired, late>>
  /\ UNCHANGED work

RunTimerTick ==
  /\ js = "loop"
  /\ tempTimers' = runningTimers
  /\ js' = "pass"
  /\ UNCHANGED <<timer, runningTimers, callBackList, fired, late>>
  /\ UNCHANGED work

Expired(t) ==
  /\ timer[t].interval # 0
  /\ timer[t].passed >= timer[t].interval
  /\ timer[t].shotTimes # 0

\* Mutant of LookAtTimer: shotTimes is counted down when the timer is looked at.
LookAtTimerCounted ==
  /\ js = "pass" /\ tempTimers # <<>>
  /\ LET t == Head(tempTimers) IN
       /\ callBackList' = IF Expired(t) THEN Append(callBackList, t) ELSE callBackList
       /\ timer' = [timer EXCEPT ![t].passed = IF Expired(t) THEN 0 ELSE @,
                                 ![t].shotTimes = IF @ = 1 THEN 0 ELSE @]
  /\ tempTimers' = Tail(tempTimers)
  /\ UNCHANGED <<runningTimers, fired, late, js>>
  /\ UNCHANGED work

\* CppTimer::RunTimerTick on one timer after the other.
LookAtTimer ==
  /\ js = "pass" /\ tempTimers # <<>>
  /\ LET t == Head(tempTimers) IN
       IF Expired(t)
         THEN /\ callBackList' = Append(callBackList, t)
              /\ timer' = [timer EXCEPT ![t].passed = 0,
                                        ![t].shotTimes = IF @ = 1 THEN 0 ELSE @]
         ELSE UNCHANGED <<callBackList, timer>>
  /\ tempTimers' = Tail(tempTimers)
  /\ UNCHANGED <<runningTimers, fired, late, js>>
  /\ UNCHANGED work

ConsumingCallback ==
  /\ js = "pass" /\ tempTimers = <<>>
  /\ js' = "drain"
  /\ UNCHANGED <<timers, work>>

RunCallback ==
  /\ js = "drain" /\ callBackList # <<>>
  /\ LET t == Last(callBackList) IN
       /\ js' = IF t = Device THEN "device" ELSE "call"
       /\ fired' = [u \in Handles |-> IF u = t THEN AtMostTwo(fired[u]) ELSE fired[u]]
       /\ late' = [u \in Handles |->
                     IF u = t /\ ~Live(u) THEN AtMostTwo(late[u]) ELSE late[u]]
  /\ UNCHANGED <<timer, runningTimers, tempTimers, callBackList>>
  /\ UNCHANGED work

\* Mutant of EndCallback: the callback at the other end is removed.
EndCallbackFront ==
  /\ js = "call" \/ (js = "work" /\ tempList = <<>>)
  /\ callBackList' = Tail(callBackList)
  /\ js' = "drain"
  /\ UNCHANGED <<timer, runningTimers, tempTimers, fired, late>>
  /\ UNCHANGED work

EndCallback ==
  /\ js = "call" \/ (js = "work" /\ tempList = <<>>)
  /\ callBackList' = Front(callBackList)
  /\ js' = "drain"
  /\ UNCHANGED <<timer, runningTimers, tempTimers, fired, late>>
  /\ UNCHANGED work

EndTick ==
  /\ js = "drain" /\ callBackList = <<>>
  /\ js' = "loop"
  /\ UNCHANGED <<timers, work>>

(***************************************************************************)
(* The asynchronous work, from TimerTaskHandler::CheckDevice.              *)
(***************************************************************************)
\* Mutant of ExecAllAsyncWork: the list is not cleared.
ExecAllAsyncWorkKept ==
  /\ js = "device"
  /\ tempList' = workList
  /\ js' = "work"
  /\ UNCHANGED <<workList, dispatched, worked>>
  /\ UNCHANGED timers

\* Mutant of ExecAllAsyncWork: one piece of work is taken, the rest forgotten.
ExecAllAsyncWorkFirst ==
  /\ js = "device"
  /\ tempList' = SubSeq(workList, 1, IF workList = <<>> THEN 0 ELSE 1)
  /\ workList' = <<>>
  /\ js' = "work"
  /\ UNCHANGED <<dispatched, worked>>
  /\ UNCHANGED timers

ExecAllAsyncWork ==
  /\ js = "device"
  /\ tempList' = workList
  /\ workList' = <<>>
  /\ js' = "work"
  /\ UNCHANGED <<dispatched, worked>>
  /\ UNCHANGED timers

RunWork ==
  /\ js = "work" /\ tempList # <<>>
  /\ worked' = Append(worked, Head(tempList))
  /\ tempList' = Tail(tempList)
  /\ js' = "working"
  /\ UNCHANGED <<workList, dispatched>>
  /\ UNCHANGED timers

EndWork ==
  /\ js = "working"
  /\ js' = "work"
  /\ UNCHANGED <<timers, work>>

\* On the main thread.
ClearAllAsyncWork ==
  /\ workList' = <<>>
  /\ UNCHANGED <<tempList, dispatched, worked, js>>
  /\ UNCHANGED timers

TimerTurn ==
  \/ LookAtTimer \/ ConsumingCallback \/ RunCallback \/ EndCallback \/ EndTick
  \/ ExecAllAsyncWork \/ RunWork \/ EndWork

=============================================================================
