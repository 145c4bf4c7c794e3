--------------------------- MODULE LitePreviewer ---------------------------
(***************************************************************************)
(* The life of the lite previewer.  The main thread starts the JS thread,  *)
(* serves commands until exit and then, in JsApp::Stop, interrupts the     *)
(* application until isFinished or for ten seconds; it tears the ability   *)
(* down itself, without a lock, wherever the JS thread is: launching the   *)
(* application, running its callbacks or its work (module Timers).         *)
(***************************************************************************)
EXTENDS Timers

CONSTANT MaxTurns   \* bound: turns of the loop in JsApp::Stop

VARIABLES
  main,        \* where the main thread is
  turns,       \* turns of the loop in Stop
  jsAbility,   \* the pointer is not null
  isFinished,
  isInterrupt,
  url          \* a page was given to start with

life == <<main, turns, jsAbility, isFinished, isInterrupt, url>>
allVars == <<timers, work, js, life>>

LiteInit ==
  /\ TimersInit
  /\ js = "none"
  /\ main = "start" /\ turns = 0
  /\ jsAbility = FALSE
  /\ isFinished = TRUE /\ isInterrupt = FALSE
  /\ url \in BOOLEAN

(***************************************************************************)
(* The JS thread.                                                          *)
(***************************************************************************)
\* StartJsApp: the ability is made, launched and shown.
MakeAbility ==
  /\ js = "init"
  /\ jsAbility' = TRUE
  /\ js' = "made"
  /\ UNCHANGED <<timers, work, main, turns, isFinished, isInterrupt, url>>

\* Launch and Show are called through the pointer: the process crashes if the
\* main thread has reset it.
Through(next) == js' = IF jsAbility THEN next ELSE "crashed"

Launch ==
  /\ js = "made"
  /\ Through("launch")
  /\ UNCHANGED <<timers, work, life>>

Show ==
  /\ js = "launch"
  /\ Through("shown")
  /\ UNCHANGED <<timers, work, life>>

Launched ==
  /\ js = "shown"
  /\ isFinished' = IF url THEN FALSE ELSE isFinished
  /\ js' = "timers"
  /\ UNCHANGED <<timers, work, main, turns, jsAbility, isInterrupt, url>>

\* The application's code runs in Launch and in its callbacks, until it is
\* torn down.
RunAppCode ==
  /\ js \in {"launch", "call", "device", "working"}
  /\ jsAbility
  /\ AppCode
  /\ UNCHANGED life

EndThread ==
  /\ js = "loop" /\ isInterrupt
  /\ js' = "ended"
  /\ UNCHANGED <<timers, work, life>>

ThreadCallBack ==
  \/ MakeAbility \/ Launch \/ Show \/ Launched \/ EndThread
  \/ (InitTimer \/ TimerTurn) /\ UNCHANGED life
  \/ ~isInterrupt /\ RunTimerTick /\ UNCHANGED life

(***************************************************************************)
(* The main thread.                                                        *)
(***************************************************************************)
Start ==
  /\ main = "start"
  /\ isFinished' = FALSE /\ isInterrupt' = FALSE
  /\ js' = "init"
  /\ main' = "commands"
  /\ UNCHANGED <<timers, work, turns, jsAbility, url>>

Exit ==
  /\ main = "commands"
  /\ main' = "check"
  /\ UNCHANGED <<timers, work, js, turns, jsAbility, isFinished, isInterrupt, url>>

\* JsAppImpl::Interrupt: work is cleared, then the ability is destroyed.
ClearWork ==
  /\ main = "check" /\ ~isFinished
  /\ ClearAllAsyncWork
  /\ main' = "interrupt"
  /\ UNCHANGED <<turns, jsAbility, isFinished, isInterrupt, url>>

NoAbility ==
  /\ main = "interrupt" /\ ~jsAbility
  /\ main' = "sleep"
  /\ UNCHANGED <<timers, work, js, turns, jsAbility, isFinished, isInterrupt, url>>

Destroy ==
  /\ main = "interrupt" /\ jsAbility
  /\ jsAbility' = FALSE
  /\ main' = "destroyed"
  /\ UNCHANGED <<timers, work, js, turns, isFinished, isInterrupt, url>>

SetFinished ==
  /\ main = "destroyed"
  /\ isFinished' = TRUE
  /\ main' = "setInterrupt"
  /\ UNCHANGED <<timers, work, js, turns, jsAbility, isInterrupt, url>>

SetInterrupt ==
  /\ main = "setInterrupt"
  /\ isInterrupt' = TRUE
  /\ main' = "sleep"
  /\ UNCHANGED <<timers, work, js, turns, jsAbility, isFinished, url>>

\* Mutant of Sleep: nothing limits the loop.
SleepForever ==
  /\ main = "sleep"
  /\ main' = "check"
  /\ UNCHANGED <<timers, work, js, turns, jsAbility, isFinished, isInterrupt, url>>

\* Ten seconds may pass in any turn, and have passed in the last.
Sleep ==
  /\ main = "sleep"
  /\ \/ main' = "check" /\ turns < MaxTurns /\ turns' = turns + 1
     \/ main' = "timedOut" /\ turns' = turns
  /\ UNCHANGED <<timers, work, js, jsAbility, isFinished, isInterrupt, url>>

StopFinished ==
  /\ main = "check" /\ isFinished
  /\ main' = "stopped"
  /\ UNCHANGED <<timers, work, js, turns, jsAbility, isFinished, isInterrupt, url>>

\* main returns half a second later and ends the process.
Return ==
  /\ main \in {"stopped", "timedOut"}
  /\ main' = "ended"
  /\ UNCHANGED <<timers, work, js, turns, jsAbility, isFinished, isInterrupt, url>>

Stop ==
  \/ ClearWork \/ NoAbility \/ Destroy \/ SetFinished \/ SetInterrupt
  \/ Sleep \/ StopFinished \/ Return

Up == main # "ended" /\ js # "crashed"

LiteNext ==
  /\ Up
  /\ \/ Start \/ Exit \/ Stop
     \/ ThreadCallBack \/ RunAppCode
     \/ Tick /\ UNCHANGED life

LiteSpec == LiteInit /\ [][LiteNext]_allVars

(* Both threads are scheduled, time passes, the application's callbacks    *)
(* return; nobody has to exit.                                             *)
LiteFairSpec ==
  /\ LiteSpec
  /\ WF_allVars(Up /\ (Start \/ Stop))
  /\ WF_allVars(Up /\ ThreadCallBack)
  /\ WF_allVars(Up /\ Tick /\ UNCHANGED life)

----------------------------------------------------------------------------

\* A callback stays in the list while it runs; what is waiting is the rest.
Running == js \in {"call", "device", "work", "working"}
Waiting(t) ==
  Cardinality({i \in 1 .. Len(callBackList) - (IF Running THEN 1 ELSE 0) : callBackList[i] = t})

(* A one-shot timer fires once, neither lost nor repeated however timers   *)
(* are started and stopped while the queue runs; a timer that was stopped  *)
(* fires at most once more, by what was queued before.                     *)
FiresAsAsked ==
  \A t \in Handles :
    /\ (Live(t) /\ timer[t].shotTimes # Forever) =>
         timer[t].shotTimes + Waiting(t) + fired[t] = 1
    /\ late[t] + (IF Live(t) THEN 0 ELSE Waiting(t)) <= 1

(* No timer that was freed is looked at: callbacks free timers only after  *)
(* the pass over the copied list.                                          *)
TimersAlive ==
  \A t \in ToSet(runningTimers) \cup ToSet(tempTimers) : Live(t)

(* Work is run at most once and in the order it was dispatched, whatever   *)
(* the main thread clears meanwhile.                                       *)
WorkInOrder ==
  LET all == worked \o tempList \o workList IN
  \A i, j \in DOMAIN all : i < j => all[i] < all[j]

Over == isInterrupt \/ ~Up

(* A running timer fires or is stopped, unless the application ends; a     *)
(* delay of zero is one that never fires.                                  *)
TimerFires ==
  \A t \in Handles :
    (Live(t) /\ timer[t].interval # 0 /\ fired[t] = 0) ~> (~Live(t) \/ fired[t] > 0 \/ Over)

(* Work that is dispatched is run unless the application ends.             *)
WorkRuns ==
  \A n \in 1..MaxWork : (dispatched >= n) ~> (n \in ToSet(worked) \/ Over)

(* After exit the process ends, also when the application is started with  *)
(* a page and sets isFinished back after it was interrupted.               *)
ExitEndsLite == (main = "check") ~> ~Up

=============================================================================
