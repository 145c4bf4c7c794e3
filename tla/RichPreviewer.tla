--------------------------- MODULE RichPreviewer ---------------------------
(***************************************************************************)
(* The life of the rich previewer: the main thread starts the application, *)
(* runs its loop until isStop and tears it down (JsAppImpl::Start,         *)
(* StopAbility); the detached command thread runs the command loop of      *)
(* CommandChannel from the beginning and, after exit, JsApp::Stop, which   *)
(* interrupts the application until isFinished or for ten seconds.         *)
(***************************************************************************)
EXTENDS CommandChannel

VARIABLES
  main,        \* where the main thread is
  ability,     \* the application's ability exists
  isFinished,
  isStop,
  stop,        \* where JsApp::Stop is on the command thread
  early        \* history: Stop found isFinished as it was constructed

life == <<main, ability, isFinished, isStop, stop, early>>
allVars == <<vars, life>>

RichInit ==
  /\ Init
  /\ main = "boot"
  /\ ability = FALSE
  /\ isFinished = TRUE
  /\ isStop = FALSE
  /\ stop = "no"
  /\ early = FALSE

(***************************************************************************)
(* The main thread.                                                        *)
(***************************************************************************)
\* InitAll of the screen opens the image channel, then the run begins.
StartChannel ==
  /\ main = "boot"
  /\ StartListening
  /\ UNCHANGED life

Start ==
  /\ main = "boot"
  /\ isWebSocketListening
  /\ isFinished' = FALSE
  /\ main' = "start"
  /\ UNCHANGED <<vars, ability, isStop, stop, early>>

RunJsApp ==
  /\ main = "start"
  /\ ability' = TRUE
  /\ main' = "loop"
  /\ UNCHANGED <<vars, isFinished, isStop, stop, early>>

\* Mutant of LeaveLoop: the main loop looks at the interrupter.
LeaveLoopInterrupted ==
  /\ main = "loop"
  /\ interrupted
  /\ main' = "stop"
  /\ UNCHANGED <<vars, ability, isFinished, isStop, stop, early>>

\* Mutant of LeaveLoop: isFinished is set when the loop ends.
LeaveLoopFinished ==
  /\ main = "loop"
  /\ isStop
  /\ main' = "stop"
  /\ isFinished' = TRUE
  /\ UNCHANGED <<vars, ability, isStop, stop, early>>

LeaveLoop ==
  /\ main = "loop"
  /\ isStop
  /\ main' = "stop"
  /\ UNCHANGED <<vars, ability, isFinished, isStop, stop, early>>

StopAbility ==
  /\ main = "stop"
  /\ ability' = FALSE
  /\ main' = "stopped"
  /\ UNCHANGED <<vars, isFinished, isStop, stop, early>>

Finish ==
  /\ main = "stopped"
  /\ isFinished' = TRUE
  /\ main' = "finished"
  /\ UNCHANGED <<vars, ability, isStop, stop, early>>

(***************************************************************************)
(* JsApp::Stop, after the command loop.                                    *)
(***************************************************************************)
StopBegin ==
  /\ stop = "no"
  /\ interrupted /\ loop = "turn"
  /\ stop' = "check"
  /\ UNCHANGED <<vars, main, ability, isFinished, isStop, early>>

\* Mutant of Interrupt: isStop is not set.
InterruptNothing ==
  /\ stop = "check"
  /\ ~isFinished
  /\ stop' = "sleep"
  /\ UNCHANGED <<vars, main, ability, isFinished, isStop, early>>

Interrupt ==
  /\ stop = "check"
  /\ ~isFinished
  /\ isStop' = TRUE
  /\ stop' = "sleep"
  /\ UNCHANGED <<vars, main, ability, isFinished, early>>

\* More than ten seconds may have passed, or not.
StopSleep ==
  /\ stop = "sleep"
  /\ stop' \in {"check", "timedOut"}
  /\ UNCHANGED <<vars, main, ability, isFinished, isStop, early>>

StopFinished ==
  /\ stop = "check"
  /\ isFinished
  /\ stop' = "finished"
  /\ early' = (main = "boot")
  /\ UNCHANGED <<vars, main, ability, isFinished, isStop>>

Main == StartChannel \/ Start \/ RunJsApp \/ LeaveLoop \/ StopAbility \/ Finish
Stop == StopBegin \/ Interrupt \/ StopSleep \/ StopFinished

\* The command loop stands still once Stop has begun, the process once the
\* main thread has returned.
RichNext ==
  \/ Main
  \/ main # "finished" /\ Stop
  \/ /\ stop = "no"
     /\ ProcessCommand
     /\ UNCHANGED life
  \/ Ide /\ UNCHANGED life
  \/ ability /\ CreatCommandToSendData /\ UNCHANGED life

RichSpec == RichInit /\ [][RichNext]_allVars

(* All threads are scheduled, RunJsApp and StopAbility return. *)
RichFairSpec ==
  /\ RichSpec
  /\ WF_allVars(Main)
  /\ WF_allVars(Stop)
  /\ WF_allVars(stop = "no" /\ ProcessCommand /\ UNCHANGED life)

----------------------------------------------------------------------------

(* The ability is torn down only when the command thread runs no command   *)
(* any more and has answered every one it ran: it uses the ability without *)
(* a lock, and the pipe's answers must be out before the process ends.     *)
NoCommandAfterStop ==
  main \in {"stop", "stopped", "finished"} =>
    interrupted /\ loop = "turn" /\ result = NoResult

(* Unless exit came before the start, Stop ends without a timeout only     *)
(* when the ability is gone.                                               *)
StopWaits == (stop = "finished" /\ ~early) => main = "finished" /\ ~ability

(* And then exit ends the application, even if Stop timed out. *)
ExitEndsApp == interrupted ~> (main = "finished" \/ early)

(* What the log of Stop says: "JsApp::Stop js app stop finished.", the     *)
(* application is not running.                                             *)
StopFinishedMeansStopped ==
  [][stop = "finished" => main' \notin {"start", "loop"}]_allVars

=============================================================================
