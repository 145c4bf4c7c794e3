---------------------------- MODULE EventRunner ----------------------------
(***************************************************************************)
(* The main loop of the rich previewer (JsAppImpl::Start) and the delayed  *)
(* task queue it drains: EventHandler::PostTask, called from any thread,   *)
(* EventRunner::PushTask and EventRunner::Run.  The due time of a task is  *)
(* computed before the queue mutex is taken, the tie-breaking order inside *)
(* it; Run samples the clock before the mutex, pops the expired tasks      *)
(* under it and runs them outside it, so a task may itself post tasks.     *)
(***************************************************************************)
EXTENDS Naturals, Sequences

CONSTANTS
  Posters,  \* threads that post: the command thread, the engine's threads
  Main,     \* the thread of JsAppImpl::Start, which runs the tasks
  Tasks,    \* task instances, each posted once
  Delays,   \* values of delayTime
  MaxTime,  \* bound on the clock (and so on the due times) in this model
  NoDue,    \* marks a task that was never posted
  Idle      \* a thread that is not inside PostTask

Threads == Posters \cup {Main}

ASSUME RunnerAssumption ==
  /\ Main \notin Posters
  /\ Delays \subseteq Nat
  /\ MaxTime \in Nat
  /\ NoDue \notin Nat
  /\ Idle \notin [task : Tasks, target : Nat]

VARIABLES
  clock,      \* std::chrono::steady_clock
  post,       \* per thread: the task and target of a PostTask that has not
              \* reached the mutex yet, or Idle
  queue,      \* the priority queue, as the set of its EventTask entries
  order,      \* the static counter of PushTask
  mutexHeld,  \* Run holds the queue mutex
  pc,         \* where the main thread is
  now,        \* Run's sample of the clock
  copyTasks,  \* Run's local vector of expired tasks
  isStop,     \* JsAppImpl::isStop, set by the command thread
  due,        \* history: due time of every posted task
  after,      \* history: tasks accepted before it was posted, due no later
  ran         \* history: tasks whose callback has been entered

runVars == <<pc, now, copyTasks, mutexHeld>>
history == <<due, after, ran>>
vars == <<clock, post, queue, order, runVars, isStop, history>>

EventTask == [order : Nat, task : Tasks, target : Nat]

\* Mutant of Precedes: ties are broken the wrong way round.
PrecedesNewestFirst(e, f) ==
  \/ e.target < f.target
  \/ e.target = f.target /\ e.order > f.order

\* EventTask::operator> orders the heap: earlier target first, then the
\* smaller order.
Precedes(e, f) ==
  \/ e.target < f.target
  \/ e.target = f.target /\ e.order < f.order

IsTop(e) == \A f \in queue \ {e} : Precedes(e, f)

Posting == {post[t].task : t \in {u \in Threads : post[u] # Idle}}
Accepted == {k \in Tasks : due[k] # NoDue} \ Posting

Init ==
  /\ clock = 0
  /\ post = [t \in Threads |-> Idle]
  /\ queue = {}
  /\ order = 0
  /\ mutexHeld = FALSE
  /\ pc = "loop"
  /\ now = 0
  /\ copyTasks = <<>>
  /\ isStop = FALSE
  /\ due = [k \in Tasks |-> NoDue]
  /\ after = [k \in Tasks |-> {}]
  /\ ran = {}

Tick ==
  /\ clock < MaxTime
  /\ clock' = clock + 1
  /\ UNCHANGED <<post, queue, order, runVars, isStop, history>>

(***************************************************************************)
(* Posting threads.  The main thread posts from inside a task.             *)
(***************************************************************************)
PostTask(t, k, d) ==
  /\ post[t] = Idle
  /\ t = Main => pc = "task"
  /\ due[k] = NoDue
  /\ clock + d <= MaxTime
  /\ post' = [post EXCEPT ![t] = [task |-> k, target |-> clock + d]]
  /\ due' = [due EXCEPT ![k] = clock + d]
  /\ after' = [after EXCEPT ![k] = {u \in Accepted : due[u] <= clock + d}]
  /\ UNCHANGED <<clock, queue, order, runVars, isStop, ran>>

PushTask(t) ==
  /\ post[t] # Idle
  /\ ~mutexHeld
  /\ order' = order + 1
  /\ queue' = queue \cup
       {[order |-> order + 1, task |-> post[t].task, target |-> post[t].target]}
  /\ post' = [post EXCEPT ![t] = Idle]
  /\ UNCHANGED <<clock, runVars, isStop, history>>

(***************************************************************************)
(* The main thread: while (!isStop) { Run(); PollEvents; sleep 1 ms }.     *)
(***************************************************************************)
Run ==
  /\ pc = "loop"
  /\ ~isStop
  /\ now' = clock
  /\ copyTasks' = <<>>
  /\ pc' = "sampled"
  /\ UNCHANGED <<clock, post, queue, order, mutexHeld, isStop, history>>

LockQueue ==
  /\ pc = "sampled"
  /\ mutexHeld' = TRUE
  /\ pc' = "collect"
  /\ UNCHANGED <<clock, post, queue, order, now, copyTasks, isStop, history>>

\* Mutant of PopExpired: the pop is forgotten when the task is copied.
PopExpiredNotPopped ==
  /\ pc = "collect"
  /\ \E e \in queue :
       /\ IsTop(e)
       /\ e.target <= now
       /\ Len(copyTasks) < 2
       /\ copyTasks' = Append(copyTasks, e.task)
  /\ UNCHANGED <<clock, post, queue, order, pc, now, mutexHeld, isStop, history>>

PopExpired ==
  /\ pc = "collect"
  /\ \E e \in queue :
       /\ IsTop(e)
       /\ e.target <= now
       /\ copyTasks' = Append(copyTasks, e.task)
       /\ queue' = queue \ {e}
  /\ UNCHANGED <<clock, post, order, pc, now, mutexHeld, isStop, history>>

\* Mutant of UnlockQueue: the unexpired tasks are dropped with the batch.
UnlockQueueCleared ==
  /\ pc = "collect"
  /\ \A e \in queue : IsTop(e) => e.target > now
  /\ mutexHeld' = FALSE
  /\ queue' = {}
  /\ pc' = "flush"
  /\ UNCHANGED <<clock, post, order, now, copyTasks, isStop, history>>

UnlockQueue ==
  /\ pc = "collect"
  /\ \A e \in queue : IsTop(e) => e.target > now
  /\ mutexHeld' = FALSE
  /\ pc' = "flush"
  /\ UNCHANGED <<clock, post, queue, order, now, copyTasks, isStop, history>>

StartTask ==
  /\ pc = "flush"
  /\ copyTasks # <<>>
  /\ ran' = ran \cup {Head(copyTasks)}
  /\ copyTasks' = Tail(copyTasks)
  /\ pc' = "task"
  /\ UNCHANGED <<clock, post, queue, order, now, mutexHeld, isStop, due, after>>

EndTask ==
  /\ pc = "task"
  /\ post[Main] = Idle
  /\ pc' = "flush"
  /\ UNCHANGED <<clock, post, queue, order, now, copyTasks, mutexHeld, isStop,
                 history>>

EndRun ==
  /\ pc = "flush"
  /\ copyTasks = <<>>
  /\ pc' = "loop"
  /\ UNCHANGED <<clock, post, queue, order, now, copyTasks, mutexHeld, isStop,
                 history>>

\* The loop is left; StopAbility follows and the tasks still queued never run.
LeaveLoop ==
  /\ pc = "loop"
  /\ isStop
  /\ pc' = "stopped"
  /\ UNCHANGED <<clock, post, queue, order, now, copyTasks, mutexHeld, isStop,
                 history>>

\* JsAppImpl::Interrupt, on the command thread.
Interrupt ==
  /\ isStop' = TRUE
  /\ UNCHANGED <<clock, post, queue, order, runVars, history>>

MainStep ==
  \/ Run \/ LockQueue \/ PopExpired \/ UnlockQueue
  \/ StartTask \/ EndTask \/ EndRun \/ LeaveLoop

Next ==
  \/ Tick
  \/ \E t \in Threads, k \in Tasks, d \in Delays : PostTask(t, k, d)
  \/ \E t \in Threads : PushTask(t)
  \/ MainStep
  \/ Interrupt

Spec == Init /\ [][Next]_vars

(***************************************************************************)
(* Time passes, a thread inside PostTask gets the mutex (it is held for a  *)
(* bounded pop loop only), and the main thread is scheduled; that its      *)
(* tasks return is an assumption about the engine.                         *)
(***************************************************************************)
FairSpec ==
  /\ Spec
  /\ WF_vars(Tick)
  /\ \A t \in Threads : SF_vars(PushTask(t))
  /\ WF_vars(MainStep)

----------------------------------------------------------------------------
(* Type invariant of the loop and its queue. *)
TypeOK ==
  /\ clock \in Nat
  /\ post \in [Threads -> [task : Tasks, target : Nat] \cup {Idle}]
  /\ queue \subseteq EventTask
  /\ order \in Nat
  /\ mutexHeld \in BOOLEAN
  /\ pc \in {"loop", "sampled", "collect", "flush", "task", "stopped"}
  /\ now \in Nat
  /\ copyTasks \in Seq(Tasks)
  /\ isStop \in BOOLEAN
  /\ due \in [Tasks -> Nat \cup {NoDue}]
  /\ after \in [Tasks -> SUBSET Tasks]
  /\ ran \subseteq Tasks

Queued == {e.task : e \in queue}
Copied == {copyTasks[i] : i \in DOMAIN copyTasks}

(* A task whose PostTask has returned is in exactly one place: queued,     *)
(* copied by the current Run, or started.  None is lost or run twice, even *)
(* when a task posts tasks while the batch it belongs to is being run.     *)
NoTaskLostOrDoubled ==
  /\ Accepted = Queued \cup Copied \cup ran
  /\ Queued \cap Copied = {}
  /\ Queued \cap ran = {}
  /\ Copied \cap ran = {}
  /\ \A e, f \in queue : e.task = f.task => e = f
  /\ \A i, j \in DOMAIN copyTasks : copyTasks[i] = copyTasks[j] => i = j

(* The loop implements the scheduler callers of PostTask rely on: never    *)
(* early, never twice, and a task never overtakes one that was accepted    *)
(* before it was posted and was due no later, whichever threads posted     *)
(* them.                                                                   *)
Scheduler == INSTANCE TaskScheduler WITH
  accepted <- Accepted, open <- pc # "stopped"
SchedulerSpec == Scheduler!Spec

(* A posted task is started unless the loop is told to stop first: Run     *)
(* samples the clock before the mutex, yet no task stays behind forever.   *)
PostedTaskRuns ==
  \A k \in Tasks : (due[k] # NoDue) ~> (k \in ran \/ isStop)

=============================================================================
