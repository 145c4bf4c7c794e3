--------------------------- MODULE TaskScheduler ---------------------------
(***************************************************************************)
(* What EventHandler::PostTask promises its callers, with no queue, mutex  *)
(* or batch in it: a task runs at most once, never before its delay is     *)
(* over, and never ahead of a task that had already been accepted when it  *)
(* was requested and was due no later.  Nothing is promised about tasks    *)
(* requested concurrently, nor about tasks left when the loop is closed.   *)
(***************************************************************************)
EXTENDS Naturals

CONSTANTS
  Tasks,   \* task instances, each requested at most once
  Delays,  \* the delayTime values callers pass, in clock ticks
  NoDue    \* marks a task nobody has requested yet

VARIABLES
  clock,     \* the steady clock
  due,       \* when each requested task may run, or NoDue
  after,     \* the tasks each requested task may not overtake
  accepted,  \* tasks whose PostTask has returned
  ran,       \* tasks that have been started
  open       \* the loop still accepts work

vars == <<clock, due, after, accepted, ran, open>>

Init ==
  /\ clock = 0
  /\ due = [k \in Tasks |-> NoDue]
  /\ after = [k \in Tasks |-> {}]
  /\ accepted = {}
  /\ ran = {}
  /\ open = TRUE

Advance ==
  /\ clock' = clock + 1
  /\ UNCHANGED <<due, after, accepted, ran, open>>

Request(k, d) ==
  /\ due[k] = NoDue
  /\ due' = [due EXCEPT ![k] = clock + d]
  /\ after' = [after EXCEPT ![k] = {u \in accepted : due[u] <= clock + d}]
  /\ UNCHANGED <<clock, accepted, ran, open>>

Accept(k) ==
  /\ due[k] # NoDue
  /\ k \notin accepted
  /\ accepted' = accepted \cup {k}
  /\ UNCHANGED <<clock, due, after, ran, open>>

Execute(k) ==
  /\ open
  /\ k \in accepted \ ran
  /\ due[k] <= clock
  /\ after[k] \subseteq ran
  /\ ran' = ran \cup {k}
  /\ UNCHANGED <<clock, due, after, accepted, open>>

Close ==
  /\ open' = FALSE
  /\ UNCHANGED <<clock, due, after, accepted, ran>>

Next ==
  \/ Advance
  \/ \E k \in Tasks, d \in Delays : Request(k, d)
  \/ \E k \in Tasks : Accept(k) \/ Execute(k)
  \/ Close

Spec == Init /\ [][Next]_vars

=============================================================================
