--------------------------- MODULE CommandService ---------------------------
(***************************************************************************)
(* What the command pipe promises the IDE, without bytes, turns or results *)
(* in it: commands are taken in the order of the requests, some never; the *)
(* one taken is answered, once, before the next is taken; and the command  *)
(* that closes the service is the last one and gets an empty answer more.  *)
(***************************************************************************)
EXTENDS Naturals, Sequences

Empty == 0   \* an answer without a result: no request has this number

VARIABLES
  requested,  \* requests are numbered from 1: the last one
  taken,      \* the last one taken, or Empty
  busy,       \* it waits for an answer
  answers,    \* what was answered
  open        \* the service takes commands

vars == <<requested, taken, busy, answers, open>>

Init ==
  /\ requested = 0
  /\ taken = Empty
  /\ busy = FALSE
  /\ answers = <<>>
  /\ open = TRUE

Request ==
  /\ requested' = requested + 1
  /\ UNCHANGED <<taken, busy, answers, open>>

Take(id) ==
  /\ open
  /\ ~busy
  /\ id > taken
  /\ id <= requested
  /\ taken' = id
  /\ busy' = TRUE
  /\ UNCHANGED <<requested, answers, open>>

Answer(answer) ==
  /\ busy
  /\ open \/ answer = Empty
  /\ answers' = Append(answers, answer)
  /\ busy' = FALSE
  /\ UNCHANGED <<requested, taken, open>>

Close ==
  /\ busy
  /\ open
  /\ answers' = Append(answers, taken)
  /\ open' = FALSE
  /\ UNCHANGED <<requested, taken, busy>>

Next ==
  \/ Request
  \/ \E id \in 1..requested : Take(id)
  \/ \E answer \in {taken, Empty} : Answer(answer)
  \/ Close

Spec == Init /\ [][Next]_vars

=============================================================================
