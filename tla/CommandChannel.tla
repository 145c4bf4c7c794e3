--------------------------- MODULE CommandChannel ---------------------------
(***************************************************************************)
(* The command pipe of both previewers: the IDE writes JSON messages that  *)
(* end with '\0' to a stream socket; the command loop reads one message    *)
(* per turn (LocalSocket::operator>>), dispatches it                       *)
(* (CommandLineInterface::ProcessCommandMessage) and answers it.  An       *)
(* answer without a result is sent as well, as {}.  operator>> stops at    *)
(* '\0' and also when the socket has no byte right now, so a message the   *)
(* IDE is still writing is cut in two.                                     *)
(*                                                                         *)
(* A message is a sequence of Body parts and the end; a kind says what the *)
(* dispatch makes of it.                                                   *)
(***************************************************************************)
EXTENDS Naturals, Sequences

CONSTANTS
  MaxMessages,  \* bound: messages the IDE writes
  Body,         \* parts of a message in front of its '\0'
  MaxEvents     \* bound: messages other threads send on the pipe

ASSUME ChannelAssumption == {MaxMessages, Body} \subseteq Nat \ {0} /\ MaxEvents \in Nat

(* "ok" runs and answers, "silent" runs and sets no result, "badArgs" does *)
(* not pass IsArgValid, "unknown" is not in typeMap, "ignored" is of an    *)
(* invalid type or left out for a static card, "exit" is ExitCommand.      *)
Kinds == {"ok", "silent", "badArgs", "unknown", "ignored", "exit"}
Ids == 1..MaxMessages
End == Body + 1

NoResult == 0     \* commandResult is an empty object, sent as {}
NoCommand == [id |-> 0, kind |-> "ignored"]

VARIABLES
  stream,       \* bytes the IDE wrote and nobody read yet
  writing,      \* the message the IDE is in: id, kind, parts written
  message,      \* what operator>> read in this turn
  loop,         \* where the command loop is
  command,      \* the message that is run
  result,       \* commandResult: the id it answers
  answers,      \* what was answered on the pipe: an id, or {}
  isWebSocketListening,
  isFirstWsSend,
  events,       \* what else was sent on the pipe
  interrupted,  \* Interrupter::isInterrupt
  served,       \* history: the commands run or refused, in this order
  torn,         \* history: ids read in two turns
  ignored       \* history: ids the dispatch left out

ide == <<stream, writing>>
signal == <<isWebSocketListening, isFirstWsSend>>
history == <<served, torn, ignored>>
vars == <<ide, message, loop, command, result, answers, signal, events,
          interrupted, history>>

Init ==
  /\ stream = <<>>
  /\ writing = [id |-> 0, kind |-> "ok", parts |-> End]
  /\ message = <<>>
  /\ loop = "turn"
  /\ command = NoCommand
  /\ result = NoResult
  /\ answers = <<>>
  /\ isWebSocketListening = FALSE
  /\ isFirstWsSend = TRUE
  /\ events = <<>>
  /\ interrupted = FALSE
  /\ served = <<>>
  /\ torn = {}
  /\ ignored = {}

(***************************************************************************)
(* The IDE and the other threads.                                          *)
(***************************************************************************)
BeginMessage(k) ==
  /\ writing.parts = End
  /\ writing.id < MaxMessages
  /\ writing' = [id |-> writing.id + 1, kind |-> k, parts |-> 0]
  /\ UNCHANGED <<stream, message, loop, command, result, answers, signal, events,
                 interrupted, history>>

WritePart ==
  /\ writing.parts < End
  /\ writing' = [writing EXCEPT !.parts = @ + 1]
  /\ stream' = Append(stream, [id |-> writing.id, kind |-> writing.kind,
                               part |-> writing.parts + 1])
  /\ UNCHANGED <<message, loop, command, result, answers, signal, events,
                 interrupted, history>>

StartListening ==
  /\ ~isWebSocketListening
  /\ isWebSocketListening' = TRUE
  /\ UNCHANGED <<ide, message, loop, command, result, answers, isFirstWsSend,
                 events, interrupted, history>>

\* CreatCommandToSendData, on the thread of the application.
CreatCommandToSendData ==
  /\ Len(SelectSeq(events, LAMBDA e : e = "page")) < MaxEvents
  /\ events' = Append(events, "page")
  /\ UNCHANGED <<ide, message, loop, command, result, answers, signal,
                 interrupted, history>>

(***************************************************************************)
(* The command loop.                                                       *)
(***************************************************************************)

\* Mutant of Turn: the loop does not look at the interrupter.
TurnOn ==
  /\ loop = "turn"
  /\ loop' = "read"
  /\ IF isWebSocketListening /\ isFirstWsSend
     THEN isFirstWsSend' = FALSE /\ events' = Append(events, "imageWebsocket")
     ELSE UNCHANGED <<isFirstWsSend, events>>
  /\ UNCHANGED <<ide, message, command, result, answers, isWebSocketListening,
                 interrupted, history>>

\* A turn begins: the startup signal is sent as soon as there is a port.
Turn ==
  /\ loop = "turn"
  /\ ~interrupted
  /\ loop' = "read"
  /\ IF isWebSocketListening /\ isFirstWsSend
     THEN isFirstWsSend' = FALSE /\ events' = Append(events, "imageWebsocket")
     ELSE UNCHANGED <<isFirstWsSend, events>>
  /\ UNCHANGED <<ide, message, command, result, answers, isWebSocketListening,
                 interrupted, history>>

LastPart == message[Len(message)]
Ended == message # <<>> /\ LastPart.part = End

\* Mutant of ReadByte: the loop of operator>> goes on after '\0'.
ReadByteOn ==
  /\ loop = "read"
  /\ stream # <<>>
  /\ message' = Append(message, Head(stream))
  /\ stream' = Tail(stream)
  /\ UNCHANGED <<writing, loop, command, result, answers, signal, events,
                 interrupted, history>>

ReadByte ==
  /\ loop = "read"
  /\ stream # <<>>
  /\ ~Ended
  /\ message' = Append(message, Head(stream))
  /\ stream' = Tail(stream)
  /\ UNCHANGED <<writing, loop, command, result, answers, signal, events,
                 interrupted, history>>

\* A whole object, with or without its '\0', is all that parses.
Parses ==
  /\ Len(message) \in {Body, End}
  /\ \A i \in 1..Len(message) : message[i].id = message[1].id /\ message[i].part = i

\* operator>> returns; the message is parsed, validated and dispatched.
Dispatch ==
  /\ loop = "read"
  /\ stream = <<>> \/ Ended
  /\ message' = <<>>
  /\ torn' = IF message # <<>> /\ LastPart.part < Body
             THEN torn \cup {LastPart.id} ELSE torn
  /\ IF message # <<>> /\ Parses /\ message[1].kind # "ignored"
     THEN /\ command' = [id |-> message[1].id, kind |-> message[1].kind]
          /\ loop' = IF message[1].kind \in {"badArgs", "unknown"} THEN "refuse" ELSE "run"
     ELSE command' = NoCommand /\ loop' = "turn"
  /\ ignored' = IF message # <<>> /\ Parses /\ message[1].kind = "ignored"
                THEN ignored \cup {message[1].id} ELSE ignored
  /\ UNCHANGED <<ide, result, answers, signal, events, interrupted, served>>

\* "Unsupported command", or a result of false for invalid arguments.
Refuse ==
  /\ loop = "refuse"
  /\ answers' = Append(answers, command.id)
  /\ served' = Append(served, command)
  /\ loop' = "turn"
  /\ UNCHANGED <<ide, message, command, result, signal, events, interrupted, torn,
                 ignored>>

\* Run of a command, which sets commandResult; ExitCommand sends it itself.
Run ==
  /\ loop = "run"
  /\ served' = Append(served, command)
  /\ result' = IF command.kind = "silent" THEN NoResult ELSE command.id
  /\ loop' = IF command.kind = "exit" THEN "exit" ELSE "send"
  /\ UNCHANGED <<ide, message, command, answers, signal, events, interrupted, torn,
                 ignored>>

\* Mutant of SendResult: commandResult is not cleared.
SendResultKept ==
  /\ answers' = Append(answers, result)
  /\ UNCHANGED result

\* The object is never null, it is empty: the early return is not taken.
SendResult ==
  /\ answers' = Append(answers, result)
  /\ result' = NoResult

RunExit ==
  /\ loop = "exit"
  /\ SendResult
  /\ interrupted' = TRUE
  /\ loop' = "send"
  /\ UNCHANGED <<ide, message, command, signal, events, history>>

CheckAndRunSend ==
  /\ loop = "send"
  /\ SendResult
  /\ loop' = "turn"
  /\ UNCHANGED <<ide, message, command, signal, events, interrupted, history>>

Ide == WritePart \/ \E k \in Kinds : BeginMessage(k)
Others == StartListening \/ CreatCommandToSendData
ProcessCommand ==
  \/ Turn \/ ReadByte \/ Dispatch
  \/ Refuse \/ Run \/ RunExit \/ CheckAndRunSend

Next == Ide \/ Others \/ ProcessCommand

Spec == Init /\ [][Next]_vars

(* The command loop goes on, and the IDE writes a message it has begun.    *)
FairSpec ==
  /\ Spec
  /\ WF_vars(ProcessCommand) /\ WF_vars(WritePart) /\ WF_vars(StartListening)

----------------------------------------------------------------------------

(* Answers come in the order of the messages, one for each: its result, or *)
(* {} for a command without one.  Only exit, which sends its result itself *)
(* before CheckAndRun does, is answered twice, the second time with {}; a  *)
(* message that was cut is not answered twice.                             *)
OneAnswerInOrder ==
  /\ \A i, j \in DOMAIN served : i < j => served[i].id < served[j].id
  /\ \A i \in DOMAIN answers :
       answers[i] = IF i <= Len(served) /\ served[i].kind # "silent"
                    THEN served[i].id ELSE NoResult
  /\ loop = "turn" => Len(answers) = Len(served) + IF interrupted THEN 1 ELSE 0

Served(id) == \E i \in DOMAIN served : served[i].id = id

(* The only messages that get lost are those the loop met half written,    *)
(* and it does nothing for them: when a turn begins, all that was read of  *)
(* the others was run, refused or ignored, and a torn message was not.     *)
OnlyTornIsLost ==
  /\ \A id \in torn : ~Served(id)
  /\ (loop = "turn" /\ stream = <<>> /\ ~interrupted) =>
       \A id \in 1..(writing.id - 1) :
         Served(id) \/ id \in torn \cup ignored

(* The pipe implements the service the IDE relies on: wherever its reads   *)
(* cut the messages, it takes one command at a time in the order they were *)
(* written, answers it before the next, and takes none after exit, even of *)
(* those that are on the pipe already.                                     *)
InHand == loop \in {"refuse", "run"}
Taken == IF InHand THEN command.id
         ELSE IF served = <<>> THEN NoResult ELSE served[Len(served)].id
Service == INSTANCE CommandService WITH
  requested <- writing.id,
  taken <- Taken,
  busy <- InHand \/ loop \in {"exit", "send"},
  open <- ~interrupted
ServiceSpec == Service!Spec

(* A message that was written is served in the end, unless it was torn or  *)
(* the program ends.                                                       *)
MessageServed ==
  \A id \in Ids :
    (writing.id = id /\ writing.parts = End) ~>
      (Served(id) \/ id \in torn \cup ignored \/ interrupted)

=============================================================================
