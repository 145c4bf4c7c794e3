-------------------------- MODULE RichPreviewerProofs --------------------------
(***************************************************************************)
(* For every number of messages, every length of one and every number of   *)
(* other messages on the pipe: one answer each in order, only torn         *)
(* messages are lost, the ability outlives the last command, and the pipe  *)
(* implements CommandService.                                              *)
(***************************************************************************)
EXTENDS RichPreviewer, SequenceTheorems, TLAPS

Part == [id : Ids, kind : Kinds, part : 1..End]

ChannelTypeOK ==
  /\ stream \in Seq(Part) /\ message \in Seq(Part)
  /\ writing \in [id : 0..MaxMessages, kind : Kinds, parts : 0..End]
  /\ writing.id = 0 => writing.parts = End
  /\ loop \in {"turn", "read", "refuse", "run", "exit", "send"}
  /\ command \in [id : 0..MaxMessages, kind : Kinds]
  /\ loop = "refuse" => command.kind \in {"badArgs", "unknown"}
  /\ result \in Ids \cup {NoResult}
  /\ answers \in Seq(Ids \cup {NoResult})
  /\ served \in Seq([id : Ids, kind : Kinds])
  /\ torn \subseteq Ids /\ ignored \subseteq Ids
  /\ interrupted \in BOOLEAN

(***************************************************************************)
(* What is on the pipe: parts that follow each other, from the one that is *)
(* read next to the one the IDE writes next.                               *)
(***************************************************************************)
Follows(i, p, j, q) ==
  \/ p < End /\ j = i /\ q = p + 1
  \/ p = End /\ j = i + 1 /\ q = 1
Joined(a, b) == Follows(a.id, a.part, b.id, b.part)

NextWritten == IF writing.parts < End THEN [id |-> writing.id, part |-> writing.parts + 1]
               ELSE [id |-> writing.id + 1, part |-> 1]
NextRead == IF stream = <<>> THEN NextWritten
            ELSE [id |-> stream[1].id, part |-> stream[1].part]
Unread == IF message = <<>> THEN NextRead
          ELSE [id |-> message[1].id, part |-> message[1].part]

PipeInv ==
  /\ \A i \in 1 .. (Len(stream) - 1) : Joined(stream[i], stream[i + 1])
  /\ stream # <<>> => Joined(stream[Len(stream)], NextWritten)
  /\ \A i \in 1 .. Len(message) : message[i].id = message[1].id
                                  /\ message[i].part = message[1].part + i - 1
  /\ message # <<>> => Joined(LastPart, NextRead) /\ loop = "read"

(***************************************************************************)
(* What became of a message.                                               *)
(***************************************************************************)
Accounted(id) == Served(id) \/ id \in torn \cup ignored \/ (InHand /\ command.id = id)

\* All that was read is accounted for, and nothing else is.
ReadInv ==
  /\ \A id \in Ids : id < Unread.id \/ (id = Unread.id /\ Unread.part > 1) => Accounted(id)
  /\ \A id \in Ids : Accounted(id) => id < Unread.id \/ (id = Unread.id /\ Unread.part > 1)
  /\ \A id \in Ids : Served(id) \/ (InHand /\ command.id = id) =>
       id < Unread.id \/ Unread.part = End
  /\ \A id \in torn : ~Served(id)
  /\ InHand => /\ command.id \in Ids \ torn
               /\ \A i \in 1 .. Len(served) : served[i].id < command.id
  /\ \A i, j \in 1 .. Len(served) : i < j => served[i].id < served[j].id

\* The answers that are out, and the one that is on its way.
Due(i) == IF i <= Len(served) /\ served[i].kind # "silent" THEN served[i].id ELSE NoResult
AnswerInv ==
  /\ \A i \in 1 .. Len(answers) : answers[i] = Due(i)
  /\ loop \in {"read", "refuse", "run", "exit"} => ~interrupted
  /\ loop \in {"turn", "read", "refuse", "run"} =>
       result = NoResult /\ Len(answers) = Len(served) + IF interrupted THEN 1 ELSE 0
  /\ loop \in {"exit", "send"} =>
       IF interrupted THEN result = NoResult /\ Len(answers) = Len(served)
       ELSE result = Due(Len(served)) /\ Len(served) = Len(answers) + 1

ChannelInv == ChannelTypeOK /\ PipeInv /\ ReadInv /\ AnswerInv

LifeInv ==
  /\ main \in {"boot", "start", "loop", "stop", "stopped", "finished"}
  /\ stop # "no" => interrupted /\ loop = "turn" /\ result = NoResult
  /\ isStop => stop # "no"
  /\ main \in {"stop", "stopped", "finished"} => isStop
  /\ isFinished => main \in {"boot", "finished"}
  /\ main = "finished" => ~ability
  /\ main = "stopped" => ~ability
  /\ stop = "finished" /\ ~early => main = "finished"

(***************************************************************************)
(* Sequences that grow at the end and shrink at the head.                  *)
(***************************************************************************)
LEMMA AppendSeq ==
  ASSUME NEW S, NEW s \in Seq(S), NEW x \in S
  PROVE  /\ Append(s, x) \in Seq(S) /\ Append(s, x) # <<>>
         /\ Len(Append(s, x)) = Len(s) + 1 /\ Len(s) \in Nat
         /\ Append(s, x)[Len(s) + 1] = x
         /\ \A i \in 1 .. Len(s) : Append(s, x)[i] = s[i]
BY AppendProperties, LenProperties

LEMMA TailSeq ==
  ASSUME NEW S, NEW s \in Seq(S), s # <<>>
  PROVE  /\ Tail(s) \in Seq(S) /\ Head(s) = s[1] /\ s[1] \in S
         /\ Len(s) \in Nat \ {0} /\ Len(Tail(s)) = Len(s) - 1
         /\ Tail(s) = <<>> <=> Len(s) = 1
         /\ \A i \in 1 .. (Len(s) - 1) : Tail(s)[i] = s[i + 1]
<1>1. Len(s) \in Nat \ {0}
  BY EmptySeq
<1>2. Tail(s) \in Seq(S) /\ Len(Tail(s)) = Len(s) - 1
      /\ \A i \in 1 .. Len(Tail(s)) : Tail(s)[i] = s[i + 1]
  BY HeadTailProperties
<1>3. Head(s) = s[1]
  BY <1>1
<1>4. s[1] \in S
  BY <1>1, ElementOfSeq
<1>5. Tail(s) = <<>> <=> Len(s) = 1
  BY <1>1, <1>2, EmptySeq
<1> QED BY <1>1, <1>2, <1>3, <1>4, <1>5

\* What is read, and what is read next, are parts of messages.
LEMMA ReadTypes ==
  ASSUME ChannelTypeOK
  PROVE  /\ NextWritten.id \in Nat \ {0} /\ NextWritten.part \in 1..End
         /\ NextRead.id \in Nat \ {0} /\ NextRead.part \in 1..End
         /\ Unread.id \in Nat \ {0} /\ Unread.part \in 1..End
         /\ End = Body + 1 /\ Body \in Nat \ {0}
<1>1. End = Body + 1 /\ Body \in Nat \ {0} /\ MaxMessages \in Nat \ {0}
  BY ChannelAssumption DEF ChannelAssumption, End
<1>2. NextWritten.id \in Nat \ {0} /\ NextWritten.part \in 1..End
  <2>1. /\ writing.id \in 0..MaxMessages /\ writing.parts \in 0..End
        /\ writing.id = 0 => writing.parts = End
    BY DEF ChannelTypeOK
  <2>2. CASE writing.parts < End
    <3>1. NextWritten.id = writing.id /\ NextWritten.part = writing.parts + 1
      BY <2>2 DEF NextWritten
    <3> QED BY <3>1, <2>1, <2>2, <1>1, SMT
  <2>3. CASE ~(writing.parts < End)
    <3>1. NextWritten.id = writing.id + 1 /\ NextWritten.part = 1
      BY <2>3 DEF NextWritten
    <3> QED BY <3>1, <2>1, <1>1, SMT
  <2> QED BY <2>2, <2>3
<1>3. NextRead.id \in Nat \ {0} /\ NextRead.part \in 1..End
  <2>1. CASE stream = <<>>
    BY <2>1, <1>2 DEF NextRead
  <2>2. CASE stream # <<>>
    <3>1. stream[1] \in Part
      BY <2>2, TailSeq DEF ChannelTypeOK
    <3>2. NextRead.id = stream[1].id /\ NextRead.part = stream[1].part
      BY <2>2 DEF NextRead
    <3> QED BY <3>1, <3>2, <1>1, SMT DEF Part, Ids
  <2> QED BY <2>1, <2>2
<1>4. Unread.id \in Nat \ {0} /\ Unread.part \in 1..End
  <2>1. CASE message = <<>>
    BY <2>1, <1>3 DEF Unread
  <2>2. CASE message # <<>>
    <3>1. message[1] \in Part
      BY <2>2, TailSeq DEF ChannelTypeOK
    <3>2. Unread.id = message[1].id /\ Unread.part = message[1].part
      BY <2>2 DEF Unread
    <3> QED BY <3>1, <3>2, <1>1, SMT DEF Part, Ids
  <2> QED BY <2>1, <2>2
<1> QED BY <1>1, <1>2, <1>3, <1>4

(***************************************************************************)
(* Steps that leave the invariants' parts alone.                           *)
(***************************************************************************)
LEMMA ReadStays ==
  ASSUME ReadInv, Unread' = Unread, UNCHANGED history, command' = command, InHand' <=> InHand
  PROVE  ReadInv'
<1>1. \A id : Served(id)' <=> Served(id)
  BY DEF Served, history
<1>2. \A id : Accounted(id)' <=> Accounted(id)
  BY <1>1 DEF Accounted, history
<1> QED BY <1>1, <1>2 DEF ReadInv, history

LEMMA AnswerStays ==
  ASSUME AnswerInv, UNCHANGED <<answers, served, result, interrupted>>,
         \/ loop' = loop
         \/ loop = "turn" /\ ~interrupted /\ loop' = "read"
         \/ loop = "read" /\ loop' \in {"turn", "refuse", "run"}
  PROVE  AnswerInv'
BY DEF AnswerInv, Due

(***************************************************************************)
(* The IDE writes.                                                         *)
(***************************************************************************)
LEMMA BeginMessageKeeps ==
  ASSUME ChannelInv, NEW k \in Kinds, BeginMessage(k) PROVE ChannelInv'
<1> USE DEF ChannelInv
<1>1. /\ writing.parts = End /\ writing.id < MaxMessages
      /\ writing' = [id |-> writing.id + 1, kind |-> k, parts |-> 0]
      /\ UNCHANGED <<stream, message, loop, command, result, answers, history, interrupted>>
  BY DEF BeginMessage
<1>2. End \in Nat \ {0, 1} /\ writing.id \in Nat /\ MaxMessages \in Nat
  <2>1. End = Body + 1 /\ Body \in Nat \ {0} /\ MaxMessages \in Nat \ {0}
    BY ReadTypes, ChannelAssumption DEF ChannelAssumption
  <2>2. writing.id \in 0..MaxMessages
    BY DEF ChannelTypeOK
  <2> QED BY <2>1, <2>2, SMT
<1>3. ChannelTypeOK'
  <2>1. writing' \in [id : 0..MaxMessages, kind : Kinds, parts : 0..End] /\ writing'.id # 0
    BY <1>1, <1>2, SMT
  <2> QED BY <1>1, <2>1 DEF ChannelTypeOK, history
<1>4. NextWritten' = NextWritten
  <2>1. NextWritten = [id |-> writing.id + 1, part |-> 1]
    BY <1>1, <1>2, SMT DEF NextWritten
  <2>2. writing'.parts = 0 /\ writing'.id = writing.id + 1 /\ 0 < End
    BY <1>1, <1>2, SMT
  <2>3. NextWritten' = [id |-> writing'.id, part |-> writing'.parts + 1]
    BY <2>2, <1>1 DEF NextWritten
  <2>4. NextWritten' = [id |-> writing.id + 1, part |-> 0 + 1]
    BY <2>2, <2>3
  <2> QED BY <2>1, <2>4, SMT
<1>5. NextRead' = NextRead /\ Unread' = Unread
  BY <1>1, <1>4 DEF NextRead, Unread
<1>6. PipeInv'
  BY <1>1, <1>4, <1>5 DEF PipeInv, LastPart
<1>7. ReadInv'
  BY <1>1, <1>5, ReadStays DEF InHand
<1>8. AnswerInv'
  BY <1>1, AnswerStays DEF history
<1> QED BY <1>3, <1>6, <1>7, <1>8

LEMMA WritePartKeeps ==
  ASSUME ChannelInv, WritePart PROVE ChannelInv'
<1> USE DEF ChannelInv
<1> DEFINE x == [id |-> writing.id, kind |-> writing.kind, part |-> writing.parts + 1]
<1>1. /\ writing.parts < End
      /\ writing' = [writing EXCEPT !.parts = @ + 1]
      /\ stream' = Append(stream, x)
      /\ UNCHANGED <<message, loop, command, result, answers, history, interrupted>>
  BY DEF WritePart
<1>2. /\ End \in Nat \ {0, 1} /\ writing.id \in Ids /\ writing.id \in Nat \ {0}
      /\ writing.kind \in Kinds /\ writing.parts \in Nat
      /\ writing \in [id : 0..MaxMessages, kind : Kinds, parts : 0..End]
  <2>1. End = Body + 1 /\ Body \in Nat \ {0} /\ MaxMessages \in Nat \ {0}
    BY ReadTypes, ChannelAssumption DEF ChannelAssumption
  <2>2. /\ writing \in [id : 0..MaxMessages, kind : Kinds, parts : 0..End]
        /\ writing.id = 0 => writing.parts = End
    BY DEF ChannelTypeOK
  <2> QED BY <1>1, <2>1, <2>2, SMT DEF Ids
<1>3. /\ writing'.id = writing.id /\ writing'.kind = writing.kind
      /\ writing'.parts = writing.parts + 1
      /\ writing' \in [id : 0..MaxMessages, kind : Kinds, parts : 0..End]
  BY <1>1, <1>2, SMT
<1>4. x \in Part /\ x.id = writing.id /\ x.part = writing.parts + 1
  BY <1>1, <1>2, SMT DEF Part
<1>5. NextWritten = [id |-> x.id, part |-> x.part]
  BY <1>1, <1>4 DEF NextWritten
<1>6. Joined(x, NextWritten')
  <2>1. CASE writing.parts + 1 < End
    <3>1. NextWritten' = [id |-> writing.id, part |-> (writing.parts + 1) + 1]
      BY <2>1, <1>3 DEF NextWritten
    <3>2. NextWritten'.id = x.id /\ NextWritten'.part = x.part + 1 /\ x.part < End
      BY <3>1, <2>1, <1>4
    <3> QED BY <3>2 DEF Joined, Follows
  <2>2. CASE ~(writing.parts + 1 < End)
    <3>1. NextWritten' = [id |-> writing.id + 1, part |-> 1]
      BY <2>2, <1>3 DEF NextWritten
    <3>2. x.part = End
      BY <2>2, <1>1, <1>2, <1>4, SMT
    <3>3. NextWritten'.id = x.id + 1 /\ NextWritten'.part = 1
      BY <3>1, <1>4
    <3> QED BY <3>2, <3>3 DEF Joined, Follows
  <2> QED BY <2>1, <2>2
<1> HIDE DEF x
<1>7. /\ stream' \in Seq(Part) /\ stream' # <<>> /\ Len(stream') = Len(stream) + 1
      /\ Len(stream) \in Nat /\ stream'[Len(stream) + 1] = x
      /\ \A i \in 1 .. Len(stream) : stream'[i] = stream[i]
  <2>1. stream \in Seq(Part) /\ x \in Part /\ stream' = Append(stream, x)
    BY <1>1, <1>4 DEF ChannelTypeOK, x
  <2> QED BY <2>1, AppendSeq
<1>8. NextRead' = NextRead
  <2>1. CASE stream = <<>>
    <3>1. stream'[1] = x
      BY <2>1, <1>7
    <3> QED BY <2>1, <3>1, <1>7, <1>5 DEF NextRead
  <2>2. CASE stream # <<>>
    <3>1. Len(stream) \in Nat \ {0}
      BY <2>2, EmptySeq DEF ChannelTypeOK
    <3>2. 1 \in 1 .. Len(stream)
      BY <3>1, SMT
    <3>3. stream'[1] = stream[1]
      BY <3>2, <1>7
    <3> QED BY <2>2, <3>3, <1>7 DEF NextRead
  <2> QED BY <2>1, <2>2
<1>9. Unread' = Unread
  BY <1>1, <1>8 DEF Unread
<1>10. PipeInv'
  <2>1. ASSUME NEW i \in 1 .. (Len(stream') - 1) PROVE Joined(stream'[i], stream'[i + 1])
    <3>1. i \in 1 .. Len(stream) /\ stream'[i] = stream[i]
      BY <1>7, SMT
    <3>2. CASE i = Len(stream)
      <4>1. stream # <<>>
        BY <3>1, <3>2, EmptySeq
      <4>2. Joined(stream[i], NextWritten)
        BY <4>1, <3>2 DEF PipeInv
      <4>3. Joined(stream[i], x)
        BY <4>2, <1>5, Zenon DEF Joined
      <4> QED BY <4>3, <3>1, <3>2, <1>7
    <3>3. CASE i # Len(stream)
      <4>1. i \in 1 .. (Len(stream) - 1) /\ i + 1 \in 1 .. Len(stream)
        BY <3>1, <3>3, <1>7, SMT
      <4> QED BY <4>1, <3>1, <1>7 DEF PipeInv
    <3> QED BY <3>2, <3>3
  <2>2. Joined(stream'[Len(stream')], NextWritten')
    BY <1>6, <1>7
  <2>3. message' # <<>> => Joined(LastPart', NextRead') /\ loop' = "read"
    BY <1>1, <1>8 DEF PipeInv, LastPart
  <2> QED BY <2>1, <2>2, <2>3, <1>1 DEF PipeInv
<1>11. ChannelTypeOK'
  BY <1>1, <1>2, <1>3, <1>7, SMT DEF ChannelTypeOK, history
<1>12. ReadInv'
  BY <1>1, <1>9, ReadStays DEF InHand
<1>13. AnswerInv'
  BY <1>1, AnswerStays DEF history
<1> QED BY <1>10, <1>11, <1>12, <1>13

(***************************************************************************)
(* The command loop reads.                                                 *)
(***************************************************************************)
LEMMA QuietKeeps ==
  ASSUME ChannelInv,
         \/ StartListening \/ CreatCommandToSendData \/ UNCHANGED vars
         \/ Turn
  PROVE  ChannelInv'
<1>1. /\ UNCHANGED <<stream, writing, message, command, result, answers, history, interrupted>>
      /\ loop' = loop \/ (loop = "turn" /\ ~interrupted /\ loop' = "read")
  BY DEF StartListening, CreatCommandToSendData, vars, Turn, ide
<1>2. Unread' = Unread /\ NextRead' = NextRead /\ NextWritten' = NextWritten
  BY <1>1 DEF Unread, NextRead, NextWritten
<1>3. ChannelTypeOK'
  BY <1>1 DEF ChannelInv, ChannelTypeOK, history
<1>4. PipeInv'
  BY <1>1, <1>2 DEF ChannelInv, PipeInv, LastPart
<1>5. ReadInv'
  BY <1>1, <1>2, ReadStays DEF ChannelInv, InHand
<1>6. AnswerInv'
  BY <1>1, AnswerStays DEF ChannelInv, history
<1> QED BY <1>3, <1>4, <1>5, <1>6 DEF ChannelInv

LEMMA ReadByteKeeps ==
  ASSUME ChannelInv, ReadByte PROVE ChannelInv'
<1> DEFINE x == stream[1]
<1>0. ChannelTypeOK /\ PipeInv /\ ReadInv /\ AnswerInv
  BY DEF ChannelInv
<1>1. /\ loop = "read" /\ stream # <<>> /\ ~Ended
      /\ message' = Append(message, Head(stream)) /\ stream' = Tail(stream)
      /\ UNCHANGED <<writing, loop, command, result, answers, history, interrupted>>
  BY DEF ReadByte
<1>2. /\ stream \in Seq(Part) /\ message \in Seq(Part)
  BY <1>0 DEF ChannelTypeOK
<1>3. /\ Tail(stream) \in Seq(Part) /\ Head(stream) = x /\ x \in Part
      /\ Len(stream) \in Nat \ {0} /\ Len(stream') = Len(stream) - 1
      /\ stream' = <<>> <=> Len(stream) = 1
      /\ \A i \in 1 .. (Len(stream) - 1) : stream'[i] = stream[i + 1]
  BY <1>1, <1>2, TailSeq
<1>4. /\ message' \in Seq(Part) /\ message' # <<>> /\ Len(message') = Len(message) + 1
      /\ Len(message) \in Nat /\ message'[Len(message) + 1] = x
      /\ \A i \in 1 .. Len(message) : message'[i] = message[i]
  <2>1. message' = Append(message, x)
    BY <1>1, <1>3
  <2> QED BY <2>1, <1>2, <1>3, AppendSeq
<1>5. ChannelTypeOK'
  BY <1>0, <1>1, <1>3, <1>4 DEF ChannelTypeOK, history
<1>6. NextWritten' = NextWritten
  BY <1>1 DEF NextWritten
<1>7. NextRead = [id |-> x.id, part |-> x.part]
  BY <1>1 DEF NextRead
<1> HIDE DEF x
<1>8. message # <<>> => Len(message) \in Nat \ {0} /\ Joined(message[Len(message)], x)
  <2> SUFFICES ASSUME message # <<>> PROVE Len(message) \in Nat \ {0} /\ Joined(message[Len(message)], x)
    OBVIOUS
  <2>1. Joined(message[Len(message)], NextRead)
    BY <1>0, Zenon DEF PipeInv, LastPart
  <2>2. Joined(message[Len(message)], x)
    BY <2>1, <1>7, Zenon DEF Joined
  <2> QED BY <2>2, <1>2, EmptySeq
<1>9. message # <<>> => message[Len(message)].part # End
  BY <1>1 DEF Ended, LastPart
<1>10. Unread' = Unread
  <2>1. CASE message = <<>>
    <3>1. message'[1] = x
      BY <2>1, <1>4
    <3> QED BY <2>1, <3>1, <1>4, <1>7 DEF Unread
  <2>2. CASE message # <<>>
    <3>1. 1 \in 1 .. Len(message)
      BY <2>2, <1>8, SMT
    <3>2. message'[1] = message[1]
      BY <3>1, <1>4
    <3> QED BY <2>2, <3>2, <1>4 DEF Unread
  <2> QED BY <2>1, <2>2
<1>11. Joined(x, NextRead')
  <2>1. CASE stream' = <<>>
    <3>1. Len(stream) = 1 /\ NextRead' = NextWritten
      BY <2>1, <1>3, <1>6 DEF NextRead
    <3>2. Joined(stream[Len(stream)], NextWritten)
      BY <1>0, <1>1 DEF PipeInv
    <3> QED BY <3>1, <3>2 DEF x
  <2>2. CASE stream' # <<>>
    <3>1. 1 \in 1 .. (Len(stream) - 1)
      BY <2>2, <1>3, SMT
    <3>2. Joined(stream[1], stream[1 + 1])
      BY <3>1, <1>0 DEF PipeInv
    <3>3. stream'[1] = stream[1 + 1]
      BY <3>1, <1>3
    <3>4. NextRead' = [id |-> stream'[1].id, part |-> stream'[1].part]
      BY <2>2 DEF NextRead
    <3> QED BY <3>2, <3>3, <3>4, Zenon DEF x, Joined
  <2> QED BY <2>1, <2>2
<1>12. \A i \in 1 .. Len(message') : message'[i].id = message'[1].id
                                      /\ message'[i].part = message'[1].part + i - 1
  <2>1. CASE message = <<>>
    <3>1. Len(message') = 1 /\ message'[1].part \in Nat
      BY <2>1, <1>4, <1>3, ReadTypes, <1>0, SMT DEF Part
    <3> QED BY <3>1, SMT
  <2>2. CASE message # <<>>
    <3>1. 1 \in 1 .. Len(message) /\ Len(message) \in 1 .. Len(message)
      BY <2>2, <1>8, SMT
    <3>2. message'[1] = message[1]
      BY <3>1, <1>4
    <3>3. message[Len(message)].id = message[1].id
          /\ message[Len(message)].part = message[1].part + Len(message) - 1
      BY <3>1, <1>0 DEF PipeInv
    <3>4. x.id = message[Len(message)].id /\ x.part = message[Len(message)].part + 1
      BY <2>2, <1>8, <1>9 DEF Joined, Follows
    <3>5. message[1] \in Part
      BY <2>2, <1>2, TailSeq
    <3>6. message[1].part \in Nat
      BY <3>5, <1>0, ReadTypes, SMT DEF Part
    <3>7. x.id = message[1].id /\ x.part = message[1].part + (Len(message) + 1) - 1
      BY <3>3, <3>4, <3>6, <1>8, <2>2, SMT
    <3>8. ASSUME NEW i \in 1 .. Len(message')
          PROVE  message'[i].id = message'[1].id /\ message'[i].part = message'[1].part + i - 1
      <4>1. CASE i = Len(message) + 1
        BY <4>1, <3>7, <3>2, <1>4
      <4>2. CASE i # Len(message) + 1
        <5>1. i \in 1 .. Len(message)
          BY <4>2, <1>4, SMT
        <5> QED BY <5>1, <3>2, <1>4, <1>0 DEF PipeInv
      <4> QED BY <4>1, <4>2
    <3> QED BY <3>8
  <2> QED BY <2>1, <2>2
<1>13. PipeInv'
  <2>1. ASSUME NEW i \in 1 .. (Len(stream') - 1) PROVE Joined(stream'[i], stream'[i + 1])
    <3>1. i \in 1 .. (Len(stream) - 1) /\ i + 1 \in 1 .. (Len(stream) - 1)
      BY <1>3, SMT
    <3>2. stream'[i] = stream[i + 1] /\ stream'[i + 1] = stream[(i + 1) + 1]
      BY <3>1, <1>3
    <3> QED BY <3>1, <3>2, <1>0 DEF PipeInv
  <2>2. stream' # <<>> => Joined(stream'[Len(stream')], NextWritten')
    <3> SUFFICES ASSUME stream' # <<>> PROVE Joined(stream'[Len(stream')], NextWritten')
      OBVIOUS
    <3>1. Len(stream') \in 1 .. (Len(stream) - 1) /\ Len(stream') + 1 = Len(stream)
      BY <1>3, SMT
    <3>2. stream'[Len(stream')] = stream[Len(stream)]
      BY <3>1, <1>3
    <3>3. Joined(stream[Len(stream)], NextWritten)
      BY <1>0, <1>1 DEF PipeInv
    <3> QED BY <3>2, <3>3, <1>6
  <2>3. LastPart' = x
    BY <1>4 DEF LastPart
  <2>4. Joined(LastPart', NextRead') /\ loop' = "read"
    BY <2>3, <1>11, <1>1
  <2> QED BY <2>1, <2>2, <2>4, <1>12 DEF PipeInv
<1>14. ReadInv'
  BY <1>0, <1>1, <1>10, ReadStays DEF InHand
<1>15. AnswerInv'
  BY <1>0, <1>1, AnswerStays DEF history
<1> QED BY <1>5, <1>13, <1>14, <1>15 DEF ChannelInv

\* A message in the reader's hands: the parts p to q of message k.
LEMMA MessageParts ==
  ASSUME ChannelInv, message # <<>>
  PROVE  /\ Unread = [id |-> message[1].id, part |-> message[1].part]
         /\ message[1] \in Part
         /\ LastPart.id = message[1].id /\ LastPart.part \in 1..End
         /\ LastPart.part = message[1].part + Len(message) - 1
         /\ message[1].part \in 1 .. LastPart.part /\ Len(message) \in Nat \ {0}
         /\ Parses <=> message[1].part = 1 /\ LastPart.part \in {Body, End}
         /\ NextRead = IF LastPart.part < End
                       THEN [id |-> message[1].id, part |-> LastPart.part + 1]
                       ELSE [id |-> message[1].id + 1, part |-> 1]
<1>0. ChannelTypeOK /\ PipeInv
  BY DEF ChannelInv
<1>1. message \in Seq(Part)
  BY <1>0 DEF ChannelTypeOK
<1>2. Len(message) \in Nat \ {0} /\ message[1] \in Part
  BY <1>1, TailSeq
<1>3. Len(message) \in 1 .. Len(message)
  BY <1>2, SMT
<1>4. LastPart \in Part
  BY <1>1, <1>3, ElementOfSeq DEF LastPart
<1>5. LastPart.id = message[1].id /\ LastPart.part = message[1].part + Len(message) - 1
  BY <1>0, <1>3 DEF PipeInv, LastPart
<1>6. End = Body + 1 /\ Body \in Nat \ {0}
  BY <1>0, ReadTypes
<1>7. LastPart.part \in 1..End /\ message[1].part \in 1..End
  BY <1>2, <1>4, Zenon DEF Part
<1>8. message[1].part \in 1 .. LastPart.part
  BY <1>2, <1>5, <1>6, <1>7, SMT
<1>9. Parses <=> message[1].part = 1 /\ LastPart.part \in {Body, End}
  <2>1. ASSUME Parses PROVE message[1].part = 1 /\ LastPart.part \in {Body, End}
    <3>1. 1 \in 1 .. Len(message)
      BY <1>2, SMT
    <3>2. message[1].part = 1 /\ Len(message) \in {Body, End}
      BY <2>1, <3>1 DEF Parses
    <3> QED BY <3>2, <1>5, <1>2, SMT
  <2>2. ASSUME message[1].part = 1, LastPart.part \in {Body, End} PROVE Parses
    <3>1. Len(message) \in {Body, End}
      BY <2>2, <1>5, <1>2, SMT
    <3>2. ASSUME NEW i \in 1 .. Len(message) PROVE message[i].id = message[1].id /\ message[i].part = i
      <4>1. message[i].id = message[1].id /\ message[i].part = message[1].part + i - 1
        BY <1>0 DEF PipeInv
      <4> QED BY <4>1, <2>2, <1>2, SMT
    <3> QED BY <3>1, <3>2 DEF Parses
  <2> QED BY <2>1, <2>2
<1>10. NextRead = IF LastPart.part < End
                  THEN [id |-> message[1].id, part |-> LastPart.part + 1]
                  ELSE [id |-> message[1].id + 1, part |-> 1]
  <2>1. Joined(LastPart, NextRead)
    BY <1>0 DEF PipeInv
  <2>2. NextRead = [id |-> NextRead.id, part |-> NextRead.part]
    BY DEF NextRead, NextWritten
  <2>3. CASE LastPart.part < End
    <3>1. NextRead.id = LastPart.id /\ NextRead.part = LastPart.part + 1
      BY <2>1, <2>3, <1>6, <1>7, SMT DEF Joined, Follows
    <3> QED BY <3>1, <2>2, <2>3, <1>5
  <2>4. CASE ~(LastPart.part < End)
    <3>1. NextRead.id = LastPart.id + 1 /\ NextRead.part = 1
      BY <2>1, <2>4, <1>6, <1>7, SMT DEF Joined, Follows
    <3> QED BY <3>1, <2>2, <2>4, <1>5
  <2> QED BY <2>3, <2>4
<1>11. Unread = [id |-> message[1].id, part |-> message[1].part]
  BY DEF Unread
<1> QED BY <1>2, <1>5, <1>7, <1>8, <1>9, <1>10, <1>11

LEMMA DispatchKeeps ==
  ASSUME ChannelInv, Dispatch PROVE ChannelInv'
<1>0. ChannelTypeOK /\ PipeInv /\ ReadInv /\ AnswerInv
  BY DEF ChannelInv
<1>1. /\ loop = "read" /\ message' = <<>>
      /\ UNCHANGED <<stream, writing, result, answers, interrupted, served>>
      /\ loop' \in {"turn", "refuse", "run"}
  BY DEF Dispatch, ide
<1>2. NextRead' = NextRead /\ NextWritten' = NextWritten /\ Unread' = NextRead
  BY <1>1 DEF NextRead, NextWritten, Unread
<1>3. PipeInv'
  <2>1. Len(message') = 0 /\ 1 .. 0 = {}
    BY <1>1, EmptySeq
  <2> QED BY <2>1, <1>0, <1>1, <1>2 DEF PipeInv
<1>4. AnswerInv'
  BY <1>0, <1>1, AnswerStays
<1>5. ~InHand /\ \A id : Served(id)' <=> Served(id)
  BY <1>1 DEF InHand, Served
<1>6. End = Body + 1 /\ Body \in Nat \ {0}
  BY <1>0, ReadTypes
<1>7. CASE message = <<>>
  <2>1. torn' = torn /\ ignored' = ignored /\ command' = NoCommand /\ loop' = "turn"
    BY <1>7 DEF Dispatch
  <2>2. ~InHand'
    BY <2>1 DEF InHand
  <2>3. Unread' = Unread
    BY <1>2, <1>7 DEF Unread
  <2>4. ReadInv'
    <3>1. \A id : Accounted(id)' <=> Accounted(id)
      BY <1>5, <2>1, <2>2 DEF Accounted
    <3> QED BY <3>1, <1>0, <1>1, <1>5, <2>1, <2>2, <2>3 DEF ReadInv
  <2>5. NoCommand \in [id : 0..MaxMessages, kind : Kinds]
    BY ChannelAssumption, SMT DEF NoCommand, Kinds, ChannelAssumption
  <2>6. <<>> \in Seq(Part)
    BY EmptySeq
  <2>7. ChannelTypeOK'
    BY <1>0, <1>1, <2>1, <2>5, <2>6 DEF ChannelTypeOK
  <2> QED BY <1>3, <1>4, <2>4, <2>7 DEF ChannelInv
<1>8. CASE message # <<>>
  <2> DEFINE k == message[1].id  p == message[1].part  q == LastPart.part
  <2>1. /\ Unread = [id |-> k, part |-> p] /\ message[1] \in Part /\ LastPart.id = k
        /\ p \in 1..q /\ q \in 1..End
        /\ Parses <=> p = 1 /\ q \in {Body, End}
        /\ Unread' = IF q < End THEN [id |-> k, part |-> q + 1] ELSE [id |-> k + 1, part |-> 1]
    BY <1>8, <1>2, MessageParts
  <2>2. k \in Ids /\ message[1].kind \in Kinds
    BY <2>1, Zenon DEF Part
  <2>3. /\ torn' = IF q < Body THEN torn \cup {k} ELSE torn
        /\ IF Parses /\ message[1].kind # "ignored"
           THEN /\ command' = [id |-> k, kind |-> message[1].kind]
                /\ loop' \in {"refuse", "run"}
           ELSE command' = NoCommand /\ loop' = "turn"
        /\ ignored' = IF Parses /\ message[1].kind = "ignored" THEN ignored \cup {k} ELSE ignored
    BY <1>8, <2>1 DEF Dispatch
  <2> HIDE DEF k, p, q
  <2>4. ChannelTypeOK'
    <3>1. NoCommand \in [id : 0..MaxMessages, kind : Kinds]
      BY ChannelAssumption, SMT DEF NoCommand, Kinds, ChannelAssumption
    <3>2. k \in 0..MaxMessages
      BY <2>2, ChannelAssumption, SMT DEF Ids, ChannelAssumption
    <3>3. command' \in [id : 0..MaxMessages, kind : Kinds]
      <4>1. CASE Parses /\ message[1].kind # "ignored"
        <5>1. command' = [id |-> k, kind |-> message[1].kind]
          BY <4>1, <2>3
        <5> QED BY <5>1, <3>2, <2>2
      <4>2. CASE ~(Parses /\ message[1].kind # "ignored")
        BY <4>2, <2>3, <3>1
      <4> QED BY <4>1, <4>2
    <3>4. torn' \subseteq Ids
      BY <2>2, <2>3, <1>0 DEF ChannelTypeOK
    <3>5. ignored' \subseteq Ids
      BY <2>2, <2>3, <1>0 DEF ChannelTypeOK
    <3>6. <<>> \in Seq(Part)
      BY EmptySeq
    <3>7. ASSUME loop' = "refuse" PROVE command'.kind \in {"badArgs", "unknown"}
      <4>1. Parses /\ message[1].kind # "ignored"
        BY <3>7, <2>3
      <4>2. command' = [id |-> k, kind |-> message[1].kind]
        BY <4>1, <2>3
      <4>3. loop' = IF message[1].kind \in {"badArgs", "unknown"} THEN "refuse" ELSE "run"
        BY <4>1, <1>8 DEF Dispatch
      <4>4. message[1].kind \in {"badArgs", "unknown"}
        BY <4>3, <3>7
      <4> QED BY <4>2, <4>4
    <3> QED BY <3>3, <3>4, <3>5, <3>6, <3>7, <1>0, <1>1 DEF ChannelTypeOK
  <2>5. /\ k \in Nat /\ Body \in Nat \ {0} /\ End = Body + 1 /\ q \in Nat /\ p \in Nat
        /\ p <= q /\ 1 <= p /\ q <= End
    <3>1. k \in Nat
      BY <2>2, ChannelAssumption, SMT DEF Ids, ChannelAssumption
    <3> QED BY <3>1, <1>6, <2>1, SMT
  <2>6. Unread.id = k /\ Unread.part = p
    BY <2>1
  <2>7. /\ q < End => Unread'.id = k /\ Unread'.part = q + 1
        /\ q = End => Unread'.id = k + 1 /\ Unread'.part = 1
    BY <2>1, <2>5, SMT
  \* All that is read now is of message k, which is accounted for.
  <2>8. \A id \in Ids : Accounted(id)' <=> Accounted(id) \/ id = k
    <3>1. CASE q < Body
      <4>1. ~Parses
        BY <3>1, <2>1, <2>5, SMT
      <4>2. torn' = torn \cup {k} /\ ignored' = ignored /\ ~InHand'
        BY <3>1, <4>1, <2>3 DEF InHand
      <4> QED BY <4>2, <1>5 DEF Accounted
    <3>2. CASE ~(q < Body) /\ p = 1
      <4>1. Parses
        <5>1. q \in {Body, End}
          BY <3>2, <2>5, SMT
        <5> QED BY <5>1, <3>2, <2>1
      <4>2. torn' = torn
        BY <3>2, <2>3
      <4>3. CASE message[1].kind = "ignored"
        <5>1. ignored' = ignored \cup {k} /\ ~InHand'
          BY <4>1, <4>3, <2>3 DEF InHand
        <5> QED BY <5>1, <4>2, <1>5 DEF Accounted
      <4>4. CASE message[1].kind # "ignored"
        <5>1. ignored' = ignored /\ InHand' /\ command'.id = k
          BY <4>1, <4>4, <2>3 DEF InHand
        <5> QED BY <5>1, <4>2, <1>5 DEF Accounted
      <4> QED BY <4>3, <4>4
    <3>3. CASE ~(q < Body) /\ p # 1
      <4>1. ~Parses
        BY <3>3, <2>1
      <4>2. torn' = torn /\ ignored' = ignored /\ ~InHand'
        BY <3>3, <4>1, <2>3 DEF InHand
      <4>3. Unread.part > 1
        BY <3>3, <2>5, <2>6, SMT
      <4>4. Accounted(k)
        BY <4>3, <2>2, <2>6, <1>0 DEF ReadInv
      <4> QED BY <4>2, <4>4, <1>5 DEF Accounted
    <3> QED BY <3>1, <3>2, <3>3
  <2>9. \A id \in Ids : id \in Nat
    BY ChannelAssumption, SMT DEF Ids, ChannelAssumption
  <2>10. ASSUME NEW id \in Ids
         PROVE  id < Unread'.id \/ (id = Unread'.id /\ Unread'.part > 1) <=> id < k \/ id = k
    BY <2>5, <2>7, <2>9, SMT
  <2>11. ASSUME NEW id \in Ids
         PROVE  Accounted(id)' <=> id < Unread'.id \/ (id = Unread'.id /\ Unread'.part > 1)
    <3>1. id < k => Accounted(id)
      BY <2>6, <1>0 DEF ReadInv
    <3>2. Accounted(id) => id < k \/ id = k
      BY <2>6, <1>0 DEF ReadInv
    <3> QED BY <3>1, <3>2, <2>8, <2>10
  <2>12. InHand' => p = 1 /\ q \in {Body, End} /\ command'.id = k
    <3>1. InHand' => Parses /\ message[1].kind # "ignored"
      BY <2>3 DEF InHand
    <3>2. Parses /\ message[1].kind # "ignored" => command'.id = k
      BY <2>3
    <3> QED BY <3>1, <3>2, <2>1
  <2>13. ASSUME NEW id \in Ids, Served(id)' \/ (InHand' /\ command'.id = id)
         PROVE  id < Unread'.id \/ Unread'.part = End
    <3>1. CASE Served(id)
      <4>1. (id < k \/ p = End) /\ (id < k \/ id = k)
        BY <3>1, <2>6, <1>0 DEF ReadInv, Accounted
      <4> QED BY <4>1, <2>5, <2>7, <2>9, SMT
    <3>2. CASE InHand' /\ command'.id = id
      <4>1. id = k /\ q \in {Body, End}
        BY <3>2, <2>12
      <4> QED BY <4>1, <2>5, <2>7, SMT
    <3> QED BY <2>13, <3>1, <3>2, <1>5
  <2>14. ASSUME NEW id \in torn' PROVE ~Served(id)'
    <3>1. CASE id \in torn
      BY <3>1, <1>5, <1>0 DEF ReadInv
    <3>2. CASE id \notin torn
      <4>1. id = k /\ q < Body
        BY <3>2, <2>3
      <4>2. ~(k < k \/ p = End)
        BY <4>1, <2>5, SMT
      <4>3. ~Served(k)
        BY <4>2, <2>2, <2>6, <1>0 DEF ReadInv
      <4> QED BY <4>1, <4>3, <1>5
    <3> QED BY <3>1, <3>2
  <2>15. ASSUME InHand'
         PROVE  /\ command'.id \in Ids \ torn'
                /\ \A i \in 1 .. Len(served') : served'[i].id < command'.id
    <3>1. p = 1 /\ q \in {Body, End} /\ command'.id = k
      BY <2>15, <2>12
    <3>2. torn' = torn
      BY <3>1, <2>3, <2>5, SMT
    <3>3. ~(Unread.part > 1)
      BY <3>1, <2>6, SMT
    <3>4. k \notin torn
      <4>1. ~(k < k)
        BY <2>5, SMT
      <4>2. ~Accounted(k)
        BY <4>1, <3>3, <2>2, <2>6, <1>0 DEF ReadInv
      <4> QED BY <4>2 DEF Accounted
    <3>5. ASSUME NEW i \in 1 .. Len(served) PROVE served[i].id < k
      <4>1. served \in Seq([id : Ids, kind : Kinds])
        BY <1>0 DEF ChannelTypeOK
      <4>2. served[i] \in [id : Ids, kind : Kinds] /\ DOMAIN served = 1 .. Len(served)
        BY <4>1, ElementOfSeq, LenProperties
      <4>3. served[i].id \in Ids /\ Served(served[i].id)
        BY <4>2 DEF Served
      <4>4. Accounted(served[i].id)
        BY <4>3 DEF Accounted
      <4> QED BY <4>3, <4>4, <3>3, <2>6, <1>0 DEF ReadInv
    <3> QED BY <3>1, <3>2, <3>4, <3>5, <2>2, <1>1
  <2>16. ReadInv'
    BY <2>11, <2>13, <2>14, <2>15, <1>0, <1>1 DEF ReadInv
  <2> QED BY <1>3, <1>4, <2>4, <2>16 DEF ChannelInv
<1> QED BY <1>7, <1>8

(***************************************************************************)
(* The command loop runs and answers.                                      *)
(***************************************************************************)
\* The command in hand becomes the last one served.
LEMMA ServedGrows ==
  ASSUME ChannelInv, InHand, served' = Append(served, command),
         loop' \in {"turn", "send", "exit"},
         UNCHANGED <<stream, writing, message, command, torn, ignored>>
  PROVE  /\ PipeInv' /\ ReadInv'
         /\ served' \in Seq([id : Ids, kind : Kinds]) /\ Len(served') = Len(served) + 1
         /\ Len(served) \in Nat /\ served'[Len(served) + 1] = command
         /\ \A i \in 1 .. Len(served) : served'[i] = served[i]
         /\ command.id \in Ids
<1>0. ChannelTypeOK /\ PipeInv /\ ReadInv
  BY DEF ChannelInv
<1>1. loop # "read" /\ ~InHand' /\ message = <<>>
  BY <1>0 DEF InHand, PipeInv
<1>2. command.id \in Ids \ torn /\ \A i \in 1 .. Len(served) : served[i].id < command.id
  BY <1>0 DEF ReadInv
<1>3. command \in [id : Ids, kind : Kinds]
  BY <1>0, <1>2 DEF ChannelTypeOK
<1>4. /\ served' \in Seq([id : Ids, kind : Kinds]) /\ Len(served') = Len(served) + 1
      /\ Len(served) \in Nat /\ served'[Len(served) + 1] = command
      /\ \A i \in 1 .. Len(served) : served'[i] = served[i]
  <2>1. served \in Seq([id : Ids, kind : Kinds])
    BY <1>0 DEF ChannelTypeOK
  <2> QED BY <2>1, <1>3, AppendSeq
<1>5. DOMAIN served = 1 .. Len(served) /\ DOMAIN served' = 1 .. Len(served')
  BY <1>0, <1>4, LenProperties DEF ChannelTypeOK
<1>6. \A id : Served(id)' <=> Served(id) \/ id = command.id
  <2>1. ASSUME NEW id, Served(id)' PROVE Served(id) \/ id = command.id
    <3>1. PICK i \in 1 .. Len(served') : served'[i].id = id
      BY <2>1, <1>5 DEF Served
    <3>2. i \in 1 .. Len(served) \/ i = Len(served) + 1
      BY <1>4, SMT
    <3> QED BY <3>1, <3>2, <1>4, <1>5 DEF Served
  <2>2. ASSUME NEW id, Served(id) PROVE Served(id)'
    <3>1. PICK i \in 1 .. Len(served) : served[i].id = id
      BY <2>2, <1>5 DEF Served
    <3>2. i \in 1 .. Len(served') /\ served'[i] = served[i]
      BY <1>4, SMT
    <3> QED BY <3>1, <3>2, <1>5 DEF Served
  <2>3. Served(command.id)'
    <3>1. Len(served) + 1 \in 1 .. Len(served')
      BY <1>4, SMT
    <3> QED BY <3>1, <1>4, <1>5 DEF Served
  <2> QED BY <2>1, <2>2, <2>3
<1>7. Unread' = Unread /\ NextRead' = NextRead /\ NextWritten' = NextWritten
  BY DEF Unread, NextRead, NextWritten
<1>8. PipeInv'
  BY <1>0, <1>1, <1>7 DEF PipeInv
<1>9. \A id : Accounted(id)' <=> Accounted(id)
  BY <1>1, <1>6 DEF Accounted
<1>10. \A i, j \in 1 .. Len(served') : i < j => served'[i].id < served'[j].id
  <2> SUFFICES ASSUME NEW i \in 1 .. Len(served'), NEW j \in 1 .. Len(served'), i < j
               PROVE  served'[i].id < served'[j].id
    OBVIOUS
  <2>1. i \in 1 .. Len(served) /\ served'[i] = served[i]
    BY <1>4, SMT
  <2>2. CASE j = Len(served) + 1
    BY <2>1, <2>2, <1>2, <1>4
  <2>3. CASE j # Len(served) + 1
    <3>1. j \in 1 .. Len(served)
      BY <2>3, <1>4, SMT
    <3> QED BY <2>1, <3>1, <1>0, <1>4 DEF ReadInv
  <2> QED BY <2>2, <2>3
<1>11. ReadInv'
  BY <1>0, <1>1, <1>2, <1>6, <1>7, <1>9, <1>10 DEF ReadInv
<1> QED BY <1>2, <1>4, <1>8, <1>11

LEMMA RefuseKeeps ==
  ASSUME ChannelInv, Refuse PROVE ChannelInv'
<1>0. ChannelTypeOK /\ AnswerInv
  BY DEF ChannelInv
<1>1. /\ InHand /\ loop = "refuse" /\ loop' = "turn"
      /\ answers' = Append(answers, command.id) /\ served' = Append(served, command)
      /\ UNCHANGED <<stream, writing, message, command, result, torn, ignored, interrupted>>
  BY DEF Refuse, InHand, ide
<1>2. /\ PipeInv' /\ ReadInv'
      /\ served' \in Seq([id : Ids, kind : Kinds]) /\ Len(served') = Len(served) + 1
      /\ Len(served) \in Nat /\ served'[Len(served) + 1] = command
      /\ \A i \in 1 .. Len(served) : served'[i] = served[i]
      /\ command.id \in Ids
  BY <1>1, ServedGrows
<1>3. /\ answers' \in Seq(Ids \cup {NoResult}) /\ Len(answers') = Len(answers) + 1
      /\ Len(answers) \in Nat /\ answers'[Len(answers) + 1] = command.id
      /\ \A i \in 1 .. Len(answers) : answers'[i] = answers[i]
  <2>1. answers \in Seq(Ids \cup {NoResult}) /\ command.id \in Ids \cup {NoResult}
    BY <1>0, <1>2 DEF ChannelTypeOK
  <2> QED BY <2>1, <1>1, AppendSeq
<1>4. ChannelTypeOK'
  BY <1>0, <1>1, <1>2, <1>3 DEF ChannelTypeOK
<1>5. ~interrupted /\ result = NoResult /\ Len(answers) = Len(served)
  BY <1>0, <1>1, <1>2, <1>3 DEF AnswerInv
<1>6. AnswerInv'
  <2>1. ASSUME NEW i \in 1 .. Len(answers') PROVE answers'[i] = Due(i)'
    <3>1. CASE i = Len(served) + 1
      <4>1. answers'[i] = command.id /\ served'[i] = command /\ i <= Len(served')
        BY <3>1, <1>2, <1>3, <1>5, SMT
      <4>2. command.kind # "silent"
        BY <1>0, <1>1 DEF ChannelTypeOK
      <4> QED BY <4>1, <4>2 DEF Due
    <3>2. CASE i # Len(served) + 1
      <4>1. i \in 1 .. Len(answers) /\ i <= Len(served) /\ i \in 1 .. Len(served) /\ i <= Len(served')
        BY <3>2, <1>2, <1>3, <1>5, SMT
      <4>2. answers[i] = Due(i)
        BY <4>1, <1>0 DEF AnswerInv
      <4> QED BY <4>1, <4>2, <1>2, <1>3 DEF Due
    <3> QED BY <3>1, <3>2
  <2>2. Len(answers') = Len(served')
    BY <1>2, <1>3, <1>5
  <2> QED BY <2>1, <2>2, <1>1, <1>2, <1>5, SMT DEF AnswerInv
<1> QED BY <1>2, <1>4, <1>6 DEF ChannelInv

LEMMA RunKeeps ==
  ASSUME ChannelInv, Run PROVE ChannelInv'
<1>0. ChannelTypeOK /\ AnswerInv
  BY DEF ChannelInv
<1>1. /\ InHand /\ loop = "run" /\ loop' \in {"exit", "send"}
      /\ served' = Append(served, command)
      /\ result' = IF command.kind = "silent" THEN NoResult ELSE command.id
      /\ UNCHANGED <<stream, writing, message, command, answers, torn, ignored, interrupted>>
  BY DEF Run, InHand, ide
<1>2. /\ PipeInv' /\ ReadInv'
      /\ served' \in Seq([id : Ids, kind : Kinds]) /\ Len(served') = Len(served) + 1
      /\ Len(served) \in Nat /\ served'[Len(served) + 1] = command
      /\ \A i \in 1 .. Len(served) : served'[i] = served[i]
      /\ command.id \in Ids
  BY <1>1, ServedGrows
<1>3. result' \in Ids \cup {NoResult}
  BY <1>1, <1>2
<1>4. ChannelTypeOK'
  BY <1>0, <1>1, <1>2, <1>3 DEF ChannelTypeOK
<1>5. ~interrupted /\ Len(answers) = Len(served)
  BY <1>0, <1>1, <1>2 DEF AnswerInv
<1>6. AnswerInv'
  <2>1. ASSUME NEW i \in 1 .. Len(answers') PROVE answers'[i] = Due(i)'
    <3>1. i \in 1 .. Len(answers) /\ i <= Len(served) /\ i \in 1 .. Len(served) /\ i <= Len(served')
      BY <1>1, <1>2, <1>5, SMT
    <3>2. answers[i] = Due(i)
      BY <3>1, <1>0 DEF AnswerInv
    <3> QED BY <3>1, <3>2, <1>1, <1>2 DEF Due
  <2>2. result' = Due(Len(served))' /\ Len(served') = Len(answers') + 1
    <3>1. Len(served') <= Len(served') /\ served'[Len(served')] = command
          /\ Len(served') = Len(answers') + 1
      BY <1>1, <1>2, <1>5, SMT
    <3> QED BY <3>1, <1>1 DEF Due
  <2> QED BY <2>1, <2>2, <1>1, <1>5 DEF AnswerInv
<1> QED BY <1>2, <1>4, <1>6 DEF ChannelInv

\* One answer goes out, and the result is cleared.
LEMMA SendKeeps ==
  ASSUME ChannelInv, RunExit \/ CheckAndRunSend PROVE ChannelInv'
<1>0. ChannelTypeOK /\ PipeInv /\ ReadInv /\ AnswerInv
  BY DEF ChannelInv
<1>1. /\ loop \in {"exit", "send"} /\ loop' \in {"turn", "send"}
      /\ answers' = Append(answers, result) /\ result' = NoResult
      /\ UNCHANGED <<stream, writing, message, command, history>>
      /\ loop = "exit" => interrupted' = TRUE /\ loop' = "send"
      /\ loop = "send" => interrupted' = interrupted /\ loop' = "turn"
  BY DEF RunExit, CheckAndRunSend, SendResult, ide
<1>2. /\ answers' \in Seq(Ids \cup {NoResult}) /\ Len(answers') = Len(answers) + 1
      /\ Len(answers) \in Nat /\ answers'[Len(answers) + 1] = result
      /\ \A i \in 1 .. Len(answers) : answers'[i] = answers[i]
  <2>1. answers \in Seq(Ids \cup {NoResult}) /\ result \in Ids \cup {NoResult}
    BY <1>0 DEF ChannelTypeOK
  <2> QED BY <2>1, <1>1, AppendSeq
<1>3. interrupted' \in BOOLEAN
  BY <1>0, <1>1 DEF ChannelTypeOK
<1>4. ChannelTypeOK'
  BY <1>0, <1>1, <1>2, <1>3 DEF ChannelTypeOK, history
<1>5. NextRead' = NextRead /\ NextWritten' = NextWritten /\ Unread' = Unread /\ message = <<>>
  BY <1>0, <1>1 DEF NextRead, NextWritten, Unread, PipeInv
<1>6. PipeInv'
  BY <1>0, <1>1, <1>5 DEF PipeInv
<1>7. ReadInv'
  BY <1>0, <1>1, <1>5, ReadStays DEF InHand
<1>8. Len(served) \in Nat
  BY <1>0, LenProperties DEF ChannelTypeOK
<1>9. result = Due(Len(answers) + 1)
  <2>1. CASE interrupted
    <3>1. result = NoResult /\ Len(answers) = Len(served) /\ loop = "send"
      BY <2>1, <1>0, <1>1 DEF AnswerInv
    <3>2. ~(Len(answers) + 1 <= Len(served))
      BY <3>1, <1>2, <1>8, SMT
    <3> QED BY <3>1, <3>2 DEF Due
  <2>2. CASE ~interrupted
    <3>1. result = Due(Len(served)) /\ Len(served) = Len(answers) + 1
      BY <2>2, <1>0, <1>1 DEF AnswerInv
    <3> QED BY <3>1
  <2> QED BY <2>1, <2>2
<1>10. \A i \in 1 .. Len(answers') : answers'[i] = Due(i)'
  <2> SUFFICES ASSUME NEW i \in 1 .. Len(answers') PROVE answers'[i] = Due(i)'
    OBVIOUS
  <2>1. Due(i)' = Due(i)
    BY <1>1 DEF Due, history
  <2>2. CASE i = Len(answers) + 1
    BY <2>1, <2>2, <1>2, <1>9
  <2>3. CASE i # Len(answers) + 1
    <3>1. i \in 1 .. Len(answers)
      BY <2>3, <1>2, SMT
    <3> QED BY <3>1, <2>1, <1>0, <1>2 DEF AnswerInv
  <2> QED BY <2>2, <2>3
<1>11. AnswerInv'
  <2>1. CASE loop = "exit"
    <3>1. interrupted' /\ loop' = "send" /\ ~interrupted
      BY <2>1, <1>0, <1>1 DEF AnswerInv
    <3>2. Len(served) = Len(answers) + 1
      BY <3>1, <1>0, <1>1 DEF AnswerInv
    <3>3. Len(answers') = Len(served')
      BY <3>2, <1>1, <1>2 DEF history
    <3> QED BY <3>1, <3>3, <1>1, <1>10 DEF AnswerInv
  <2>2. CASE loop = "send"
    <3>1. interrupted' = interrupted /\ loop' = "turn"
      BY <2>2, <1>1
    <3>2. Len(answers') = Len(served') + IF interrupted' THEN 1 ELSE 0
      <4>1. CASE interrupted
        BY <4>1, <3>1, <1>0, <1>1, <1>2 DEF AnswerInv, history
      <4>2. CASE ~interrupted
        <5>1. Len(served) = Len(answers) + 1
          BY <4>2, <1>0, <1>1 DEF AnswerInv
        <5> QED BY <5>1, <4>2, <3>1, <1>1, <1>2, <1>8, SMT DEF history
      <4> QED BY <4>1, <4>2
    <3> QED BY <3>1, <3>2, <1>1, <1>10 DEF AnswerInv
  <2> QED BY <2>1, <2>2, <1>1
<1> QED BY <1>4, <1>6, <1>7, <1>11 DEF ChannelInv


(***************************************************************************)
(* The previewer starts, and every step keeps the invariants.              *)
(***************************************************************************)
LEMMA RichInitInv == RichInit => ChannelInv /\ LifeInv
<1> SUFFICES ASSUME RichInit PROVE ChannelInv /\ LifeInv
  OBVIOUS
<1>1. /\ stream = <<>> /\ message = <<>> /\ answers = <<>> /\ served = <<>>
      /\ writing = [id |-> 0, kind |-> "ok", parts |-> End] /\ loop = "turn"
      /\ command = NoCommand /\ result = NoResult /\ ~interrupted
      /\ torn = {} /\ ignored = {}
  BY DEF RichInit, Init
<1>2. End = Body + 1 /\ Body \in Nat \ {0} /\ MaxMessages \in Nat \ {0}
  BY ChannelAssumption DEF ChannelAssumption, End
<1>3. ChannelTypeOK
  <2>1. writing \in [id : 0..MaxMessages, kind : Kinds, parts : 0..End] /\ writing.parts = End
    BY <1>1, <1>2, SMT DEF Kinds
  <2>2. command \in [id : 0..MaxMessages, kind : Kinds]
    BY <1>1, <1>2, SMT DEF NoCommand, Kinds
  <2>3. /\ stream \in Seq(Part) /\ message \in Seq(Part)
        /\ answers \in Seq(Ids \cup {NoResult}) /\ served \in Seq([id : Ids, kind : Kinds])
    BY <1>1, EmptySeq
  <2> QED BY <1>1, <2>1, <2>2, <2>3 DEF ChannelTypeOK, RichInit, Init
<1>4. Len(stream) = 0 /\ Len(message) = 0 /\ Len(answers) = 0 /\ Len(served) = 0
      /\ 1 .. 0 = {} /\ 1 .. (0 - 1) = {}
  BY <1>1, EmptySeq, SMT
<1>5. PipeInv
  BY <1>1, <1>4 DEF PipeInv
<1>6. Unread.id = 1 /\ Unread.part = 1
  <2>1. ~(writing.parts < End) /\ writing.id = 0
    BY <1>1, <1>2, SMT
  <2>2. NextWritten = [id |-> writing.id + 1, part |-> 1]
    BY <2>1 DEF NextWritten
  <2>3. NextWritten.id = 1 /\ NextWritten.part = 1
    BY <2>1, <2>2, SMT
  <2> QED BY <2>3, <1>1 DEF Unread, NextRead
<1>7. ReadInv
  <2>1. \A id \in Ids : ~(id < 1) /\ ~(1 > 1)
    BY <1>2, SMT DEF Ids
  <2>2. \A id : ~Served(id)
    BY <1>1, EmptySeq DEF Served
  <2>3. ~InHand
    BY <1>1 DEF InHand
  <2>4. \A id : ~Accounted(id)
    BY <1>1, <2>2, <2>3 DEF Accounted
  <2> QED BY <1>1, <1>4, <1>6, <2>1, <2>2, <2>3, <2>4 DEF ReadInv
<1>8. AnswerInv
  BY <1>1, <1>4, SMT DEF AnswerInv
<1>9. LifeInv
  BY <1>1 DEF RichInit, LifeInv
<1> QED BY <1>3, <1>5, <1>7, <1>8, <1>9 DEF ChannelInv

\* The command loop and the IDE leave the main thread alone.
LEMMA ChannelStepKeeps ==
  ASSUME ChannelInv, LifeInv, UNCHANGED life,
         (stop = "no" /\ ProcessCommand) \/ Ide \/ CreatCommandToSendData \/ StartListening
  PROVE  ChannelInv' /\ LifeInv'
<1>1. CASE Ide
  <2>1. ChannelInv'
    BY <1>1, WritePartKeeps, BeginMessageKeeps DEF Ide
  <2>2. UNCHANGED <<interrupted, loop, result>>
    BY <1>1 DEF Ide, WritePart, BeginMessage
  <2> QED BY <2>1, <2>2 DEF LifeInv, life
<1>2. CASE CreatCommandToSendData \/ StartListening
  <2>1. ChannelInv'
    BY <1>2, QuietKeeps
  <2>2. UNCHANGED <<interrupted, loop, result>>
    BY <1>2 DEF CreatCommandToSendData, StartListening
  <2> QED BY <2>1, <2>2 DEF LifeInv, life
<1>3. CASE stop = "no" /\ ProcessCommand
  <2>1. ChannelInv'
    BY <1>3, QuietKeeps, ReadByteKeeps, DispatchKeeps, RefuseKeeps, RunKeeps, SendKeeps
       DEF ProcessCommand
  <2>2. LifeInv'
    BY <1>3 DEF LifeInv, life
  <2> QED BY <2>1, <2>2
<1> QED BY <1>1, <1>2, <1>3

LEMMA MainKeeps ==
  ASSUME LifeInv, UNCHANGED vars,
         Start \/ RunJsApp \/ LeaveLoop \/ StopAbility \/ Finish
  PROVE  LifeInv'
<1>1. CASE Start
  BY <1>1 DEF LifeInv, Start, vars
<1>2. CASE RunJsApp
  BY <1>2 DEF LifeInv, RunJsApp, vars
<1>3. CASE LeaveLoop
  BY <1>3 DEF LifeInv, LeaveLoop, vars
<1>4. CASE StopAbility
  BY <1>4 DEF LifeInv, StopAbility, vars
<1>5. CASE Finish
  BY <1>5 DEF LifeInv, Finish, vars
<1> QED BY <1>1, <1>2, <1>3, <1>4, <1>5

LEMMA StopKeeps ==
  ASSUME AnswerInv, LifeInv, UNCHANGED vars, Stop
  PROVE  LifeInv'
<1>1. CASE StopBegin
  BY <1>1 DEF LifeInv, AnswerInv, StopBegin, vars
<1>2. CASE Interrupt
  BY <1>2 DEF LifeInv, Interrupt, vars
<1>3. CASE StopSleep
  BY <1>3 DEF LifeInv, StopSleep, vars
<1>4. CASE StopFinished
  <2>1. main \in {"boot", "finished"}
    BY <1>4 DEF LifeInv, StopFinished
  <2>2. main = "boot" => early'
    <3>1. early' = (main = "boot")
      BY <1>4 DEF StopFinished
    <3>2. ASSUME main = "boot" PROVE early' = TRUE
      BY <3>1, <3>2, Zenon
    <3> QED BY <3>2
  <2>3. stop' = "finished" /\ ~early' => main' = "finished"
    BY <1>4, <2>1, <2>2 DEF StopFinished
  <2>4. stop = "check" /\ stop' = "finished" /\ UNCHANGED <<vars, main, ability, isFinished, isStop>>
    BY <1>4 DEF StopFinished
  <2> QED BY <2>3, <2>4 DEF LifeInv, vars
<1> QED BY <1>1, <1>2, <1>3, <1>4 DEF Stop

LEMMA RichNextInv ==
  ChannelInv /\ LifeInv /\ [RichNext]_allVars => ChannelInv' /\ LifeInv'
<1> SUFFICES ASSUME ChannelInv, LifeInv, [RichNext]_allVars PROVE ChannelInv' /\ LifeInv'
  OBVIOUS
<1>1. CASE StartChannel
  BY <1>1, ChannelStepKeeps DEF StartChannel
<1>2. CASE ((stop = "no" /\ ProcessCommand) \/ Ide \/ CreatCommandToSendData) /\ UNCHANGED life
  BY <1>2, ChannelStepKeeps
<1>3. CASE Start \/ RunJsApp \/ LeaveLoop \/ StopAbility \/ Finish
  <2>1. UNCHANGED vars
    BY <1>3 DEF Start, RunJsApp, LeaveLoop, StopAbility, Finish
  <2>2. ChannelInv'
    BY <2>1, QuietKeeps
  <2> QED BY <1>3, <2>1, <2>2, MainKeeps
<1>4. CASE Stop
  <2>1. UNCHANGED vars
    BY <1>4 DEF Stop, StopBegin, Interrupt, StopSleep, StopFinished
  <2>2. ChannelInv'
    BY <2>1, QuietKeeps
  <2> QED BY <1>4, <2>1, <2>2, StopKeeps DEF ChannelInv
<1>5. CASE UNCHANGED allVars
  <2>1. UNCHANGED vars /\ UNCHANGED life
    BY <1>5 DEF allVars
  <2>2. ChannelInv'
    BY <2>1, QuietKeeps
  <2> QED BY <2>1, <2>2 DEF LifeInv, life, vars
<1> QED BY <1>1, <1>2, <1>3, <1>4, <1>5 DEF RichNext, Main

LEMMA RichInv == RichSpec => [](ChannelInv /\ LifeInv)
<1>1. RichInit => ChannelInv /\ LifeInv
  BY RichInitInv
<1>2. ChannelInv /\ LifeInv /\ [RichNext]_allVars => (ChannelInv /\ LifeInv)'
  BY RichNextInv
<1> QED BY <1>1, <1>2, PTL DEF RichSpec


(***************************************************************************)
(* What a reader should know.                                              *)
(***************************************************************************)
\* One answer for each message that was served, in their order: the result
\* of the command or {}, and one more {} after exit.
THEOREM RichOneAnswerInOrder == RichSpec => []OneAnswerInOrder
<1>1. ChannelInv => OneAnswerInOrder
  <2> SUFFICES ASSUME ChannelInv PROVE OneAnswerInOrder
    OBVIOUS
  <2>1. DOMAIN served = 1 .. Len(served) /\ DOMAIN answers = 1 .. Len(answers)
    BY LenProperties DEF ChannelInv, ChannelTypeOK
  <2>2. \A i, j \in DOMAIN served : i < j => served[i].id < served[j].id
    BY <2>1 DEF ChannelInv, ReadInv
  <2>3. \A i \in DOMAIN answers : answers[i] = Due(i)
    BY <2>1 DEF ChannelInv, AnswerInv
  <2>4. loop = "turn" => Len(answers) = Len(served) + IF interrupted THEN 1 ELSE 0
    BY DEF ChannelInv, AnswerInv
  <2> QED BY <2>2, <2>3, <2>4 DEF OneAnswerInOrder, Due
<1> QED BY <1>1, RichInv, PTL

\* A message the loop met half written is not served, and every other one
\* that was read is run, refused or ignored.
THEOREM RichOnlyTornIsLost == RichSpec => []OnlyTornIsLost
<1>1. ChannelInv => OnlyTornIsLost
  <2> SUFFICES ASSUME ChannelInv PROVE OnlyTornIsLost
    OBVIOUS
  <2>0. ChannelTypeOK /\ PipeInv /\ ReadInv
    BY DEF ChannelInv
  <2>1. ASSUME loop = "turn", stream = <<>>, NEW id \in 1 .. (writing.id - 1)
        PROVE  Served(id) \/ id \in torn \cup ignored
    <3>1. Unread = NextWritten
      BY <2>0, <2>1 DEF PipeInv, Unread, NextRead
    <3>2. writing.id \in 0..MaxMessages /\ MaxMessages \in Nat
      BY <2>0, ChannelAssumption DEF ChannelTypeOK, ChannelAssumption
    <3>3. NextWritten.id = writing.id \/ NextWritten.id = writing.id + 1
      BY DEF NextWritten
    <3>4. id \in Ids /\ id < Unread.id
      BY <3>1, <3>2, <3>3, SMT DEF Ids
    <3>5. Accounted(id)
      BY <3>4, <2>0 DEF ReadInv
    <3> QED BY <3>5, <2>1 DEF Accounted, InHand
  <2>2. \A id \in torn : ~Served(id)
    BY <2>0 DEF ReadInv
  <2> QED BY <2>1, <2>2 DEF OnlyTornIsLost
<1> QED BY <1>1, RichInv, PTL

\* The main thread tears the ability down after the last command and its
\* answers.
THEOREM RichNoCommandAfterStop == RichSpec => []NoCommandAfterStop
<1>1. LifeInv => NoCommandAfterStop
  BY DEF LifeInv, NoCommandAfterStop
<1> QED BY <1>1, RichInv, PTL

\* JsApp::Stop comes back without a timeout only when the ability is gone,
\* unless exit came before the start.
THEOREM RichStopWaits == RichSpec => []StopWaits
<1>1. LifeInv => StopWaits
  BY DEF LifeInv, StopWaits
<1> QED BY <1>1, RichInv, PTL

(***************************************************************************)
(* The pipe implements the command service.                                *)
(***************************************************************************)
\* Nothing is on the pipe that was not written, and exit has a result.
SentInv ==
  /\ \A i \in 1 .. Len(stream) : stream[i].id <= writing.id
  /\ \A i \in 1 .. Len(message) : message[i].id <= writing.id
  /\ loop = "exit" => result # NoResult

\* A message that is begun is a request.
LEMMA BeginMessageSent ==
  ASSUME ChannelInv, SentInv, NEW k \in Kinds, BeginMessage(k)
  PROVE  SentInv' /\ Service!Request
<1>1. /\ writing' = [id |-> writing.id + 1, kind |-> k, parts |-> 0]
      /\ UNCHANGED <<stream, message, loop, command, result, answers, served, interrupted>>
  BY DEF BeginMessage, history
<1>2. writing.id \in Nat /\ writing'.id = writing.id + 1
  <2>1. writing.id \in 0..MaxMessages /\ MaxMessages \in Nat
    BY ChannelAssumption DEF ChannelInv, ChannelTypeOK, ChannelAssumption
  <2> QED BY <2>1, <1>1, SMT
<1>3. \A i \in 1 .. Len(stream) : stream[i].id \in Nat
  <2> SUFFICES ASSUME NEW i \in 1 .. Len(stream) PROVE stream[i].id \in Nat
    OBVIOUS
  <2>1. stream[i] \in Part
    BY ElementOfSeq DEF ChannelInv, ChannelTypeOK
  <2> QED BY <2>1, SMT DEF Part, Ids
<1>4. \A i \in 1 .. Len(message) : message[i].id \in Nat
  <2> SUFFICES ASSUME NEW i \in 1 .. Len(message) PROVE message[i].id \in Nat
    OBVIOUS
  <2>1. message[i] \in Part
    BY ElementOfSeq DEF ChannelInv, ChannelTypeOK
  <2> QED BY <2>1, SMT DEF Part, Ids
<1>5. ASSUME NEW n \in Nat, n <= writing.id PROVE n <= writing'.id
  BY <1>2, <1>5, SMT
<1>6. SentInv'
  BY <1>1, <1>3, <1>4, <1>5 DEF SentInv
<1>7. Service!Request
  BY <1>1, <1>2 DEF Service!Request, Taken, InHand
<1> QED BY <1>6, <1>7

\* The service does not see bytes written
LEMMA WritePartSent ==
  ASSUME ChannelInv, SentInv, WritePart
  PROVE  SentInv' /\ UNCHANGED Service!vars
<1> DEFINE x == [id |-> writing.id, kind |-> writing.kind, part |-> writing.parts + 1]
<1>1. /\ writing' = [writing EXCEPT !.parts = @ + 1]
      /\ writing.parts < End
      /\ stream' = Append(stream, x)
      /\ UNCHANGED <<message, loop, command, result, answers, served, interrupted>>
  BY DEF WritePart, history
<1>2. /\ writing'.id = writing.id /\ writing.id \in Ids /\ writing.id \in Nat
      /\ x \in Part
  <2>1. /\ writing \in [id : 0..MaxMessages, kind : Kinds, parts : 0..End]
        /\ writing.id = 0 => writing.parts = End
        /\ MaxMessages \in Nat /\ Body \in Nat /\ End = Body + 1
    BY ReadTypes, ChannelAssumption DEF ChannelInv, ChannelTypeOK, ChannelAssumption
  <2> QED BY <2>1, <1>1, SMT DEF Ids, Part
<1>3. x.id = writing.id
  OBVIOUS
<1> HIDE DEF x
<1>4. /\ Len(stream') = Len(stream) + 1 /\ Len(stream) \in Nat
      /\ stream'[Len(stream) + 1] = x
      /\ \A i \in 1 .. Len(stream) : stream'[i] = stream[i]
  BY <1>1, <1>2, AppendSeq DEF ChannelInv, ChannelTypeOK
<1>5. ASSUME NEW i \in 1 .. Len(stream') PROVE stream'[i].id <= writing'.id
  <2>1. CASE i = Len(stream) + 1
    BY <2>1, <1>2, <1>3, <1>4, SMT
  <2>2. CASE i # Len(stream) + 1
    <3>1. i \in 1 .. Len(stream)
      BY <2>2, <1>4, SMT
    <3> QED BY <3>1, <1>2, <1>4 DEF SentInv
  <2> QED BY <2>1, <2>2
<1>6. SentInv'
  BY <1>1, <1>2, <1>5 DEF SentInv
<1>7. UNCHANGED Service!vars
  BY <1>1, <1>2 DEF Service!vars, Taken, InHand
<1> QED BY <1>6, <1>7

\* nor read.
LEMMA ReadByteSent ==
  ASSUME ChannelInv, SentInv, ReadByte
  PROVE  SentInv' /\ UNCHANGED Service!vars
<1>1. /\ loop = "read" /\ stream # <<>>
      /\ message' = Append(message, Head(stream)) /\ stream' = Tail(stream)
      /\ UNCHANGED <<writing, loop, command, result, answers, served, interrupted>>
  BY DEF ReadByte, history
<1>2. stream \in Seq(Part) /\ message \in Seq(Part)
  BY DEF ChannelInv, ChannelTypeOK
<1>3. /\ Head(stream) = stream[1] /\ stream[1] \in Part
      /\ Len(stream) \in Nat \ {0} /\ Len(stream') = Len(stream) - 1
      /\ \A i \in 1 .. (Len(stream) - 1) : stream'[i] = stream[i + 1]
  BY <1>1, <1>2, TailSeq
<1>4. /\ Len(message') = Len(message) + 1 /\ Len(message) \in Nat
      /\ message'[Len(message) + 1] = stream[1]
      /\ \A i \in 1 .. Len(message) : message'[i] = message[i]
  BY <1>1, <1>2, <1>3, AppendSeq
<1>5. ASSUME NEW i \in 1 .. Len(stream') PROVE stream'[i].id <= writing.id
  <2>1. i \in 1 .. (Len(stream) - 1) /\ i + 1 \in 1 .. Len(stream)
    BY <1>3, SMT
  <2> QED BY <2>1, <1>3 DEF SentInv
<1>6. ASSUME NEW i \in 1 .. Len(message') PROVE message'[i].id <= writing.id
  <2>1. CASE i = Len(message) + 1
    <3>1. 1 \in 1 .. Len(stream)
      BY <1>3, SMT
    <3> QED BY <2>1, <3>1, <1>4 DEF SentInv
  <2>2. CASE i # Len(message) + 1
    <3>1. i \in 1 .. Len(message)
      BY <2>2, <1>4, SMT
    <3> QED BY <3>1, <1>4 DEF SentInv
  <2> QED BY <2>1, <2>2
<1>7. SentInv'
  BY <1>1, <1>5, <1>6 DEF SentInv
<1>8. UNCHANGED Service!vars
  BY <1>1 DEF Service!vars, Taken, InHand
<1> QED BY <1>7, <1>8

\* A command in hand has been taken, in the order of the requests.
LEMMA DispatchSent ==
  ASSUME ChannelInv, SentInv, Dispatch
  PROVE  SentInv' /\ [Service!Next]_Service!vars
<1>1. /\ loop = "read" /\ message' = <<>> /\ loop' \in {"turn", "refuse", "run"}
      /\ UNCHANGED <<stream, writing, result, answers, interrupted, served>>
  BY DEF Dispatch, ide
<1>2. Len(message') = 0 /\ 1 .. 0 = {}
  BY <1>1, EmptySeq
<1>3. SentInv'
  BY <1>1, <1>2 DEF SentInv
<1>4. ~InHand /\ ~interrupted
  BY <1>1 DEF InHand, ChannelInv, AnswerInv
<1>5. CASE ~InHand'
  <2>1. loop' = "turn"
    BY <1>1, <1>5 DEF InHand
  <2>2. UNCHANGED Service!vars
    BY <1>1, <1>4, <2>1 DEF Service!vars, Taken, InHand
  <2> QED BY <1>3, <2>2
\* The command in hand is newer than all that were served.
<1>6. CASE InHand'
  <2>1. message # <<>> /\ command'.id = message[1].id
    BY <1>6 DEF Dispatch, InHand
  <2>2. 1 \in 1 .. Len(message) /\ message[1] \in Part
    <3>1. message \in Seq(Part)
      BY DEF ChannelInv, ChannelTypeOK
    <3>2. Len(message) \in Nat \ {0} /\ message[1] \in Part
      BY <3>1, <2>1, TailSeq
    <3> QED BY <3>2, SMT
  <2>3. command'.id \in 1 .. writing.id
    <3>1. message[1].id <= writing.id /\ message[1].id \in Ids
      BY <2>2, Zenon DEF SentInv, Part
    <3>2. writing.id \in 0..MaxMessages /\ MaxMessages \in Nat
      BY ChannelAssumption DEF ChannelInv, ChannelTypeOK, ChannelAssumption
    <3> QED BY <2>1, <3>1, <3>2, SMT DEF Ids
  <2>4. command'.id > Taken
    <3>1. CASE served = <<>>
      <4>1. Taken = 0
        BY <1>4, <3>1 DEF Taken, NoResult
      <4>2. writing.id \in Nat
        BY ChannelAssumption, SMT DEF ChannelInv, ChannelTypeOK, ChannelAssumption
      <4> QED BY <4>1, <4>2, <2>3, SMT
    <3>2. CASE served # <<>>
      <4>1. served \in Seq([id : Ids, kind : Kinds])
        BY DEF ChannelInv, ChannelTypeOK
      <4>2. Len(served) \in Nat \ {0}
        BY <4>1, <3>2, TailSeq
      <4>3. Len(served) \in 1 .. Len(served)
        BY <4>2, SMT
      <4>4. Taken = served[Len(served)].id
        BY <1>4, <3>2 DEF Taken
      <4>5. ChannelInv'
        BY DispatchKeeps
      <4>6. \A i \in 1 .. Len(served) : served[i].id < command'.id
        BY <4>5, <1>1, <1>6 DEF ChannelInv, ReadInv
      <4>7. Taken < command'.id
        BY <4>3, <4>4, <4>6
      <4>8. Taken \in Nat /\ command'.id \in Nat
        <5>1. served[Len(served)] \in [id : Ids, kind : Kinds]
          BY <4>1, <4>3, ElementOfSeq
        <5>2. writing.id \in 0..MaxMessages /\ MaxMessages \in Nat
          BY ChannelAssumption DEF ChannelInv, ChannelTypeOK, ChannelAssumption
        <5>3. served[Len(served)].id \in Ids
          BY <5>1
        <5> QED BY <5>2, <5>3, <4>4, <2>3, SMT DEF Ids
      <4> QED BY <4>7, <4>8, SMT
    <3> QED BY <3>1, <3>2
  <2>5. Taken' = command'.id
    BY <1>6 DEF Taken
  <2>6. PICK id \in 1 .. writing.id : id = command'.id
    BY <2>3
  <2>7. id <= writing.id
    BY <2>6, ChannelAssumption, SMT DEF ChannelInv, ChannelTypeOK, ChannelAssumption
  <2>8. Service!Take(id)
    <3>1. (InHand \/ loop \in {"exit", "send"}) = FALSE /\ (InHand \/ loop \in {"exit", "send"})' = TRUE
      BY <1>1, <1>4, <1>6
    <3>2. (~interrupted) /\ UNCHANGED <<writing, answers, interrupted>>
      BY <1>1, <1>4
    <3> QED BY <3>1, <3>2, <2>4, <2>5, <2>6, <2>7 DEF Service!Take
  <2> QED BY <1>3, <2>8 DEF Service!Next
<1> QED BY <1>3, <1>5, <1>6

\* An answer is the number of the command taken, or empty.
LEMMA AnswerSent ==
  ASSUME ChannelInv, SentInv, Refuse \/ Run \/ RunExit \/ CheckAndRunSend
  PROVE  SentInv' /\ [Service!Next]_Service!vars
<1>0. ChannelTypeOK /\ PipeInv /\ ReadInv /\ AnswerInv
  BY DEF ChannelInv
<1>1. CASE Refuse
  <2>1. /\ loop = "refuse" /\ loop' = "turn" /\ InHand
        /\ answers' = Append(answers, command.id) /\ served' = Append(served, command)
        /\ UNCHANGED <<stream, writing, message, command, result, torn, ignored, interrupted>>
    BY <1>1 DEF Refuse, InHand, ide
  <2>2. /\ served' # <<>> /\ served'[Len(served')].id = command.id
    BY <2>1, ServedGrows, EmptySeq
  <2>3. Taken = command.id /\ Taken' = command.id
    BY <2>1, <2>2 DEF Taken, InHand
  <2>4. ~interrupted
    BY <1>0, <2>1 DEF AnswerInv
  <2>5. Service!Answer(Taken)
    <3>1. (InHand \/ loop \in {"exit", "send"}) = TRUE /\ (InHand \/ loop \in {"exit", "send"})' = FALSE
      BY <2>1 DEF InHand
    <3> QED BY <3>1, <2>1, <2>3, <2>4 DEF Service!Answer
  <2>6. SentInv'
    BY <2>1 DEF SentInv
  <2> QED BY <2>5, <2>6 DEF Service!Next
<1>2. CASE Run
  <2>1. /\ loop = "run" /\ loop' \in {"exit", "send"} /\ InHand
        /\ served' = Append(served, command)
        /\ UNCHANGED <<stream, writing, message, command, answers, torn, ignored, interrupted>>
    BY <1>2 DEF Run, InHand, ide
  <2>2. /\ served' # <<>> /\ served'[Len(served')].id = command.id /\ command.id \in Ids
    BY <2>1, ServedGrows, EmptySeq
  <2>3. Taken = command.id /\ Taken' = command.id
    BY <2>1, <2>2 DEF Taken, InHand
  <2>4. UNCHANGED Service!vars
    BY <2>1, <2>3 DEF Service!vars, InHand
  <2>5. loop' = "exit" => result' # NoResult
    <3>1. loop' = "exit" => command.kind = "exit"
      BY <1>2 DEF Run
    <3>2. command.kind = "exit" => result' = command.id
      BY <1>2 DEF Run
    <3>3. command.id # NoResult
      BY <2>2, SMT DEF Ids, NoResult
    <3> QED BY <3>1, <3>2, <3>3
  <2>6. SentInv'
    BY <2>1, <2>5 DEF SentInv
  <2> QED BY <2>4, <2>6
<1>3. CASE RunExit \/ CheckAndRunSend
  <2>1. /\ loop \in {"exit", "send"} /\ ~InHand /\ ~InHand'
        /\ answers' = Append(answers, result)
        /\ UNCHANGED <<stream, writing, message, command, served>>
        /\ loop = "exit" => interrupted' = TRUE /\ loop' = "send"
        /\ loop = "send" => interrupted' = interrupted /\ loop' = "turn"
    BY <1>3 DEF RunExit, CheckAndRunSend, SendResult, ide, history, InHand
  <2>2. Taken' = Taken
    BY <2>1 DEF Taken
  <2>3. ~interrupted => result \in {Taken, NoResult}
    <3> SUFFICES ASSUME ~interrupted PROVE result \in {Taken, NoResult}
      OBVIOUS
    <3>1. result = Due(Len(served)) /\ Len(served) = Len(answers) + 1
      BY <1>0, <2>1 DEF AnswerInv
    <3>2. served # <<>>
      <4>1. Len(answers) \in Nat
        BY <1>0, LenProperties DEF ChannelTypeOK
      <4>2. Len(served) # 0
        BY <3>1, <4>1, SMT
      <4> QED BY <4>2, EmptySeq
    <3>3. Taken = served[Len(served)].id
      BY <3>2, <2>1 DEF Taken
    <3> QED BY <3>1, <3>3 DEF Due
  <2>4. interrupted => result = NoResult /\ loop = "send"
    BY <1>0, <2>1 DEF AnswerInv
  <2>5. SentInv'
    BY <2>1 DEF SentInv
  <2>6. CASE loop = "exit"
    <3>1. ~interrupted /\ result = Taken /\ interrupted'
      BY <2>1, <2>3, <2>4, <2>6 DEF SentInv
    <3>2. Service!Close
      BY <3>1, <2>1, <2>2, <2>6 DEF Service!Close, InHand
    <3> QED BY <3>2, <2>5 DEF Service!Next
  <2>7. CASE loop = "send"
    <3>1. interrupted' = interrupted /\ loop' = "turn"
      BY <2>1, <2>7
    <3>2. result \in {Taken, NoResult}
      BY <2>3, <2>4
    <3>3. ~interrupted \/ result = Service!Empty
      BY <2>4 DEF Service!Empty, NoResult
    <3>4. Service!Answer(result)
      BY <3>1, <3>3, <2>1, <2>2, <2>7 DEF Service!Answer, InHand
    <3>5. \E answer \in {Taken, Service!Empty} : Service!Answer(answer)
      BY <3>2, <3>4 DEF Service!Empty, NoResult
    <3> QED BY <3>5, <2>5 DEF Service!Next
  <2> QED BY <2>1, <2>6, <2>7
<1> QED BY <1>1, <1>2, <1>3

\* The service does not see turns and other messages.
LEMMA QuietSent ==
  ASSUME SentInv, StartListening \/ CreatCommandToSendData \/ UNCHANGED vars \/ Turn
  PROVE  SentInv' /\ UNCHANGED Service!vars
<1>1. /\ UNCHANGED <<stream, writing, message, command, result, answers, served, interrupted>>
      /\ loop' = loop \/ (loop = "turn" /\ loop' = "read")
  BY DEF StartListening, CreatCommandToSendData, vars, Turn, ide, history
<1>2. SentInv'
  BY <1>1 DEF SentInv
<1>3. UNCHANGED Service!vars
  BY <1>1 DEF Service!vars, Taken, InHand
<1> QED BY <1>2, <1>3

\* Every step of the previewer is one of the service, or none.
LEMMA ServiceStep ==
  ASSUME ChannelInv, SentInv, [RichNext]_allVars
  PROVE  SentInv' /\ [Service!Next]_Service!vars
<1>1. CASE Ide
  <2>1. ASSUME NEW k \in Kinds, BeginMessage(k) PROVE SentInv' /\ Service!Next
    BY <2>1, BeginMessageSent DEF Service!Next
  <2> QED BY <1>1, <2>1, WritePartSent DEF Ide
<1>2. CASE ProcessCommand
  BY <1>2, QuietSent, ReadByteSent, DispatchSent, AnswerSent DEF ProcessCommand
<1>3. CASE StartListening \/ CreatCommandToSendData \/ UNCHANGED vars
  BY <1>3, QuietSent
<1>4. Main \/ Stop \/ UNCHANGED allVars => StartListening \/ UNCHANGED vars
  BY DEF Main, StartChannel, Start, RunJsApp, LeaveLoop, StopAbility, Finish,
         Stop, StopBegin, Interrupt, StopSleep, StopFinished, allVars
<1> QED BY <1>1, <1>2, <1>3, <1>4 DEF RichNext

(* Wherever reads cut the messages, the pipe takes one command at a time,  *)
(* in the order they were written, answers it before the next one, and     *)
(* takes none after exit.                                                  *)
THEOREM RichCommandService == RichSpec => ServiceSpec
<1>1. RichInit => SentInv /\ Service!Init
  <2> SUFFICES ASSUME RichInit PROVE SentInv /\ Service!Init
    OBVIOUS
  <2>1. /\ stream = <<>> /\ message = <<>> /\ answers = <<>> /\ served = <<>>
        /\ writing.id = 0 /\ loop = "turn" /\ ~interrupted
    BY DEF RichInit, Init
  <2>2. Len(stream) = 0 /\ Len(message) = 0 /\ 1 .. 0 = {}
    BY <2>1, EmptySeq, SMT
  <2>3. SentInv
    BY <2>1, <2>2 DEF SentInv
  <2>4. Service!Init
    BY <2>1 DEF Service!Init, Service!Empty, Taken, InHand, NoResult
  <2> QED BY <2>3, <2>4
<1>2. ChannelInv /\ SentInv /\ [RichNext]_allVars => SentInv' /\ [Service!Next]_Service!vars
  BY ServiceStep
<1> QED BY <1>1, <1>2, RichInv, PTL DEF RichSpec, ServiceSpec, Service!Spec

================================================================================
