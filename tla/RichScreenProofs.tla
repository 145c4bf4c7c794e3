------------------------- MODULE RichScreenProofs -------------------------
(***************************************************************************)
(* The two sides of VirtualScreenImpl of the rich previewer: the images it *)
(* sends (module ImageChannel) and the sizes it is told (RichDisplay).     *)
(* They share no state; each part below is about one of them.              *)
(***************************************************************************)
EXTENDS ImageChannel, RichDisplay, Integers, SequenceTheorems, TLAPS

---------------------------------------------------------------------------
(***************************************************************************)
(* For any number of clients and images, any sizes and any interleaving of *)
(* the service thread and the render thread: a client that is alone on the *)
(* channel, joined outside WriteData, had no short or failed write and was *)
(* not resent the copy between two fragments gets whole images, in order,  *)
(* and lags at most one behind.  The argument: from                        *)
(* LWS_CALLBACK_ESTABLISHED until MarkWriteable the channel is not         *)
(* writable, so WriteData waits and only the service thread writes, the    *)
(* copy (Joining); afterwards the service thread has no more callback for  *)
(* this client, and only WriteData writes (Joined), until the socket is    *)
(* busy.  Then WriteData waits in the middle of its image while the service*)
(* thread handles the event it asked for (Busy).                           *)
(*                                                                         *)
(* In component mode the copy that is resent has lost its pixels           *)
(* (ResendIsWhole), so all this is for the other mode.                     *)
(***************************************************************************)

Senders == {"idle", "await", "check", "chunk", "busy", "backup"}
View == [open : Nat, got : Nat, last : Nat, bad : BOOLEAN]

ChannelTypeOK ==
  /\ webSocket \in Clients \cup {NoClient}
  /\ writable \in {"INIT", "WRITEABLE", "UNWRITEABLE"}
  /\ firstImage \in Nat /\ firstSize \in Nat
  /\ conn \in [Clients -> {"new", "open", "closed", "refused"}]
  /\ service \in [at : {"idle", "resend", "mark"}, wsi : Clients \cup {NoClient}]
  /\ sender \in Senders
  /\ image \in Nat /\ written \in Nat
  /\ view \in [Clients -> View]

\* Only open connections are served; with none the channel is not writable.
ServiceInv ==
  /\ wanted \subseteq Open
  /\ service.at = "idle" <=> service = Idle
  /\ service # Idle => service.wsi \in Open
  /\ Open = {} => writable # "WRITEABLE"

\* The copy is the last image that SendPixmap is done with, kept in full.
SenderInv ==
  /\ sender # "idle" => image >= 1
  /\ written < Total
  /\ sender \notin {"chunk", "busy"} => written = 0
  /\ firstImage = IF sender = "idle" THEN image ELSE image - 1
  /\ firstImage # NoImage => firstSize = Total
  /\ service.at = "resend" => firstImage # NoImage
  /\ writable = "INIT" => sender \in {"idle", "await"} /\ firstImage = NoImage

\* The page is at most one image behind what SendPixmap is done with.
Behind(c) ==
  view[c].last \in IF sender \in {"idle", "backup"} THEN {image - 1, image}
                                                   ELSE {image - 2, image - 1}

\* Before the first writable event is handled, WriteData waits.
Joining(c) ==
  /\ writable # "WRITEABLE"
  /\ sender \in {"idle", "await", "backup"}
  /\ \/ c \in wanted /\ service = Idle /\ view[c] = Fresh
     \/ c \notin wanted /\ service = [at |-> "resend", wsi |-> c] /\ view[c] = Fresh
     \/ /\ c \notin wanted /\ service = [at |-> "mark", wsi |-> c]
        /\ view[c].open = NoImage /\ Behind(c)

\* The page has of the image being written what is written of it.
Page(c) ==
  /\ IF sender \in {"chunk", "busy"} /\ written > 0
     THEN view[c].open = image /\ view[c].got = written
     ELSE view[c].open = NoImage
  /\ Behind(c)

\* After it, the service thread has nothing to do for this client.
Joined(c) == writable = "WRITEABLE" /\ service = Idle /\ c \notin wanted /\ Page(c)

\* The socket was busy: the event WriteData asked for comes or is handled.
Busy(c) ==
  /\ writable = "UNWRITEABLE" /\ sender = "busy" /\ Page(c)
  /\ \/ c \in wanted /\ service = Idle
     \/ c \notin wanted /\ service.at \in {"resend", "mark"} /\ service.wsi = c

ClientInv(c) ==
  /\ ~view[c].bad
  /\ conn[c] = "new" => view[c] = Fresh
  /\ conn[c] = "open" =>
       /\ webSocket = c /\ Open = {c}
       /\ Joining(c) \/ Joined(c) \/ Busy(c)

ChannelInv ==
  /\ ChannelTypeOK /\ ServiceInv /\ SenderInv
  /\ \A c \in Served : ClientInv(c)

LEMMA TotalPositive == Total \in Nat \ {0}
BY ChannelAssumption DEF ChannelAssumption, Total

\* A page keeps its type when it receives a frame.
LEMMA ReceiveType ==
  ASSUME NEW v \in View, NEW first, NEW fin, NEW img \in Nat, NEW n \in Nat
  PROVE  Receive(v, first, fin, img, n) \in View
<1> DEFINE fits == IF first THEN v.open = NoImage ELSE v.open = img
           got == (IF first THEN 0 ELSE v.got) + n
           bad == v.bad \/ ~fits \/ (fin /\ got # Total)
<1>1. got \in Nat BY DEF View
<1>2. bad \in BOOLEAN OBVIOUS
<1>3. (IF fin /\ fits /\ got = Total THEN img ELSE v.last) \in Nat BY DEF View
<1>4. (IF fin THEN NoImage ELSE img) \in Nat /\ (IF fin THEN 0 ELSE got) \in Nat
  BY <1>1 DEF NoImage
<1>5. Receive(v, first, fin, img, n) =
        [open |-> IF fin THEN NoImage ELSE img, got |-> IF fin THEN 0 ELSE got,
         last |-> IF fin /\ fits /\ got = Total THEN img ELSE v.last, bad |-> bad]
  BY Zenon DEF Receive
<1> HIDE DEF bad, got, fits
<1> QED BY <1>1, <1>2, <1>3, <1>4, <1>5 DEF View

\* Every variable keeps its type.
LEMMA TypeKeeps ==
  ASSUME ChannelInv, [Next]_vars
  PROVE  ChannelTypeOK'
<1> USE ChannelAssumption, TotalPositive
    DEF ChannelAssumption, ChannelInv, ChannelTypeOK, Senders, View, Idle, history, channel,
        backup
<1>1. CASE \E d \in Clients : Refused(d) BY <1>1 DEF Refused
<1>2. CASE \E d \in Clients : Established(d) BY <1>2 DEF Established
<1>3. CASE \E d \in Clients : Writeable(d) BY <1>3 DEF Writeable
<1>4. CASE \E d \in Clients : Closed(d) BY <1>4 DEF Closed
<1>5. CASE Resend
  <2>1. PICK n \in 0..firstSize :
          view' = IF n = 0 THEN view
                  ELSE [view EXCEPT ![service.wsi] =
                          Receive(view[service.wsi], TRUE, TRUE, firstImage, n)]
    BY <1>5 DEF Resend
  <2>2. Receive(view[service.wsi], TRUE, TRUE, firstImage, n) \in View
    <3>1. service.wsi \in Clients BY <1>5 DEF Resend, ServiceInv, Open
    <3>2. view[service.wsi] \in View /\ n \in Nat BY <3>1
    <3> QED BY <3>2, ReceiveType
  <2>3. view' \in [Clients -> View] BY <2>1, <2>2
  <2> QED BY <1>5, <2>3 DEF Resend
<1>6. CASE MarkWriteable BY <1>6 DEF MarkWriteable
<1>7. CASE SendPixmap BY <1>7 DEF SendPixmap
<1>8. CASE AwaitWriteable BY <1>8 DEF AwaitWriteable
<1>9. CASE CheckWriteable BY <1>9 DEF CheckWriteable
<1>10. CASE \E n \in 1..Chunk : WriteChunk(n)
  <2>1. PICK n \in 1..Chunk : WriteChunk(n) BY <1>10
  <2>2. view' \in [Clients -> View]
    <3>1. CASE webSocket \in Open
      <4>1. Receive(view[webSocket], written = 0, written + ToWrite >= Total, image, n) \in View
        BY <3>1, ReceiveType DEF Open
      <4> QED BY <2>1, <3>1, <4>1 DEF WriteChunk, Open
    <3> QED BY <2>1, <3>1 DEF WriteChunk
  <2> QED BY <2>1, <2>2 DEF WriteChunk
<1>11. CASE WriteFatal BY <1>11 DEF WriteFatal
<1>12. CASE WriteBusy BY <1>12 DEF WriteBusy
<1>13. CASE Retry BY <1>13 DEF Retry
<1>14. CASE BackupAndDeleteBuffer BY <1>14 DEF BackupAndDeleteBuffer
<1>15. CASE UNCHANGED vars BY <1>15 DEF vars
<1> QED
  BY <1>1, <1>2, <1>3, <1>4, <1>5, <1>6, <1>7, <1>8,
     <1>9, <1>10, <1>11, <1>12, <1>13, <1>14, <1>15
  DEF Next, Service, Write

\* The service thread's callbacks are for open connections.
LEMMA ServiceKeeps ==
  ASSUME ChannelInv, [Next]_vars
  PROVE  ServiceInv'
<1> USE ChannelAssumption
    DEF ChannelAssumption, ChannelInv, ChannelTypeOK, ServiceInv, Open, Idle, history,
        channel, backup
<1>1. CASE \E d \in Clients : Refused(d) BY <1>1 DEF Refused
<1>2. CASE \E d \in Clients : Established(d) BY <1>2 DEF Established
<1>3. CASE \E d \in Clients : Writeable(d) BY <1>3 DEF Writeable
<1>4. CASE \E d \in Clients : Closed(d) BY <1>4 DEF Closed
<1>5. CASE Resend BY <1>5 DEF Resend
<1>6. CASE MarkWriteable BY <1>6 DEF MarkWriteable
<1>7. CASE SendPixmap BY <1>7 DEF SendPixmap
<1>8. CASE AwaitWriteable BY <1>8 DEF AwaitWriteable
<1>9. CASE CheckWriteable BY <1>9 DEF CheckWriteable
<1>10. CASE \E n \in 1..Chunk : WriteChunk(n) BY <1>10 DEF WriteChunk
<1>11. CASE WriteFatal BY <1>11 DEF WriteFatal
<1>12. CASE WriteBusy BY <1>12 DEF WriteBusy
<1>13. CASE Retry BY <1>13 DEF Retry
<1>14. CASE BackupAndDeleteBuffer BY <1>14 DEF BackupAndDeleteBuffer
<1>15. CASE UNCHANGED vars BY <1>15 DEF vars
<1> QED
  BY <1>1, <1>2, <1>3, <1>4, <1>5, <1>6, <1>7, <1>8,
     <1>9, <1>10, <1>11, <1>12, <1>13, <1>14, <1>15
  DEF Next, Service, Write

\* Between backup and await the copy is the last image; it is kept in full.
LEMMA SenderKeeps ==
  ASSUME ~ComponentMode, ChannelInv, [Next]_vars
  PROVE  SenderInv'
<1> USE ChannelAssumption, TotalPositive
    DEF ChannelAssumption, ChannelInv, ChannelTypeOK, Senders, SenderInv, NoImage, Idle,
        history, channel, backup
<1>1. CASE \E d \in Clients : Refused(d) BY <1>1 DEF Refused
<1>2. CASE \E d \in Clients : Established(d) BY <1>2 DEF Established
<1>3. CASE \E d \in Clients : Writeable(d) BY <1>3 DEF Writeable
<1>4. CASE \E d \in Clients : Closed(d) BY <1>4 DEF Closed
<1>5. CASE Resend BY <1>5 DEF Resend
<1>6. CASE MarkWriteable BY <1>6 DEF MarkWriteable
<1>7. CASE SendPixmap BY <1>7 DEF SendPixmap
<1>8. CASE AwaitWriteable BY <1>8 DEF AwaitWriteable
<1>9. CASE CheckWriteable BY <1>9 DEF CheckWriteable
<1>10. CASE \E n \in 1..Chunk : WriteChunk(n) BY <1>10 DEF WriteChunk, ToWrite
<1>11. CASE WriteFatal BY <1>11 DEF WriteFatal
<1>12. CASE WriteBusy BY <1>12 DEF WriteBusy
<1>13. CASE Retry BY <1>13 DEF Retry
<1>14. CASE BackupAndDeleteBuffer BY <1>14 DEF BackupAndDeleteBuffer, Total
<1>15. CASE UNCHANGED vars BY <1>15 DEF vars
<1> QED
  BY <1>1, <1>2, <1>3, <1>4, <1>5, <1>6, <1>7, <1>8,
     <1>9, <1>10, <1>11, <1>12, <1>13, <1>14, <1>15
  DEF Next, Service, Write

\* Who is not served any more is never served again.
LEMMA ServedShrinks ==
  ASSUME ChannelInv, [Next]_vars
  PROVE  Served' \subseteq Served
<1>1. crowded \subseteq crowded' /\ torn \subseteq torn' /\ split \subseteq split'
  <2>1. CASE \E d \in Clients : Service(d)
    BY <2>1 DEF Service, Refused, Established, Writeable, Closed, history
  <2>2. CASE Write
    BY <2>2 DEF Write, WriteChunk, WriteFatal, WriteBusy, history
  <2>3. CASE Resend \/ MarkWriteable \/ SendPixmap \/ AwaitWriteable \/ CheckWriteable \/ Retry
             \/ BackupAndDeleteBuffer \/ UNCHANGED vars
    BY <2>3 DEF Resend, MarkWriteable, SendPixmap, AwaitWriteable, CheckWriteable, Retry,
                BackupAndDeleteBuffer, history, vars
  <2> QED BY <2>1, <2>2, <2>3 DEF Next
<1> QED BY <1>1 DEF Served

\* A whole message is shown by a page that is in the middle of none.
LEMMA ReceiveWhole ==
  ASSUME NEW v \in View, v.open = NoImage, ~v.bad, NEW img \in Nat
  PROVE  Receive(v, TRUE, TRUE, img, Total) =
           [open |-> NoImage, got |-> 0, last |-> img, bad |-> FALSE]
<1>1. 0 + Total = Total BY TotalPositive
<1> QED BY <1>1 DEF Receive, View

\* Established: the client is the only one, and WriteData is before its wait.
LEMMA EstablishedKeeps ==
  ASSUME ChannelInv, NEW d \in Clients, Established(d), NEW c \in Served, ClientInv(c),
         c \notin crowded', c \notin torn'
  PROVE  ClientInv(c)'
<1> USE DEF ChannelInv, ChannelTypeOK
<1>1. c \in Clients BY DEF Served
<1>2. /\ UNCHANGED <<writable, backup, service, sender, image, written, view>>
      /\ service = Idle /\ webSocket' = d /\ wanted' = wanted \cup {d}
      /\ conn' = [conn EXCEPT ![d] = "open"] /\ conn[d] = "new"
      /\ Open # {} => crowded' = crowded \cup Open \cup {d}
  BY DEF Established
<1>3. CASE c # d
  <2>1. conn[c] # "open" BY <1>1, <1>2, <1>3 DEF Open
  <2> QED BY <1>1, <1>2, <1>3, <2>1 DEF ClientInv, Fresh
<1>4. CASE c = d
  <2>1. Open = {} BY <1>2, <1>4
  <2>2. sender \in {"idle", "await", "backup"}
    BY <1>4 DEF Established, Senders
  <2>3. writable # "WRITEABLE" BY <2>1 DEF ServiceInv
  <2>4. Open' = {c} BY <1>1, <1>2, <1>4, <2>1 DEF Open
  <2>5. view[c] = Fresh BY <1>2, <1>4 DEF ClientInv
  <2> QED BY <1>1, <1>2, <1>4, <2>2, <2>3, <2>4, <2>5 DEF ClientInv, Joining, Idle, Fresh
<1> QED BY <1>3, <1>4

\* Resend: the page is in the middle of no image and gets the copy in full.
LEMMA ResendKeeps ==
  ASSUME ChannelInv, Resend, NEW c \in Served, ClientInv(c), c \notin torn', c \notin split'
  PROVE  ClientInv(c)' /\ view'[c].last >= view[c].last
<1> USE DEF ChannelInv, ChannelTypeOK, channel, backup
<1>1. c \in Clients /\ view[c] \in View BY DEF Served
<1>2. /\ UNCHANGED <<webSocket, writable, wanted, conn, firstImage, firstSize>>
      /\ UNCHANGED <<sender, image, written>>
      /\ service.at = "resend" /\ service.wsi \in Open /\ service.wsi \in Clients
      /\ service' = [at |-> "mark", wsi |-> service.wsi]
  BY DEF Resend, ServiceInv, Idle, Open
<1>3. CASE service.wsi # c
  <2>1. conn[c] # "open"
    BY <1>1, <1>2, <1>3 DEF ClientInv, Joining, Joined, Busy, Open, Idle
  <2>2. view'[c] = view[c] BY <1>1, <1>2, <1>3 DEF Resend
  <2> QED BY <1>1, <1>2, <2>1, <2>2 DEF ClientInv, Fresh, View
<1>4. CASE service.wsi = c
  <2>1. conn[c] = "open" /\ webSocket = c /\ Open = {c} /\ Open' = {c}
    BY <1>1, <1>2, <1>4 DEF ClientInv, Open
  <2>2. view[c].open = NoImage /\ ~view[c].bad
    <3>1. ~(view[c].open # NoImage) BY <1>4 DEF Resend
    <3> QED BY <3>1, <1>1 DEF ClientInv
  <2>3. firstSize = Total /\ firstImage = IF sender = "idle" THEN image ELSE image - 1
    BY <1>2 DEF SenderInv
  <2>4. Receive(view[c], TRUE, TRUE, firstImage, Total) =
          [open |-> NoImage, got |-> 0, last |-> firstImage, bad |-> FALSE]
    BY <1>1, <2>2, ReceiveWhole
  <2>5. view'[c] = [open |-> NoImage, got |-> 0, last |-> firstImage, bad |-> FALSE]
    <3>1. PICK n \in 0..firstSize :
            /\ view' = IF n = 0 THEN view
                       ELSE [view EXCEPT ![c] = Receive(view[c], TRUE, TRUE, firstImage, n)]
            /\ torn' = IF n < firstSize THEN torn \cup {c} ELSE torn
      BY <1>4 DEF Resend
    <3>2. n = Total /\ n # 0
      <4>1. ~(n < firstSize) BY <3>1
      <4> QED BY <2>3, <3>1, <4>1, TotalPositive
    <3>3. view' = [view EXCEPT ![c] = Receive(view[c], TRUE, TRUE, firstImage, Total)]
      BY <3>1, <3>2
    <3> QED BY <1>1, <2>4, <3>3
  <2>6. (Joining(c) /\ view[c] = Fresh) \/ (Busy(c) /\ Behind(c))
    BY <1>2, <2>1 DEF ClientInv, Joining, Joined, Busy, Page, Idle
  <2>7. CASE Joining(c) /\ view[c] = Fresh
    <3>1. sender \in {"idle", "await", "backup"} /\ writable # "WRITEABLE" /\ c \notin wanted
      BY <1>2, <2>7 DEF Joining, Idle
    <3>2. Behind(c)' BY <1>2, <2>3, <2>5, <3>1 DEF Behind
    <3>3. Joining(c)' BY <1>2, <1>4, <2>5, <3>1, <3>2 DEF Joining
    <3> QED BY <1>2, <2>1, <2>3, <2>5, <2>7, <3>3 DEF ClientInv, Fresh, NoImage
  <2>8. CASE Busy(c) /\ Behind(c)
    <3>1. /\ sender = "busy" /\ writable = "UNWRITEABLE" /\ c \notin wanted
          /\ firstImage = image - 1 /\ image >= 1
      BY <1>2, <2>3, <2>8 DEF Busy, Idle, SenderInv
    <3>2. ~(written > 0)
      <4>1. SUFFICES ASSUME written > 0 PROVE FALSE OBVIOUS
      <4>2. view[c].open = image BY <2>8, <3>1, <4>1 DEF Busy, Page
      <4> QED BY <2>2, <3>1, <4>2 DEF NoImage
    <3>3. Behind(c)' /\ view'[c].last >= view[c].last
      BY <1>1, <1>2, <2>5, <2>8, <3>1 DEF Behind, View
    <3>4. Busy(c)' BY <1>2, <1>4, <2>5, <3>1, <3>2, <3>3 DEF Busy, Page
    <3> QED BY <1>2, <2>1, <2>5, <3>3, <3>4 DEF ClientInv
  <2> QED BY <2>6, <2>7, <2>8
<1> QED BY <1>3, <1>4

\* WriteChunk: what was written is what the page has, and n bytes follow.
LEMMA ChunkKeeps ==
  ASSUME ChannelInv, NEW n \in 1..Chunk, WriteChunk(n), NEW c \in Served, ClientInv(c),
         c \notin torn'
  PROVE  ClientInv(c)'
<1> USE DEF ChannelInv, ChannelTypeOK, channel, backup
<1>1. c \in Clients BY DEF Served
<1>2. /\ UNCHANGED <<webSocket, writable, wanted, conn, firstImage, firstSize>>
      /\ UNCHANGED <<service, image>> /\ sender = "chunk"
  BY DEF WriteChunk
<1>3. CASE conn[c] # "open"
  BY <1>1, <1>2, <1>3 DEF WriteChunk, ClientInv, Fresh, Open
<1>4. CASE conn[c] = "open"
  <2>1. webSocket = c /\ Open = {c} /\ Open' = {c} /\ Joined(c)
    BY <1>2, <1>4 DEF ClientInv, Joining, Busy, Open
  <2>2. n = ToWrite
    <3>1. ToWrite \in Nat BY ChannelAssumption, TotalPositive DEF ToWrite, ChannelAssumption,
            SenderInv
    <3>2. ~(n < ToWrite) BY <2>1 DEF WriteChunk
    <3>3. n = ToWrite \/ n \in 1..ToWrite BY DEF WriteChunk
    <3> QED BY <3>1, <3>2, <3>3
  <2>3. /\ written + n <= Total /\ n \in Nat \ {0} /\ n \in Nat /\ written \in Nat /\ image \in Nat
        /\ written + ToWrite >= Total <=> written + n = Total
    BY <2>2, TotalPositive, ChannelAssumption DEF ToWrite, SenderInv, ChannelAssumption
  <2>4. /\ view[c] \in View /\ ~view[c].bad
        /\ written # 0 => view[c].open = image /\ view[c].got = written
        /\ written = 0 => view[c].open = NoImage
    BY <1>1, <1>2, <2>1, <2>3 DEF ClientInv, Joined, Page
  <2> DEFINE fin == written + ToWrite >= Total
             page == [open |-> IF fin THEN NoImage ELSE image,
                      got |-> IF fin THEN 0 ELSE written + n,
                      last |-> IF fin THEN image ELSE view[c].last, bad |-> FALSE]
  <2>5. Receive(view[c], written = 0, fin, image, n) = page
    <3> DEFINE fits == IF written = 0 THEN view[c].open = NoImage ELSE view[c].open = image
               got == (IF written = 0 THEN 0 ELSE view[c].got) + n
    <3>1. fits BY <2>4
    <3>2. got = written + n BY <2>3, <2>4 DEF View
    <3>3. fin <=> written + n = Total BY <2>3
    <3>4. Receive(view[c], written = 0, fin, image, n) =
            [open |-> IF fin THEN NoImage ELSE image, got |-> IF fin THEN 0 ELSE got,
             last |-> IF fin /\ fits /\ got = Total THEN image ELSE view[c].last,
             bad |-> view[c].bad \/ ~fits \/ (fin /\ got # Total)]
      BY Zenon DEF Receive
    <3> HIDE DEF fits, got, fin
    <3>5. (view[c].bad \/ ~fits \/ (fin /\ got # Total)) = FALSE BY <2>4, <3>1, <3>2, <3>3
    <3>6. (fin /\ fits /\ got = Total) <=> fin BY <3>1, <3>2, <3>3
    <3> QED BY <3>2, <3>4, <3>5, <3>6, Zenon
  <2>6. view'[c] = page
    BY <1>1, <2>1, <2>5 DEF WriteChunk
  <2>7. CASE written + n < Total
    <3>1. ~fin /\ written' = written + n /\ sender' = "chunk"
      BY <1>2, <2>3, <2>7 DEF WriteChunk
    <3> QED BY <1>2, <1>4, <2>1, <2>3, <2>6, <3>1 DEF ClientInv, Joined, Page, Behind
  <2>8. CASE written + n = Total
    <3>1. fin /\ written' = 0 /\ sender' = "backup"
      BY <2>3, <2>8, TotalPositive DEF WriteChunk
    <3> QED BY <1>2, <1>4, <2>1, <2>3, <2>6, <3>1 DEF ClientInv, Joined, Page, Behind
  <2> QED BY <2>3, <2>7, <2>8, TotalPositive
<1> QED BY <1>3, <1>4

\* Each step keeps a served client in order.
LEMMA ClientKeeps ==
  ASSUME ChannelInv, [Next]_vars, NEW c \in Served'
  PROVE  ClientInv(c)'
<1>0. /\ c \in Served /\ c \in Clients /\ ClientInv(c)
      /\ c \notin crowded' /\ c \notin torn' /\ c \notin split'
  BY ServedShrinks DEF Served, ChannelInv
<1> USE <1>0, ChannelAssumption
    DEF ChannelAssumption, ChannelInv, ChannelTypeOK, ServiceInv, SenderInv, ClientInv, Joining,
        Joined, Busy, Page, Behind, Senders, Open, Idle, Fresh, NoImage, history, channel, backup
<1>1. CASE \E d \in Clients : Refused(d) BY <1>1 DEF Refused
<1>2. CASE \E d \in Clients : Established(d) BY <1>2, EstablishedKeeps, Zenon
<1>3. CASE \E d \in Clients : Writeable(d) BY <1>3 DEF Writeable
<1>4. CASE \E d \in Clients : Closed(d) BY <1>4 DEF Closed
<1>5. CASE Resend BY <1>5, ResendKeeps, Zenon
<1>6. CASE MarkWriteable BY <1>6 DEF MarkWriteable
<1>7. CASE SendPixmap BY <1>7 DEF SendPixmap
<1>8. CASE AwaitWriteable BY <1>8 DEF AwaitWriteable
<1>9. CASE CheckWriteable BY <1>9 DEF CheckWriteable
<1>10. CASE \E n \in 1..Chunk : WriteChunk(n) BY <1>10, ChunkKeeps, Zenon
<1>11. CASE WriteFatal
  <2>1. webSocket # c BY <1>11, Zenon DEF WriteFatal
  <2> QED BY <1>11, <2>1 DEF WriteFatal
<1>12. CASE WriteBusy BY <1>12 DEF WriteBusy
<1>13. CASE Retry BY <1>13 DEF Retry
<1>14. CASE BackupAndDeleteBuffer BY <1>14 DEF BackupAndDeleteBuffer
<1>15. CASE UNCHANGED vars BY <1>15 DEF vars
<1> QED
  BY <1>1, <1>2, <1>3, <1>4, <1>5, <1>6, <1>7, <1>8,
     <1>9, <1>10, <1>11, <1>12, <1>13, <1>14, <1>15
  DEF Next, Service, Write

\* Initially nobody is connected.
LEMMA InitChannelInv == Init => ChannelInv
<1> SUFFICES ASSUME Init PROVE ChannelInv OBVIOUS
<1>1. ChannelTypeOK
  BY DEF Init, ChannelTypeOK, Senders, View, Idle, Fresh, NoImage
<1>2. ServiceInv BY DEF Init, ServiceInv, Open, Idle
<1>3. SenderInv BY TotalPositive DEF Init, SenderInv, Idle, NoImage
<1>4. ASSUME NEW c \in Served PROVE ClientInv(c)
  BY DEF Init, ClientInv, Served, Fresh
<1> QED BY <1>1, <1>2, <1>3, <1>4 DEF ChannelInv

\* The invariant is inductive: one lemma per part.
LEMMA StepChannelInv ==
  ASSUME ~ComponentMode
  PROVE  ChannelInv /\ [Next]_vars => ChannelInv'
BY TypeKeeps, ServiceKeeps, SenderKeeps, ClientKeeps DEF ChannelInv

(* A client that is alone, joined outside WriteData, had no short or failed*)
(* write and was not resent the copy between two fragments can assemble    *)
(* everything it gets, the copy resent to it included, however often its   *)
(* socket is busy and WriteData retries.                                   *)
THEOREM ImagesStayWhole ==
  ASSUME ~ComponentMode
  PROVE  Spec => []WholeImages
<1>1. ChannelInv => WholeImages BY DEF ChannelInv, ClientInv, WholeImages
<1>2. ChannelInv /\ [Next]_vars => ChannelInv' BY StepChannelInv
<1>3. QED BY InitChannelInv, <1>2, <1>1, PTL DEF Spec

(* And its page never goes back to an older image: the resent copy is the  *)
(* first it gets, or, when its socket was busy, the image before the one   *)
(* WriteData is about to write.                                            *)
THEOREM ImagesStayInOrder ==
  ASSUME ~ComponentMode
  PROVE  Spec => ImagesInOrder
<1>1. ASSUME ChannelInv, [Next]_vars, NEW c \in Served'
      PROVE  view'[c].last >= view[c].last
  <2>1. /\ c \in Served /\ c \in Clients /\ ClientInv(c) /\ ClientInv(c)'
        /\ view[c] \in View /\ image \in Nat /\ service \in [at : {"idle", "resend", "mark"}, wsi : Clients \cup {NoClient}]
    BY <1>1, ServedShrinks, ClientKeeps DEF ChannelInv, ChannelTypeOK, Served
  <2>2. CASE view'[c] = view[c] BY <2>1, <2>2 DEF View
  <2>3. CASE Resend
    BY <1>1, <2>1, <2>3, ResendKeeps DEF Served
  <2>4. CASE \E n \in 1..Chunk : WriteChunk(n)
    <3>1. PICK n \in 1..Chunk : WriteChunk(n) BY <2>4
    <3>2. view'[c] = view[c] \/ /\ webSocket = c /\ c \in Open
      BY <1>1, <2>1, <3>1 DEF WriteChunk, ChannelInv, ChannelTypeOK
    <3>3. CASE webSocket = c /\ c \in Open
      <4>1. view'[c].last \in {image, view[c].last}
        BY <1>1, <2>1, <3>1, <3>3 DEF WriteChunk, Receive, ChannelInv, ChannelTypeOK
      <4>2. view[c].last <= image
        BY <2>1, <3>1, <3>3 DEF ClientInv, Joining, Joined, Busy, Page, Open, WriteChunk, Behind
      <4> QED BY <2>1, <4>1, <4>2 DEF View
    <3> QED BY <2>2, <3>2, <3>3
  <2>5. UNCHANGED view \/ Resend \/ \E n \in 1..Chunk : WriteChunk(n)
    BY <1>1 DEF Next, Service, Refused, Established, Writeable, Closed, MarkWriteable,
                SendPixmap, AwaitWriteable, CheckWriteable, Write, WriteFatal, WriteBusy,
                Retry, BackupAndDeleteBuffer, vars
  <2> QED BY <2>2, <2>3, <2>4, <2>5
<1>2. ChannelInv /\ [Next]_vars => [\A c \in Served' : view'[c].last >= view[c].last]_vars
  BY <1>1
<1>3. ChannelInv /\ [Next]_vars => ChannelInv' BY StepChannelInv
<1>4. QED BY InitChannelInv, <1>2, <1>3, PTL DEF Spec, ImagesInOrder

(* And when both threads are at rest and its first writable event has been *)
(* handled, its page shows the last image or the one before.               *)
THEOREM PageIsAtMostOneBehind ==
  ASSUME ~ComponentMode
  PROVE  Spec => []AtMostOneBehind
<1>1. ASSUME ChannelInv, NEW c \in Served, service = Idle, sender = "idle",
             conn[c] = "open", c \notin wanted
      PROVE  view[c].last \in {image - 1, image}
  BY <1>1 DEF ChannelInv, ClientInv, Joining, Joined, Busy, Page, Behind, Idle
<1>2. ChannelInv => AtMostOneBehind BY <1>1 DEF AtMostOneBehind
<1>3. ChannelInv /\ [Next]_vars => ChannelInv' BY StepChannelInv
<1>4. QED BY InitChannelInv, <1>2, <1>3, PTL DEF Spec

(* And outside component mode the copy that is resent is the whole message,*)
(* as its log line says.                                                   *)
THEOREM CopyIsWhole ==
  ASSUME ~ComponentMode
  PROVE  Spec => []ResendIsWhole
<1>1. ChannelInv => ResendIsWhole BY DEF ChannelInv, SenderInv, ResendIsWhole
<1>2. ChannelInv /\ [Next]_vars => ChannelInv' BY StepChannelInv
<1>3. QED BY InitChannelInv, <1>1, <1>2, PTL DEF Spec

---------------------------------------------------------------------------
(***************************************************************************)
(* For any sizes, commands and delays: the window of the rich previewer    *)
(* settles on the size that the application has.                           *)
(***************************************************************************)

AnySize == [w : Int, h : Int]

MainAt == {"resolution", "init", "screen", "info", "args", "glfw", "create", "ability", "run",
           "crashed"}
CommandAt == {"idle", "fold", "width", "height", "set", "fit", "test", "post", "surface",
              "crashed"}
ScreenOf(s) ==
  /\ s = [original |-> s.original, compressed |-> s.compressed, current |-> s.current,
          foldStatus |-> s.foldStatus]
  /\ s.original \in AnySize /\ s.compressed \in AnySize

\* Every size is one; what the proof does not look at may be anything.
DisplayTypeOK ==
  /\ ScreenOf(screen) /\ ScreenOf(info)
  /\ app = [size |-> app.size, orientation |-> app.orientation] /\ app.size \in AnySize
  /\ args = [size |-> args.size, orientation |-> args.orientation, density |-> args.density]
  /\ args.size \in AnySize
  /\ tasks \in Seq({"args", "app"})
  /\ ability \in BOOLEAN /\ known \in BOOLEAN
  /\ main \in MainAt /\ at \in CommandAt
  /\ at # "idle" => command \in Command
  /\ at = "fold" => command.op = "fold"
  /\ at = "fit" => command.op # "orientation"

\* The ability is created last; without it a document ends the program.
AbilityInv ==
  /\ ability <=> main = "run"
  /\ known => ability

\* The arguments, while a command changes them.
ArgumentsInv ==
  known =>
    /\ at = "height" => args.size.w = Wanted.w
    /\ at = "set" => args.size = Wanted
    /\ at \in {"fit", "test", "post"} /\ command.op # "orientation" => args.size = app.size

\* No command that changes the size is between its begin and its task.
Steady == at \in {"idle", "surface"} \/ (at = "fold" /\ command.status = "unknown")

\* The last task in the queue sets what the application has.
WindowInv ==
  known /\ Steady =>
    /\ tasks = <<>> => window = app.size
    /\ tasks # <<>> /\ tasks[Len(tasks)] = "args" => args.size = app.size

DisplayInv == DisplayTypeOK /\ AbilityInv /\ ArgumentsInv /\ WindowInv

\* What a command carries.
LEMMA CommandType ==
  ASSUME NEW c \in Command
  PROVE  /\ c.op \in {"resolution", "orientation", "fold", "document"}
         /\ c.op \in {"resolution", "fold", "document"} => c.size \in AnySize
<1> DEFINE resolutions == [op : Operations \cap {"resolution"}, size : Asked,
                           original : {StartOriginal, Swap(StartOriginal)}]
           orientations == [op : Operations \cap {"orientation"}, orientation : Orientation]
           folds == [op : Operations \cap {"fold"}, status : FoldStatus,
                     size : {FoldedSize, StartOriginal}]
           documents == [op : Operations \cap {"document"}, orientation : Orientation,
             size : Asked]
<1>0. Asked \subseteq AnySize /\ FoldedSize \in AnySize /\ StartOriginal \in AnySize
  BY DisplayAssumption DEF DisplayAssumption, AnySize, Size
<1>1. CASE c \in resolutions BY <1>0, <1>1
<1>2. CASE c \in orientations BY <1>2
<1>3. CASE c \in folds BY <1>0, <1>3
<1>4. CASE c \in documents BY <1>0, <1>4
<1> QED BY <1>1, <1>2, <1>3, <1>4 DEF Command

\* Sizes of the start.
LEMMA StartSizes ==
  StartOriginal \in AnySize /\ StartCompressed \in AnySize /\ FoldedSize \in AnySize
BY DisplayAssumption DEF DisplayAssumption, AnySize, Size

\* Where the command thread is, and what for.
LEMMA DisplayTypeKeeps ==
  ASSUME DisplayTypeOK, AbilityInv, [DisplayNext]_display_vars
  PROVE  DisplayTypeOK'
<1> USE CommandType, StartSizes
    DEF DisplayTypeOK, ScreenOf, MainAt, CommandAt, Finish, app_vars, engine
<1>1. CASE InitResolution BY <1>1 DEF InitResolution
<1>2. CASE InitJsApp BY <1>2 DEF InitJsApp
<1>3. CASE InitVirtualScreen BY <1>3 DEF InitVirtualScreen
<1>4. CASE InitScreenInfo BY <1>4 DEF InitScreenInfo
<1>5. CASE SetJsAppArgs BY <1>5 DEF SetJsAppArgs
<1>6. CASE CreateGlfwWindow BY <1>6 DEF CreateGlfwWindow
<1>7. CASE CreateInstance BY <1>7 DEF CreateInstance
<1>8. CASE SetAbility BY <1>8 DEF SetAbility
<1>9. CASE SetWindowSize BY <1>9 DEF SetWindowSize
<1>10. CASE Answer BY <1>10 DEF Answer
<1>11. CASE \E c \in Command : Begin(c) BY <1>11 DEF Begin
<1>12. CASE FoldStatusChanged BY <1>12 DEF FoldStatusChanged
<1>13. CASE SetDeviceWidth
  <2>1. Wanted \in AnySize BY <1>13 DEF Wanted, Swap, AnySize, SetDeviceWidth
  <2> QED BY <1>13, <2>1 DEF SetDeviceWidth, AnySize
<1>14. CASE SetDeviceHeight
  <2>1. Wanted \in AnySize BY <1>14 DEF Wanted, Swap, AnySize, SetDeviceHeight
  <2> QED BY <1>14, <2>1 DEF SetDeviceHeight, AnySize
<1>15. CASE SetResolutionParams
  <2>1. command.size \in AnySize BY <1>15 DEF SetResolutionParams
  <2> QED BY <1>15, <2>1 DEF SetResolutionParams
<1>16. CASE OrientationChanged
  <2>1. \A size \in AnySize : Swap(size) \in AnySize BY DEF AnySize, Swap
  <2> QED BY <1>16, <2>1 DEF OrientationChanged
<1>17. CASE ParseSystemParams BY <1>17 DEF ParseSystemParams
<1>18. CASE TestAbility BY <1>18 DEF TestAbility
<1>19. CASE PostTask BY <1>19 DEF PostTask
<1>20. CASE SurfaceChanged BY <1>20 DEF SurfaceChanged
<1>21. CASE LoadDocumentCrashes BY <1>21 DEF LoadDocumentCrashes
<1>22. CASE UNCHANGED display_vars BY <1>22 DEF display_vars
<1>23. CASE SetDeviceOrientation BY <1>23 DEF SetDeviceOrientation
<1> QED
  BY <1>1, <1>2, <1>3, <1>4, <1>5, <1>6, <1>7, <1>8, <1>9, <1>10, <1>11,
     <1>12, <1>13, <1>14, <1>15, <1>16, <1>17, <1>18, <1>19, <1>20, <1>21, <1>22,
     <1>23
  DEF DisplayNext, Main, Run

\* The ability stays once it is there, and so does the main loop.
LEMMA AbilityKeeps ==
  ASSUME DisplayInv, [DisplayNext]_display_vars
  PROVE  AbilityInv'
<1> USE DEF DisplayInv, DisplayTypeOK, AbilityInv, MainAt, Finish, app_vars, engine
<1>1. CASE InitResolution BY <1>1 DEF InitResolution
<1>2. CASE InitJsApp BY <1>2 DEF InitJsApp
<1>3. CASE InitVirtualScreen BY <1>3 DEF InitVirtualScreen
<1>4. CASE InitScreenInfo BY <1>4 DEF InitScreenInfo
<1>5. CASE SetJsAppArgs BY <1>5 DEF SetJsAppArgs
<1>6. CASE CreateGlfwWindow BY <1>6 DEF CreateGlfwWindow
<1>7. CASE CreateInstance BY <1>7 DEF CreateInstance
<1>8. CASE SetAbility BY <1>8 DEF SetAbility
<1>9. CASE SetWindowSize BY <1>9 DEF SetWindowSize
<1>10. CASE Answer BY <1>10 DEF Answer
<1>11. CASE \E c \in Command : Begin(c) BY <1>11 DEF Begin
<1>12. CASE FoldStatusChanged BY <1>12 DEF FoldStatusChanged
<1>13. CASE SetDeviceWidth BY <1>13 DEF SetDeviceWidth
<1>14. CASE SetDeviceHeight BY <1>14 DEF SetDeviceHeight
<1>15. CASE SetResolutionParams BY <1>15 DEF SetResolutionParams
<1>16. CASE OrientationChanged BY <1>16 DEF OrientationChanged
<1>17. CASE ParseSystemParams BY <1>17 DEF ParseSystemParams
<1>18. CASE TestAbility BY <1>18 DEF TestAbility
<1>19. CASE PostTask BY <1>19 DEF PostTask
<1>20. CASE SurfaceChanged BY <1>20 DEF SurfaceChanged
<1>21. CASE LoadDocumentCrashes BY <1>21 DEF LoadDocumentCrashes
<1>22. CASE UNCHANGED display_vars BY <1>22 DEF display_vars
<1>23. CASE SetDeviceOrientation BY <1>23 DEF SetDeviceOrientation
<1> QED
  BY <1>1, <1>2, <1>3, <1>4, <1>5, <1>6, <1>7, <1>8, <1>9, <1>10, <1>11,
     <1>12, <1>13, <1>14, <1>15, <1>16, <1>17, <1>18, <1>19, <1>20, <1>21, <1>22,
     <1>23
  DEF DisplayNext, Main, Run

\* With the ability only commands change the arguments, one at a time.
LEMMA ArgumentsKeep ==
  ASSUME DisplayInv, [DisplayNext]_display_vars
  PROVE  ArgumentsInv'
<1> USE CommandType
    DEF DisplayInv, DisplayTypeOK, ScreenOf, AbilityInv, ArgumentsInv, Wanted, Swap, AnySize,
        MainAt,
        CommandAt, Finish, app_vars, engine
<1>1. CASE InitResolution BY <1>1 DEF InitResolution
<1>2. CASE InitJsApp BY <1>2 DEF InitJsApp
<1>3. CASE InitVirtualScreen BY <1>3 DEF InitVirtualScreen
<1>4. CASE InitScreenInfo BY <1>4 DEF InitScreenInfo
<1>5. CASE SetJsAppArgs BY <1>5 DEF SetJsAppArgs
<1>6. CASE CreateGlfwWindow BY <1>6 DEF CreateGlfwWindow
<1>7. CASE CreateInstance BY <1>7 DEF CreateInstance
<1>8. CASE SetAbility BY <1>8 DEF SetAbility
<1>9. CASE SetWindowSize BY <1>9 DEF SetWindowSize
<1>10. CASE Answer BY <1>10 DEF Answer
<1>11. CASE \E c \in Command : Begin(c) BY <1>11 DEF Begin
<1>12. CASE FoldStatusChanged BY <1>12 DEF FoldStatusChanged
<1>13. CASE SetDeviceWidth BY <1>13 DEF SetDeviceWidth
<1>14. CASE SetDeviceHeight BY <1>14 DEF SetDeviceHeight
<1>15. CASE SetResolutionParams BY <1>15 DEF SetResolutionParams
<1>16. CASE OrientationChanged BY <1>16 DEF OrientationChanged
<1>17. CASE ParseSystemParams BY <1>17 DEF ParseSystemParams
<1>18. CASE TestAbility BY <1>18 DEF TestAbility
<1>19. CASE PostTask BY <1>19 DEF PostTask
<1>20. CASE SurfaceChanged BY <1>20 DEF SurfaceChanged
<1>21. CASE LoadDocumentCrashes BY <1>21 DEF LoadDocumentCrashes
<1>22. CASE UNCHANGED display_vars BY <1>22 DEF display_vars
<1>23. CASE SetDeviceOrientation BY <1>23 DEF SetDeviceOrientation
<1> QED
  BY <1>1, <1>2, <1>3, <1>4, <1>5, <1>6, <1>7, <1>8, <1>9, <1>10, <1>11,
     <1>12, <1>13, <1>14, <1>15, <1>16, <1>17, <1>18, <1>19, <1>20, <1>21, <1>22,
     <1>23
  DEF DisplayNext, Main, Run

\* What is left of a queue when its head is taken.
LEMMA LastOfTail ==
  ASSUME NEW T, NEW s \in Seq(T), s # <<>>
  PROVE  /\ Len(s) = 1 => Head(s) = s[Len(s)] /\ Tail(s) = <<>>
         /\ Len(s) # 1 => Tail(s) # <<>> /\ Tail(s)[Len(Tail(s))] = s[Len(s)]
<1>1. /\ Tail(s) \in Seq(T) /\ Len(Tail(s)) = Len(s) - 1 /\ Len(s) \in Nat \ {0}
      /\ \A i \in 1 .. Len(Tail(s)) : Tail(s)[i] = s[i + 1]
  BY HeadTailProperties, EmptySeq
<1>e. Len(<<>>) = 0 /\ \A q \in Seq(T) : q # <<>> => Len(q) \in Nat \ {0}
  BY EmptySeq, Zenon
<1>2. ASSUME Len(s) = 1 PROVE Tail(s) = <<>>
  <2>1. Len(Tail(s)) = 0 BY <1>1, <1>2
  <2> QED BY <1>1, <1>e, <2>1
<1>3. CASE Len(s) # 1
  <2>1. Len(Tail(s)) \in 1 .. Len(Tail(s)) /\ Len(Tail(s)) + 1 = Len(s) BY <1>1, <1>3
  <2>2. Len(Tail(s)) # 0 BY <1>1, <1>3
  <2>3. Tail(s) # <<>> BY <1>e, <2>2
  <2> QED BY <1>1, <1>3, <2>1, <2>3
<1> QED BY <1>2, <1>3

\* A command leaves a task behind its changes; the queue is first in, first out.
LEMMA WindowKeeps ==
  ASSUME DisplayInv, [DisplayNext]_display_vars
  PROVE  WindowInv'
<1> USE CommandType
    DEF DisplayInv, DisplayTypeOK, ScreenOf, AbilityInv, ArgumentsInv, WindowInv, Steady,
        MainAt, CommandAt,
        Finish, app_vars, engine
<1>1. CASE InitResolution BY <1>1 DEF InitResolution
<1>2. CASE InitJsApp BY <1>2 DEF InitJsApp
<1>3. CASE InitVirtualScreen BY <1>3 DEF InitVirtualScreen
<1>4. CASE InitScreenInfo BY <1>4 DEF InitScreenInfo
<1>5. CASE SetJsAppArgs BY <1>5 DEF SetJsAppArgs
<1>6. CASE CreateGlfwWindow BY <1>6 DEF CreateGlfwWindow
<1>7. CASE CreateInstance BY <1>7 DEF CreateInstance
<1>8. CASE SetAbility BY <1>8 DEF SetAbility
<1>9. CASE SetWindowSize
  <2> SUFFICES ASSUME known, Steady PROVE WindowInv' BY <1>9 DEF SetWindowSize
  <2>1. /\ tasks' = Tail(tasks) /\ tasks # <<>> /\ UNCHANGED <<app, args, at, command>>
        /\ tasks \in Seq({"args", "app"}) /\ app.size \in AnySize
        /\ tasks[Len(tasks)] = "args" => args.size = app.size
    BY <1>9 DEF SetWindowSize
  <2>2. window' = IF Head(tasks) = "args" THEN args.size ELSE app.size BY <1>9 DEF SetWindowSize
  <2> HIDE DEF DisplayInv, DisplayTypeOK, AbilityInv
  <2>3. CASE Len(tasks) = 1 BY <2>1, <2>2, <2>3, LastOfTail
  <2>4. CASE Len(tasks) # 1 BY <2>1, <2>4, LastOfTail
  <2> QED BY <2>3, <2>4
<1>10. CASE Answer BY <1>10 DEF Answer
<1>11. CASE \E c \in Command : Begin(c) BY <1>11 DEF Begin
<1>12. CASE FoldStatusChanged BY <1>12 DEF FoldStatusChanged
<1>13. CASE SetDeviceWidth BY <1>13 DEF SetDeviceWidth
<1>14. CASE SetDeviceHeight BY <1>14 DEF SetDeviceHeight
<1>15. CASE SetResolutionParams BY <1>15 DEF SetResolutionParams
<1>16. CASE OrientationChanged BY <1>16 DEF OrientationChanged
<1>17. CASE ParseSystemParams BY <1>17 DEF ParseSystemParams
<1>18. CASE TestAbility BY <1>18 DEF TestAbility
<1>19. CASE PostTask BY <1>19 DEF PostTask
<1>20. CASE SurfaceChanged BY <1>20 DEF SurfaceChanged
<1>21. CASE LoadDocumentCrashes BY <1>21 DEF LoadDocumentCrashes
<1>22. CASE UNCHANGED display_vars BY <1>22 DEF display_vars
<1>23. CASE SetDeviceOrientation BY <1>23 DEF SetDeviceOrientation
<1> QED
  BY <1>1, <1>2, <1>3, <1>4, <1>5, <1>6, <1>7, <1>8, <1>9, <1>10, <1>11,
     <1>12, <1>13, <1>14, <1>15, <1>16, <1>17, <1>18, <1>19, <1>20, <1>21, <1>22,
     <1>23
  DEF DisplayNext, Main, Run

\* Initially there is no size and no ability.
LEMMA InitDisplayInv == DisplayInit => DisplayInv
<1> SUFFICES ASSUME DisplayInit PROVE DisplayInv OBVIOUS
<1>1. DisplayTypeOK
  <2>1. NoSize \in AnySize BY DEF NoSize, AnySize
  <2>2. ScreenOf(screen) /\ ScreenOf(info) BY <2>1 DEF DisplayInit, ScreenOf
  <2>3. /\ app = [size |-> app.size, orientation |-> app.orientation] /\ app.size \in AnySize
        /\ args = [size |-> args.size, orientation |-> args.orientation, density |-> args.density]
        /\ args.size \in AnySize
    BY <2>1 DEF DisplayInit, NoArgs
  <2>4. tasks \in Seq({"args", "app"}) /\ ability \in BOOLEAN /\ known \in BOOLEAN
    BY EmptySeq DEF DisplayInit
  <2>5. main \in MainAt BY DEF DisplayInit, MainAt
  <2>6. at = "idle" /\ at \in CommandAt BY DEF DisplayInit, CommandAt
  <2> QED BY <2>2, <2>3, <2>4, <2>5, <2>6 DEF DisplayTypeOK
<1>2. AbilityInv /\ ArgumentsInv /\ WindowInv
  BY DEF DisplayInit, AbilityInv, ArgumentsInv, WindowInv
<1> QED BY <1>1, <1>2 DEF DisplayInv

\* The invariant is inductive: one lemma per part.
LEMMA StepDisplayInv == DisplayInv /\ [DisplayNext]_display_vars => DisplayInv'
BY DisplayTypeKeeps, AbilityKeeps, ArgumentsKeep, WindowKeeps DEF DisplayInv

(* Whatever commands follow each other while tasks of earlier ones wait:   *)
(* when the last one found the ability and the queue is empty, the window  *)
(* has the width and height of the application.                            *)
THEOREM WindowSettlesOnTheApplication == DisplaySpec => []WindowSettles
<1>1. DisplayInv => WindowSettles
  BY DEF DisplayInv, WindowInv, Steady, WindowSettles, Settled
<1>2. QED BY InitDisplayInv, StepDisplayInv, <1>1, PTL DEF DisplaySpec

===========================================================================
