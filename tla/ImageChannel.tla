---------------------------- MODULE ImageChannel ----------------------------
(***************************************************************************)
(* How a rendered image reaches the IDE's page in the rich previewer.  The *)
(* render thread runs VirtualScreenImpl::SendPixmap, which calls           *)
(* WebSocketServer::WriteData and then keeps a copy of the message         *)
(* (BackupAndDeleteBuffer).  The libwebsockets service thread runs         *)
(* ProtocolCallback; on the first writable event of a new connection it    *)
(* resends the copy.  The two threads share webSocket, webSocketWritable   *)
(* and the copy; only the copy is guarded by a mutex.                      *)
(*                                                                         *)
(* A message is its header plus its payload, in units; a write that is     *)
(* larger than Chunk is fragmented.                                        *)
(***************************************************************************)
EXTENDS Naturals

CONSTANTS
  Clients,        \* connections, each opened at most once
  NoClient,       \* webSocket == nullptr
  MaxImages,      \* bound: how many images are rendered
  HeadSize,       \* headSize
  Payload,        \* size of the encoded image
  Chunk,          \* MAX_PAYLOAD_SIZE
  ComponentMode,  \* CommandParser::IsComponentMode: raw RGBA, no JPEG
  WriteFails      \* lws_write may fail, be busy, or take a part only

ASSUME ChannelAssumption ==
  /\ NoClient \notin Clients
  /\ {MaxImages, HeadSize, Payload, Chunk} \subseteq Nat \ {0}
  /\ {ComponentMode, WriteFails} \subseteq BOOLEAN

NoImage == 0
Total == HeadSize + Payload

VARIABLES
  webSocket,    \* the last established connection; never reset
  writable,     \* webSocketWritable
  firstImage,   \* the image in firstImageBuffer, NoImage for nullptr
  firstSize,    \* firstImagebufferSize
  conn,         \* per connection: "new", "open", "closed" or "refused"
  wanted,       \* connections with a pending writable request
  service,      \* what the service thread is doing, and for whom
  sender,       \* where the render thread is
  image,        \* the image it is sending or has sent last
  written,      \* WriteData's progress in it
  view,         \* what each client has assembled from the frames it got
  crowded,      \* history: connections open at the same time as another
  torn,         \* history: connections with a short or failed write, or
                \* opened while WriteData was past its wait
  split         \* history: connections that were resent the copy between two
                \* fragments of a message

history == <<crowded, torn, split>>
channel == <<webSocket, writable, wanted, conn>>
backup == <<firstImage, firstSize>>
vars == <<channel, backup, service, sender, image, written, view, history>>

Idle == [at |-> "idle", wsi |-> NoClient]
Fresh == [open |-> NoImage, got |-> 0, last |-> NoImage, bad |-> FALSE]

Open == {c \in Clients : conn[c] = "open"}

Init ==
  /\ webSocket = NoClient
  /\ writable = "INIT"
  /\ firstImage = NoImage
  /\ firstSize = 0
  /\ conn = [c \in Clients |-> "new"]
  /\ wanted = {}
  /\ service = Idle
  /\ sender = "idle"
  /\ image = NoImage
  /\ written = 0
  /\ view = [c \in Clients |-> Fresh]
  /\ crowded = {}
  /\ torn = {}
  /\ split = {}

(***************************************************************************)
(* A client assembles a message from a BINARY frame and CONTINUATION       *)
(* frames up to the one with FIN; it shows the image if all of it came.    *)
(***************************************************************************)
Receive(v, first, fin, img, n) ==
  LET fits == IF first THEN v.open = NoImage ELSE v.open = img
      got == (IF first THEN 0 ELSE v.got) + n
  IN [open |-> IF fin THEN NoImage ELSE img,
      got  |-> IF fin THEN 0 ELSE got,
      last |-> IF fin /\ fits /\ got = Total THEN img ELSE v.last,
      bad  |-> v.bad \/ ~fits \/ (fin /\ got # Total)]

(***************************************************************************)
(* The service thread: ProtocolCallback, one callback at a time.           *)
(***************************************************************************)
Refused(c) ==    \* FILTER_PROTOCOL_CONNECTION, CheckSid fails
  /\ service = Idle
  /\ conn[c] = "new"
  /\ conn' = [conn EXCEPT ![c] = "refused"]
  /\ UNCHANGED <<webSocket, writable, wanted, backup, service, sender, image,
                 written, view, history>>

\* Mutant of Established: the channel is marked writable on connection.
EstablishedWriteable(c) ==
  /\ service = Idle
  /\ conn[c] = "new"
  /\ conn' = [conn EXCEPT ![c] = "open"]
  /\ webSocket' = c
  /\ wanted' = wanted \cup {c}
  /\ writable' = "WRITEABLE"
  /\ crowded' = IF Open = {} THEN crowded ELSE crowded \cup Open \cup {c}
  /\ torn' = IF sender \in {"check", "chunk", "busy"} THEN torn \cup {c} ELSE torn
  /\ UNCHANGED <<backup, service, sender, image, written, view, split>>

Established(c) ==
  /\ service = Idle
  /\ conn[c] = "new"
  /\ conn' = [conn EXCEPT ![c] = "open"]
  /\ webSocket' = c
  /\ wanted' = wanted \cup {c}
  /\ crowded' = IF Open = {} THEN crowded ELSE crowded \cup Open \cup {c}
  /\ torn' = IF sender \in {"check", "chunk", "busy"} THEN torn \cup {c} ELSE torn
  /\ UNCHANGED <<writable, backup, service, sender, image, written, view, split>>

\* Mutant of Writeable: the channel is marked writable before the resend.
WriteableMarkedFirst(c) ==
  /\ service = Idle
  /\ c \in wanted
  /\ wanted' = wanted \ {c}
  /\ service' = IF firstSize > 0 /\ writable = "UNWRITEABLE" /\ firstImage # NoImage
                THEN [at |-> "resend", wsi |-> c]
                ELSE [at |-> "mark", wsi |-> c]
  /\ writable' = "WRITEABLE"
  /\ UNCHANGED <<webSocket, conn, backup, sender, image, written, view, history>>

Writeable(c) ==
  /\ service = Idle
  /\ c \in wanted
  /\ wanted' = wanted \ {c}
  /\ service' = IF firstSize > 0 /\ writable = "UNWRITEABLE" /\ firstImage # NoImage
                THEN [at |-> "resend", wsi |-> c]
                ELSE [at |-> "mark", wsi |-> c]
  /\ UNCHANGED <<webSocket, writable, conn, backup, sender, image, written, view,
                 history>>

\* "Send last image after websocket reconnected", under the mutex: a frame
\* with FIN.  Nobody looks at how many units lws_write took.
Resend ==
  /\ service.at = "resend"
  /\ \E n \in 0..firstSize :
       /\ n = firstSize \/ WriteFails
       /\ view' = IF n = 0 THEN view
                  ELSE [view EXCEPT ![service.wsi] = Receive(@, TRUE, TRUE, firstImage, n)]
       /\ torn' = IF n < firstSize THEN torn \cup {service.wsi} ELSE torn
  /\ split' = IF view[service.wsi].open # NoImage THEN split \cup {service.wsi} ELSE split
  /\ service' = [service EXCEPT !.at = "mark"]
  /\ UNCHANGED <<channel, backup, sender, image, written, crowded>>

MarkWriteable ==
  /\ service.at = "mark"
  /\ writable' = "WRITEABLE"
  /\ service' = Idle
  /\ UNCHANGED <<webSocket, conn, wanted, backup, sender, image, written, view,
                 history>>

Closed(c) ==
  /\ service = Idle
  /\ conn[c] = "open"
  /\ conn' = [conn EXCEPT ![c] = "closed"]
  /\ wanted' = wanted \ {c}
  /\ writable' = "UNWRITEABLE"
  /\ UNCHANGED <<webSocket, backup, service, sender, image, written, view,
                 history>>

(***************************************************************************)
(* The render thread: SendPixmap, WriteData, BackupAndDeleteBuffer.        *)
(***************************************************************************)
SendPixmap ==
  /\ sender = "idle"
  /\ image < MaxImages
  /\ image' = image + 1
  /\ sender' = "await"
  /\ UNCHANGED <<channel, backup, service, written, view, history>>

AwaitWriteable ==
  /\ sender = "await"
  /\ writable = "WRITEABLE"
  /\ sender' = "check"
  /\ UNCHANGED <<channel, backup, service, image, written, view, history>>

CheckWriteable ==
  /\ sender = "check"
  /\ sender' = IF webSocket = NoClient \/ writable # "WRITEABLE"
               THEN "backup" ELSE "chunk"
  /\ UNCHANGED <<channel, backup, service, image, written, view, history>>

ToWrite == IF Total - written < Chunk THEN Total - written ELSE Chunk

\* lws_write took n bytes.  A connection that is closed but still in
\* webSocket swallows them.
WriteChunk(n) ==
  /\ sender = "chunk"
  /\ n = ToWrite \/ (WriteFails /\ n \in 1..ToWrite)
  /\ view' = IF webSocket \in Open
             THEN [view EXCEPT ![webSocket] =
                     Receive(@, written = 0, written + ToWrite >= Total, image, n)]
             ELSE view
  /\ torn' = IF n < ToWrite THEN torn \cup {webSocket} ELSE torn
  /\ IF written + n < Total
     THEN written' = written + n /\ UNCHANGED sender
     ELSE written' = 0 /\ sender' = "backup"
  /\ UNCHANGED <<channel, backup, service, image, crowded, split>>

WriteFatal ==
  /\ WriteFails \/ webSocket \notin Open
  /\ sender = "chunk"
  /\ sender' = "backup"
  /\ written' = 0
  /\ torn' = torn \cup {webSocket}
  /\ UNCHANGED <<channel, backup, service, image, view, crowded, split>>

\* Mutant of WriteBusy: no writable event is asked for.
WriteBusyNotAsked ==
  /\ WriteFails \/ webSocket \notin Open
  /\ sender = "chunk"
  /\ writable' = "UNWRITEABLE"
  /\ sender' = "busy"
  /\ UNCHANGED <<webSocket, conn, wanted, backup, service, image, written, view,
                 history>>

\* Mutant of WriteBusy: the retry begins with the first fragment again.
WriteBusyAgain ==
  /\ WriteFails \/ webSocket \notin Open
  /\ sender = "chunk"
  /\ writable' = "UNWRITEABLE"
  /\ wanted' = wanted \cup ({webSocket} \cap Open)
  /\ sender' = "busy"
  /\ written' = 0
  /\ UNCHANGED <<webSocket, conn, backup, service, image, view, history>>

\* lws_write took nothing: WriteData asks for a writable event, waits for it
\* and retries the fragment (Retry).
WriteBusy ==
  /\ WriteFails \/ webSocket \notin Open
  /\ sender = "chunk"
  /\ writable' = "UNWRITEABLE"
  /\ wanted' = wanted \cup ({webSocket} \cap Open)
  /\ sender' = "busy"
  /\ UNCHANGED <<webSocket, conn, backup, service, image, written, view, history>>

Retry ==
  /\ sender = "busy"
  /\ writable = "WRITEABLE"
  /\ sender' = "chunk"
  /\ UNCHANGED <<channel, backup, service, image, written, view, history>>

\* jpgBufferSize stays 0 when the image is sent as RGBA.
BackupAndDeleteBuffer ==
  /\ sender = "backup"
  /\ firstImage' = image
  /\ firstSize' = HeadSize + (IF ComponentMode THEN 0 ELSE Payload)
  /\ sender' = "idle"
  /\ UNCHANGED <<channel, service, image, written, view, history>>

Service(c) == Refused(c) \/ Established(c) \/ Writeable(c) \/ Closed(c)

Write ==
  \/ \E n \in 1..Chunk : WriteChunk(n)
  \/ WriteFatal
  \/ WriteBusy

Next ==
  \/ \E c \in Clients : Service(c)
  \/ Resend \/ MarkWriteable
  \/ SendPixmap \/ AwaitWriteable \/ CheckWriteable
  \/ Write \/ Retry
  \/ BackupAndDeleteBuffer

Spec == Init /\ [][Next]_vars

(***************************************************************************)
(* libwebsockets delivers the writable events asked for, both threads are  *)
(* scheduled, and a socket does not stay busy for ever.                    *)
(***************************************************************************)
FairSpec ==
  /\ Spec
  /\ \A c \in Clients : SF_vars(Writeable(c))
  /\ WF_vars(Resend) /\ WF_vars(MarkWriteable)
  /\ SF_vars(AwaitWriteable) /\ WF_vars(CheckWriteable) /\ SF_vars(Retry)
  /\ SF_vars(\E n \in 1..Chunk : WriteChunk(n))
  /\ WF_vars(BackupAndDeleteBuffer)

----------------------------------------------------------------------------

\* Clients the channel is expected to serve correctly.
Served == Clients \ (crowded \cup torn \cup split)

(* A client that is alone, joined outside WriteData, had no short or failed*)
(* write and was not resent the copy in the middle of a message can        *)
(* assemble everything it was sent, resent copies included: fragments of   *)
(* two messages are never mixed, none is missing or doubled, none cut,     *)
(* however often its socket was busy and its fragments were retried.       *)
(* The code does cut a message in two where it leaves `split`: the writable*)
(* event for the retry takes the branch meant for reconnections.           *)
WholeImages == \A c \in Served : ~view[c].bad

(* The page of such a client never goes back to an older image, in spite   *)
(* of the copy resent to it by the other thread.                           *)
ImagesInOrder ==
  [][\A c \in Served' : view'[c].last >= view[c].last]_vars

(* When both threads are at rest and nobody waits for a writable event, the*)
(* page of the connected client shows the last image or the one before: a  *)
(* reconnection loses at most the image being backed up.                   *)
AtMostOneBehind ==
  \A c \in Served :
    (/\ service = Idle /\ sender = "idle" /\ conn[c] = "open" /\ c \notin wanted)
      => view[c].last \in {image - 1, image}

(* An image handed to WriteData is written, even if the socket is busy or  *)
(* the client reconnects in between, unless no client is left or two were  *)
(* open at once: WriteData waits for a writable event it may not ask for.  *)
RenderCompletes ==
  (sender # "idle") ~> (sender = "idle" \/ Open \subseteq crowded)

(***************************************************************************)
(* What the log line of the resend says of it: "Send last image after      *)
(* websocket reconnected".                                                 *)
(***************************************************************************)

(* "Send last image": the copy is sent in full, header and pixels.         *)
ResendIsWhole == firstImage # NoImage => firstSize = Total

=============================================================================
