# A TLA+ model of the IDE previewer

The previewer renders an application for an IDE. It is one process that the IDE
starts with a command line, sends commands to over a local socket (a named pipe
on Windows) and receives images from over a WebSocket. There are two programs:
the **rich previewer** (`RichPreviewer.cpp`, the ArkUI engine in a glfw window)
and the **lite previewer** (`ThinPreviewer.cpp`, the engine of small devices).
They share `cli/`, `util/` and much of `mock/`.

The modules in this directory model what makes these programs hard to test:
several threads that share state with few locks, time limits, a peer that
connects, stalls and reconnects at will, and an order of events nobody chose.
TLC checks small instances; TLAPS proves theorems for all instances.
`PROJECT.json` lists runs, mutants, findings, hazards, theorems and, for every
definition, the lines of code it stands for. Paths below are under `src/`.

## 1. Inventory

### Threads

| Thread | Program | What it runs |
|---|---|---|
| main | rich | start-up, `RunJsApp`, the loop of `JsAppImpl::Start` (engine events, `EventRunner::Run`) until `isStop`, `StopAbility` |
| command | rich | `CommandLineInterface::ProcessCommand` every 100 ms until exit, then `JsApp::Stop` |
| service | both | libwebsockets' loop and its callbacks (`WebSocketServer`) |
| render | rich | the engine's `Callback` with an image, `PageCallback`; the end mark comes through another callback |
| timer | rich | one detached `FlushEmptyFunc` for each component document |
| main | lite | start-up, command loop, `JsApp::Stop` |
| JS | lite | `StartJsApp`, then timers, asynchronous work and device checks until `isInterrupt` |

### Components

| Component | State | Operations | Interacts with | Hard | Correct when |
|---|---|---|---|---|---|
| **Delayed tasks** `jsapp/rich/external/Event{Runner,Handler,Queue}` | the queue ordered by due time, its mutex | `PostTask`, `PushTask`, `Run` | every thread posts; the main thread runs; tasks post tasks | stamp, order and lock are taken at different moments; a batch is copied and then run | no task lost, run twice, early, or ahead of one accepted before it and due no later |
| **Image channel** `util/WebSocketServer`, `VirtualScreenImpl::Send*` | the one connection, `WebSocketState`, the copy of the last image | connect, close, writable, `WriteData`, backup, resend | service thread and render thread, through static members | busy and failed writes, reconnections, the resend by the other thread | a client gets whole images in order and is at most one behind; rendering never hangs |
| **Component preview** `VirtualScreenImpl` + `LoadDocumentCommand` | load flag, `isStartCount`, the kept image, its meta data and its copy | `LoadDocument`, `Callback`, `FlushEmptyCallback`, `FlushEmptyFunc` | command, render and timer threads | three time limits; stale images of the document before; buffers freed under others | one polling thread; the last image of the new document is sent, from live memory |
| **Shared data** `util/SharedData*.{h,cpp}` | per kind of device data: value, range, `isChanged`, subscribers with periods | construct, `SetData`, `AppendNotify`, `CheckAll` | commands set; timers of the main and JS threads check | callbacks run after the unlock; a tick counter that wraps; the start order | no change lost, repeated or never told |
| **Command channel** `cli/`, `util/unix/LocalSocket` | socket, message being read, result, `isFirstWsSend`, interrupter | read, parse, validate, run, answer | IDE, engine events that also write to the socket | reads stop in the middle of a message; the first message; exit | one answer per message in order; only torn messages are lost |
| **Life of the rich previewer** `RichPreviewer.cpp`, `jsapp/JsApp.cpp`, rich `JsAppImpl` | `ability`, `isFinished`, `isStop` | start, loop, `Interrupt`, `Stop` with a time limit | main and command thread | exit at any moment; ability used without a lock | the ability outlives the last command; exit ends the process |
| **Geometry** rich `JsAppImpl`, `mock/VirtualScreen`, `VirtualScreenImpl`, the display commands | sizes and orientation held four times: screen, application, arguments, engine | resolution, orientation, fold, document | command thread, main thread that still creates window and ability, posted tasks | copies go out of step; tasks read what later commands wrote | the window settles on what the last command set |
| **Timers and work** `util/CppTimer*`, `CallbackQueue`, `mock/lite/*Timer*`, `AsyncWork*` | timers, their passed time, queued callbacks, queued work | start, stop, tick, run queue, dispatch, clear | JS thread; the main thread clears the work | callbacks start and stop timers while the queue runs | one-shot means once; nothing freed is read; work once and in order |
| **Life of the lite previewer** `ThinPreviewer.cpp`, lite `JsAppImpl` | `jsAbility`, `isFinished`, `isInterrupt` | start, launch, loop, `Interrupt`, `Stop` | main and JS thread | the main thread tears down what the other runs | exit ends the process |
| **Device and input commands** `cli/CommandLine.cpp`, `mock/` | entries of `SharedData`, input mocks, location, messages, the screen's and the application's members | forty commands, each read, validated, run and answered; the JS thread's reads, checks and subscriptions | command channel, configuration file, engine, JS thread | narrowing conversions in two places, mocks shared by several commands, values read member by member | an answer of true means it was done; what is read undisturbed is exact; no torn position stays |
| **Colour mode** rich `JsAppImpl` | `colorMode`, the arguments' colour, the ability's colour | options, configuration, `ColorModeChanged`, `RunNormalAbility` | main and command thread | a copy that the other thread overwrites | the three agree |
| **Start parameters** `util/CommandParser`, `InitJsApp` of both programs | the table of options, the checked members, what the application takes | parse, look up, one validator per option | main thread, once | options hidden among arguments, repeated options, validators that depend on others | the last one given counts; what starts was checked |
| Avoid areas and touch bounds | areas of the command; the size touches are tested against | `AvoidAreaChanged`, `MouseInputImpl` | command and main thread | recomputed by some commands only | agree with the size |
| Frame filters and encoding | counters, card and static modes | `Callback` | render thread | `isStartCount` is shared with the static mode | drop only what the mode says |
| Lite virtual screen `mock/lite/VirtualScreenImpl` | its buffers, its own resend | refresh, flush | JS and service thread | as the image channel | as the image channel |
| Stage context `jsapp/rich/external/StageContext` | router map, HSP paths, mock files | look-ups | main thread | nested look-ups over files and JSON | same result as a reference definition |
| JSON, files, models, traces, logs, crash handler, clipboard, dates, platform variants, generator of mock modules, tests | - | - | - | input and output, operating system, build time | - |

Components without a module, with the reason each, are `not_modelled` in
`PROJECT.json`; section 8 says which of them are planned.

## 2. Modules

    TaskScheduler            what PostTask promises
      ^ refines
    EventRunner      <-- MCEventRunner,   EventRunnerProofs
    ImageChannel     <-- MCImageChannel,  RichScreenProofs
    LoadDocument     <-- MCLoadDocument,  LoadDocumentProofs
    SharedData       <-- MCSharedData,    SharedDataProofs
    CommandService           what the command pipe promises the IDE
      ^ refines
    CommandChannel   <-- RichPreviewer    (extends it with the life of the main thread)
                     RichPreviewer    <-- RichPreviewerProofs
    Timers           <-- LitePreviewer    (extends it with the life of both threads)
                     LitePreviewer    <-- LitePreviewerProofs
    RichDisplay      <-- MCRichDisplay,   RichScreenProofs
    DeviceCommands   <-- DevicePreviewer  <-- MCDevicePreviewer
                     DevicePreviewer  <-- DevicePreviewerProofs
    StartParameters  <-- MCStartParameters, StartParametersProofs

In every module an action is what one thread does between two points at which
another can see or change the state: an access to an unprotected member, a lock
or unlock, a call out. Code under a mutex is one action.

**EventRunner** (`EventHandler::PostTask`, `EventQueue::PushEvent`,
`EventRunner::Run`, the loop of the rich `JsAppImpl::Start`). `PostTask` stamps
the due time (before the mutex), `PushTask` inserts under it. `Run` samples the
clock, `LockQueue`, `PopExpired` until the head is not due, `UnlockQueue`; then
the batch is run one by one, `StartTask` to `EndTask`, and the task that runs may
post. The order among equal due times is that of insertion (`order`).
**TaskScheduler** is the abstract specification with neither queue nor mutex.

**ImageChannel** (`WebSocketServer.cpp`, `VirtualScreenImpl::Send` and
`BackupAndDeleteBuffer`). The service thread handles connect, close and writable
events; the resend of the copy and the setting of `WRITEABLE` are separate steps.
The render thread waits for `WRITEABLE`, writes fragments of up to `Chunk` units
and backs up the image. `lws_write` may write part, nothing, or fail; for the
resend too, whose result nobody looks at. A write of nothing (busy) is retried
after the next writable event, which finds the channel unwritable and resends the
copy first, between two fragments if one was written already (`split`). Each
client's `view` assembles what it is sent and notes when that is no whole image.

**LoadDocument** (`VirtualScreenImpl.cpp:30-200`, `VirtualScreen.cpp`,
`LoadDocumentCommand::RunSet`). An image has a time stamp and a size; the kept
image, its meta data (`lengthTemp`, `widthTemp`), the copy and its length are
variables of their own, since they are written in different critical sections.
Time is scaled: "more than 100 ms" is more than 0 ticks, 300 ms one tick, 9 s
two. `Tick` waits while a polling thread is ready, for the loop spins without
sleeping; past `Horizon` time passes only while a timer polls. An image passes two
looks at the load flag, `Callback` and, after the test of its stamp, `TestFlag`.
If a timer or a command has changed the flag in between, it is sent at once
(`AllocDirect`, `SendDirect`, `FreeDirect`), with the timer's own buffers. `raced`
marks histories in which a command or an image comes while a timer is busy with
the one before, or in which an image is to be sent at once beside a timer;
`repeated` those with more than one end mark.

**SharedData** (`SharedData.h`, `SharedDataManager.cpp`, the start order of
`ThinPreviewer.cpp` and of the lite `JsAppImpl`). Every type has a value and a
range, `isChanged`, the subscribed threads with their period in ticks, and a
tick counter modulo `TickModulus` (2^32). `CheckAll` collects the pairs to notify
under the mutex; `RunCallback` gives them out afterwards. `version` and
`delivered` are history.

**CommandChannel** (`CommandLineInterface.cpp`, `CommandLine.cpp` base class,
`CommandLineFactory`, `LocalSocket.cpp`). The IDE writes a message in parts and
the command thread reads it byte by byte until the socket is empty at that
moment. A message is of one of six kinds: it runs and answers, runs without a
result, has invalid arguments, names an unknown command, is ignored (an invalid
type, or left out for a static card), or is exit.
**RichPreviewer** adds the main thread (start, loop, tear-down) and `JsApp::Stop`.
**CommandService** is the abstract specification without bytes, turns or results: a
command is taken, later than the one before, and answered before the next; exit
closes the service and gets one empty answer more. `Service` in `CommandChannel`
maps it: the request number is the message the IDE has begun, the one taken is in
hand or was served last.

**RichDisplay** (`JsAppImpl.cpp`, `VirtualScreen.cpp`, `CommandLine.cpp`).
`screen`, `app`, `args`, `surface` and `window` are the copies of the size; a
command goes through `FoldStatusChanged`, `SetDeviceWidth`, `SetDeviceHeight`,
the assignments of the rest (`SetResolutionParams` and `SetDeviceOrientation`,
`OrientationChanged`, or `ParseSystemParams`), `TestAbility`, `PostTask` and
`SurfaceChanged`; the main thread goes from `InitResolution` to `SetAbility` and
then runs the posted tasks. The density is kept as the pair of widths it is
computed from, which is all that decides it for one screen density.

**Timers** (`CppTimer`, `CppTimerManager`, `CallbackQueue`, `NativeTimer`,
`AsyncWorkManager`, `TimerTaskHandler`). A turn of the loop copies the list of
timers, looks at each, then runs the queue from its back; an element is removed
after its callback ran. The passed time stops at the interval, and a handle is used
for one timer. Of the engine's three own timers only the one that checks the
device is told apart, for it runs the asynchronous work.
**LitePreviewer** adds both threads' lives. That Launch, Show and the callbacks
go through a pointer the main thread may have reset is an outcome of the model,
`js = "crashed"`; application code does not act once it is torn down. The engine's
own destruction of timers on the main thread is left out.

**DeviceCommands** (`CommandLine.cpp`, `SharedData` construction in
`ThinPreviewer.cpp`, the mocks' setters) has no state. For every command it
gives, from its JSON arguments and the cells of the device, whether it is valid
and the writes it makes, in order: the type tests of `JsonReader` on values of
each kind (numbers are counted in halves, so that what is cut is seen), the
range of each entry, the eight-bit casts, the positions of a touch, the source
tools, keys, documents. Texts are values that are never taken apart.
**DevicePreviewer** runs them. The main thread of either previewer goes from
`InitResolution` through the commands of the configuration file
(`BeginConfig`, `EndConfig`) to `InitJsApp` and, in the rich one, `CopyColorMode`
to `AssignAbility`. A command of the IDE is `BeginRequest`, a `Write` for each
member or entry, and `SendResult`, on the main thread (lite) or the command
thread (rich). The JS thread reads jobs cell by cell, checks the position and
tells the application. `CopyColorMode` reads a `std::string` that the other
thread may be assigning: the copy is then any mode.

**StartParameters** (`CommandParser.cpp`, `RichPreviewer.cpp`, `ThinPreviewer.cpp`
and `InitJsApp` of both). `ProcessArgument` is one turn of `ProcessingCommand`,
whose inner loop takes an option's arguments; `Validate` calls one operator per
validator in the order of the code, with what looking an option up leaves in the
table; `InitJsApp` hands the members over. A text is a string that belongs to the
classes the code tells apart (begins with a dash, a numeral, a word, too long),
and `Number` says what `atoi` makes of it, for numerals beyond an `int` too.

## 3. Runs

| Run | Shows | Bounds | States |
|---|---|---|---|
| `event_runner` | tasks conserved, `TaskScheduler` implemented, every posted task started | 3 tasks, 2 posters besides the main thread, delays 0 and 1, time up to 2 | 332 k |
| `image_channel` | whole images, in order, at most one behind, rendering completes | 2 clients, 2 images of 3 units, fragments of 2 | 114 k |
| `load_document` | one poller, live buffers, the last image sent, giving up, polling ends | 2 commands, 2 timer threads, 3 images or marks of 2 sizes, horizon 2 | 710 k |
| `shared_data` | no change lost or repeated, each told | 2 threads, 2 types with other ranges and periods, 3 sets, ticks modulo 3 | 36 k |
| `rich_previewer` | `CommandService` implemented, answers in order, torn messages only, tear-down after the last command, exit | 2 messages of 2 parts and an end, 1 engine event | 57 k |
| `lite_previewer` | timers fire as asked, nothing freed is read, work in order, exit | 1 handle and the device timer, 2 works, 1 turn of Stop | 283 k |
| `rich_display` | the window settles on what the last command set | 3 commands, 3 sizes one of which only a document may have, start 3 x 5 compressed to 2 x 3 | 1.9 M |
| `start_parameters` | the last option counts, none is hidden, every line is decided, what starts was checked | 928 command lines: one or two options added to a complete or an incomplete line, for both programs | 9 k |
| `device_previewer` | accepted is done, undisturbed reads are exact, positions are told, colours agree | 2 commands of the IDE or sets of the application, out of some 70; 4 settings, 4 configurations | 577 k |

Why the bounds are enough. *event_runner*: overtaking needs two tasks and a
third that posts one of them; delays of 0 and 1 at two moments give all orders
of two due times. *image_channel*: a reconnection needs two clients, the copy of an
image before needs two images, mixing needs two fragments. *load_document*: the
races are between two documents, two timers, and an image that comes between
two steps of one that sends an earlier image; three frames give stale image,
image and mark. *shared_data*: a modulus of 3 with a period of 2 has the wrap
that does not fit the period. *rich_previewer*: with two messages one can be torn
by the reading of the next. *lite_previewer*: the device timer is the second
timer of a pass, so a callback that stops the other, or is stopped, occurs.
*rich_display*: earlier tasks wait while two further commands run.
*start_parameters*: the parser looks at one option and what follows it, and its
validators at three options at most; a fragment may repeat an option, leave its
argument out or end the line. *device_previewer*: what one command leaves in a mock
shows in the next, so every pair is run, each well formed, malformed and on both
sides of each bound (1, 2^8 + 1 and -1 for a byte); `IntMax` is scaled down to a
value above every range, and `SourceTools` holds the ends of the enumeration.

Three more runs each state what a comment, a log line or a test says, and TLC
finds a behaviour of the code that does not keep it:

| Run | What is said | What happens |
|---|---|---|
| `image_resend_rgba` | "Send last image after websocket reconnected" (`WebSocketServer.cpp:104`) | in component mode the copy's size leaves out the pixels |
| `rich_previewer_stop` | "js app stop finished" (`JsApp.cpp:58`) | an exit before the start finds `isFinished` true; the application starts afterwards and nothing stops it |
| `rich_display_turned` | `JsAppImplTest.cpp:174-189` on orientation and size | landscape and back to portrait leaves the landscape size, since `width` and `height` are never swapped |

What excluded histories mean: the properties leave out the cases in which the
code guarantees less, and each of these words is a history variable, computed where
the case arises. Clients on the channel: `crowded`, two connections at once share
one state; `torn`, a short or failed write, or a connection
made while an image is being written; `split`, the copy resent between two
fragments. A busy write alone is not left out. Documents: `raced`, a command or an
image in the way of a timer (all share one set of buffers) or an image sent
directly beside it: either of the two may free or replace a buffer while the other
reads it. These cases are in the model, and the properties fail without the
exclusion: `WholeImages` without `split`, `BuffersAlive` and `SendsLastImage` without
the direct sending in `raced` (section 6 tells the traces). `DevicePreviewer`: `repeated`, a
coordinate asked for twice, and `stirred`, a colour set while the main thread copies
it or by a document. In `SharedData` each entry has one subscribed thread, as in
the program.

## 4. Fairness

Threads are scheduled (weak fairness of each one's next step) and time passes. What
is more than that:

- `EventRunner`: strong fairness of `PushTask`, for the queue mutex is held for
  a bounded loop only and is free again and again. That tasks return is assumed
  of the engine.
- `ImageChannel`: strong fairness of the writable event that was asked for
  (libwebsockets delivers it), of waiting, of the retry after a busy write, and
  of a write that makes progress: a socket is not busy for ever. Without it a
  client that stops reading would hold the render thread, in the code too.
- `CommandChannel`: the IDE finishes a message it has begun. No message has to
  come.
- `RichPreviewer`, `LitePreviewer`: no exit has to come; the application's
  callbacks, `RunJsApp` and `StopAbility` return.
- `RichDisplay`: no command has to come.
- `StartParameters`: the parser goes on, which is all that `Decides` needs.
- `DevicePreviewer` states no fairness: its properties are about what is there
  when a step has been made, and that a changed entry is told is `SharedData`'s.
- `LoadDocument`: `WriteData` returns, which is `RenderCompletes` of the image
  channel. `SharedData`: both threads' timers go on firing.

`CHECK_DEADLOCK FALSE` is set where the process really ends, or where the bound
on commands, images or time ends the behaviour; `SharedData` never stops.

## 5. Proofs

**EventRunnerProofs.** `TypeCorrect`, `TasksConserved`, `Refinement`, for all
threads, tasks and delays (`TypeOK` is only proved, no run repeats it). That tasks are in exactly one place is not inductive:
one must know that a pending `PushTask` is that of a task requested and not yet
queued (`PostInv`), that queue entries carry the due time of their task and
different orders (`QueueInv`), where each accepted task is (`PlaceInv`), and
that what was popped is due (`TimeInv`). For the refinement, no accepted task
that must come first may still be queued when a task is copied: `AfterInv`, which
rests on the queue being popped in order. `IInv` is their conjunction, with one
lemma per action that disturbs it, one for the others (`QuietKeeps`), and then
`StepRefines` maps each step to a step of `TaskScheduler` or a stutter.

**LoadDocumentProofs.** `PollersExclude`: at most one timer thread polls. A
thread between the end of its polling and the moment it sets `isStartCount` must
be counted too, so the invariant (`IInv`) is about the threads that poll or mark:
`isStartCount` is false while there is one, and there is at most one.
`BuffersStayAlive`, `LastImageIsSent` and `OnlyLateImagesAreGivenUp`, for any
number of timers, documents and images of any size, rest on `LoadInv`. What is
known of the kept image is written in two critical sections, but agrees with it
whenever there is one (`KeptInv`); a timer that nothing came in the way of is
alone, with no image being sent directly beside it (`AloneInv`); each step of a
timer or of a direct sending finds what the step before left (`BufferInv`); no timer
holds an image older than the document (`DocInv`: such an
image is picked up only while a timer may still start), and time stands still while
it is ready to send (`PollInv`, from `OnRenderTimeout + SendDuration < NineSeconds`,
an assumption that states the code's constants).

**RichScreenProofs** is about both sides of the rich `VirtualScreenImpl`.
`ImagesStayWhole`, `ImagesStayInOrder`, `PageIsAtMostOneBehind` and `CopyIsWhole`,
for any clients, images and fragment size. Between two writers of one page there is
no lock, so the invariant `ChannelInv` says who writes when: a page is `Joining`
from the connect callback until `MarkWriteable`, and then `WriteData` waits for
`WRITEABLE` and only the service thread writes (the copy); afterwards it is
`Joined`, has exactly what is written of the image under way, and the service
thread has no callback for it; after a busy write it is `Busy`, has what is written
so far, and until the retry only the service thread writes, once, the copy (which
leaves the page whole if no fragment was written yet, else it is `split`). `Behind`
relates the page to the sender's place.
All four assume `~ComponentMode`, for in component mode the copy that is resent has
lost its pixels, which the run `image_resend_rgba` shows.
`WindowSettlesOnTheApplication`, for any sizes, commands and delays: `DisplayInv`
says that the last task in the queue sets what the application has, unless a
command is between its first write and its `PostTask` (`WindowInv`); that needs the
arguments to follow the application step by step (`ArgumentsInv`) and the
ability to be the last thing the main thread makes (`AbilityInv`).

**SharedDataProofs.** `TypeCorrect`, `ChangesKept`, `ToldOnce`. The flag
`isChanged` says nothing of what is on its way to a callback, so the invariant
orders versions: what was delivered is not newer than what is on its way, which
is not newer than the data (`OrderInv`); data not yet constructed or never set
has nothing to tell (`UntoldInv`); and unless the flag is set, what is on its
way to the only subscriber is the last change (`LastInv`). `TypeInv`
adds that the JS thread starts after all types are constructed.

**StartParametersProofs.** `OptionsAreRead` and `StartIsChecked`, for every set
of command lines and whatever `atoi` makes of a text. `TakenProperty` says what
the inner loop takes, `ArgumentsProperty` from it what an option gets; a turn then
keeps "the last one given" (`ProcessArgumentKeeps`), since what it takes holds no
option. The texts of the validated line are gone when `InitJsApp` runs, so the
invariant `Accepted` remembers that there is an accepted table of which the
members are made and to which look-ups have only added options without arguments.

**RichPreviewerProofs.** `RichOneAnswerInOrder`, `RichOnlyTornIsLost`,
`RichNoCommandAfterStop`, `RichStopWaits`, for any number of messages and any
length of one. None of the four is inductive. What is on the pipe is a run of
parts that follow each other, from the one read next to the one the IDE writes
next (`PipeInv`), so a turn that reads half a message leaves the other half in
front, which cannot parse. From this, every message before the first unread part
is served, torn, ignored or in hand, and no other is (`ReadInv`); a message that
was served cannot be met again, nor a torn one be served. `AnswerInv` counts
answers, results on their way and the second answer of exit. `LifeInv` ties both
threads: `isStop` means that the command loop has ended, and the main thread
leaves its own loop only then. One lemma per action of the command loop
(`DispatchKeeps` is the long one), one for those that change nothing here
(`QuietKeeps`), and `MainKeeps` and `StopKeeps` for the two threads' ends.
`RichCommandService` is the refinement of `CommandService`. It needs one more
invariant, `SentInv`: nothing is read that was not written, and exit has a result.
`Dispatch` is `Take` or a stutter, for what is in hand is newer than all that was
served (`ReadInv` after the step); `Refuse` and `CheckAndRunSend` are `Answer`,
`RunExit` is `Close`, and `Run` and the reading of bytes are stutters.

**LitePreviewerProofs.** `LiteWorkInOrder`, for any timers and any amount of work.
The three lists, run, being run and waiting, are each in order, each below the
next, and nothing is newer than the last work dispatched (`WorkInv`); the two
places that take the list away, the JS thread to run it and the main thread to
clear it, leave it empty, which keeps all of that wherever the other thread is.
`LiteTimersAlive` and `LiteFiresAsAsked`, for any timers that callbacks start and
stop while the queue runs: `TimersInv` says that the running timers are exactly
those that live, each listed once, that a timer is queued once and not before the
pass has come to it (`ListInv`, `QueueInv`), and that the shots still to come, those
queued and those done add up to one for a one-shot timer (`CountInv`). A list that
holds a timer once also justifies how the model says `std::list::remove`, which
removes every equal element: `RemoveFirst`. The lemmas `OnceAppend`,
`OnceTail`, `OnceFront` and `OnceRemove` say what each list operation leaves.

**DevicePreviewerProofs.** `ColoursAgreeOnceRunning`, `AnswersAreTrue`,
`NewLatitudeComesLast`, `CheckedPositionIsTold`, `ReadsAreExact`, for every setting,
configuration, command and argument. Two things come first. What a command writes,
in which order, is shown command by command (`EntryWrites`, `LocationWrites`,
`TouchWrites`, ..., gathered in `CommandWrites`), from the arguments its own tests let
through. And which thread writes when is `RunInv`: the command thread of the rich
previewer, the main thread while it is in the configuration or is that of the lite
one. On these rest four invariants, of which none of the properties can do without
its own. `ColourInv` follows the colour from the arguments to `held` and to the
ability, and a ColorMode command through its three writes. `DoneInv` says for each kind
of command which of its writes are still to come and that the others landed on what was
asked for; for events of the rich previewer also that the members of the mock are
this command's, which holds since no other thread writes there. `PlaceInv` orders the
position: a coordinate that holds was asked for (`MoveInv`), what the JS thread has
read so far follows the order of its job (`JobInv`), and who has seen the new latitude
comes after the command (`SeenInv`); what is checked and what is told can then
differ only while a callback is under way. `ReadInv` says that between commands each
cell holds what was asked of it, that a write still to come will land on that
(`ValueInv`; a move lands on the state before, which is what it asks for), and that a
clean job has read only such cells (`ExactInv`).

Assumptions are those named `...Assumption` in the modules, which TLC evaluates
in the runs: sets of time values are naturals, the initial value is in its
range, markers are not members of the sets they mark.

Not proved. Liveness needs fairness and ENABLED, which the prover does not
handle; it is model-checked: `PostedTaskRuns`, `RenderCompletes`, `PollingEnds`,
`KeptImageIsSent`, `ChangeIsTold`, `MessageServed`, `ExitEndsApp`, `TimerFires`,
`WorkRuns`, `ExitEndsLite`, `WindowFollows`, `Decides`.
Every invariant and every action property of the passing runs is proved.

## 6. Seen while reading, not stated as findings

No text of the repository says otherwise, or the consequence is small:

- `LoadDocument` updates the arguments only: the `orientation` member,
  `colorMode` and the size touches are tested against stay those before, so that a
  later Orientation or ColorMode command compares with a stale value.
- `OrientationChanged` recomputes neither avoid areas nor the size for touches.
  After a rotation the density is computed as if the compressed resolution were
  the original one; a fold resets it to the screen density of the start.
- A command that runs while `RunNormalAbility` copies the arguments is lost to
  the ability, which is not set yet; `LoadDocument`, a touch or
  `inspectorDefault` before then dereference a null pointer.
- `RunNormalAbility` sets the pointer some lines before the ability has its
  window; the model takes these lines as one step, `SetAbility`, and so leaves out
  a command that finds the ability without a window.
- A reconnection between `WriteData` and the backup gets the image before last.
- A command without a result is answered with `{}`, and exit twice.
- In the lite previewer `Interrupt` sets `isFinished` itself, so Stop ends while the
  JS thread may still run application code; a launch through the reset pointer
  crashes the process, which is about to end.
- A repeated end mark within 100 ms postpones the sending to the nine seconds.
- `CppTimerManager`'s map is extended by several threads without a lock.
- `deviceHeight - bottomRect.height` (`JsAppImpl.cpp:1050`) wraps if the avoid area
  is higher than the screen.
- A busy write sets `UNWRITEABLE` (`WebSocketServer.cpp:234`) and asks for a writable
  event, which then takes the branch meant for reconnections (line 102): a client that
  never left is resent the copy. If the first fragment was the busy one, the page only
  shows the image before once more. If a later one was, the copy, a message of its
  own, lands between two fragments: the page loses the image under way and a strict
  client ends the connection. Take `split` out of `Served` and `WholeImages` shows it:
  SendPixmap, the first fragment, a busy second, Writeable, Resend.
- An image that passed the flag in `Callback` (`VirtualScreenImpl.cpp:188`) is sent
  directly if a timer sets `NORMAL` (line 37) before `LoadDocCallback` looks again
  (line 148). Both threads then replace and free `wholeBuffer`, and the direct sender
  frees the kept image: the timer reads freed memory or copies from a null pointer,
  and the page may get two images. The same holds for an image that passed before the
  next LoadDocument set `START` while a timer was there. Leave `raced` as it is in
  `TestFlag` and `BuffersAlive` shows it: TestStamp, PollSend, SendBufferOnTimer,
  TestFlag, AllocDirect, SendDirect, FreeDirect, CopyBuffer.
- The nine-second branch (`VirtualScreenImpl.cpp:99`, "有结束点，无出图") also ends a
  timer that has an image, one rendered after the end mark, which is dropped.
- Commands whose value is cut to eight bits accept 257 as 1 and, for a heart rate,
  -1 as 255; the bounds of a touch are tested on integers, so half a unit beyond
  either side passes, and against a size that `Orientation` does not swap.
- `SetData` refuses what is out of range without telling; the commands test the
  range first, on the same value (`AcceptedIsDone`).
- A static screen answers touches with true and dispatches nothing; `KeyPress` and
  `CrownRotate` answer `{}` there, as do `get` requests of `CurrentRouter`,
  `LoadContent`, `FastPreviewMsg` and `AvoidArea`.
- A wheel rotation set between the engine's read and its reset is lost.
- A `ColorMode` command sent while the main thread copies the colour and creates the
  ability may stay unseen, and the same mode sent again is ignored as no change.
- What the configuration file sets before `InitJsApp` is overridden by `-cm`.
- Message callbacks run under a non-recursive mutex, so a callback that unregisters
  would wait for itself.
- With coordinates that return within a check period an application may keep an old
  position; `PositionIsTold` is about coordinates that do not.
- `atoi` keeps the low bits of a numeral beyond an `int`, so such a port or size may
  pass; `-foldStatus` without `-foldable true` sets an empty fold status; without
  `-device` the type is the empty text, not the default.

## 7. What is not modelled

Pure input and output, the operating system's services, the build-time
generator, cJSON and the engine: nothing in them is ordered by this code. The
engine is its callbacks and the calls made to it. Windows and macOS variants of
files that have a Unix one are not modelled. Within modelled components: the
`ThreadId` test of `EventRunner`; failed allocations; the screen mode `STATIC`,
cards and dropped frames; the end of the WebSocket loop on a signal; the debug
preview of Windows and macOS; counters of commands per minute, time stamps of
input, the keyboard's locks, the vibrator and the sensors' single reads, the
length of the axis array (all of `DevicePreviewer`); language and region
of the rich previewer's start; the lite previewer's option `t`, which starts nothing.

## 8. Plan

Done, in this order, the most shared and least locked state first: EventRunner,
ImageChannel, LoadDocument, SharedData, CommandChannel with RichPreviewer, Timers
with LitePreviewer, RichDisplay, StartParameters, DeviceCommands with
DevicePreviewer. Proved: the task queue and its refinement, the polling and the
buffers of documents, the table of device data, the start parameters, the command
channel with its refinement and the end of the rich previewer, work and timers of the JS thread, the
image channel, the geometry, the commands with what the JS thread reads.

Left, modules:

1. **StageContext** as operators without RECURSIVE: look-up of HSP and HAR paths,
   of the router map and of mock files (`StageContext.cpp:140-199, 274-320,
   466-518, 665-687`), against reference definitions.
2. **Avoid areas** of a window (`CalculateAvoidAreaByType`) in `RichDisplay`.
3. **Lite virtual screen** with its own buffers and resend; the frame filters of
   the rich one in front of `LoadDocument`.
4. Ownership of nodes in `JsonReader`: what is deleted twice or not at all.

Abstract specifications: a *last-value image feed* that `ImageChannel`
implements for one client; a *timer service* for `Timers`.

Theorems: the refinements above; every safety property stated so far is proved.
