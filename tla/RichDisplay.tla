------------------------------ MODULE RichDisplay ------------------------------
(***************************************************************************)
(* The geometry of the rich previewer.  Commands on the command thread     *)
(* change what the screen (VirtualScreenImpl), the application (JsAppImpl) *)
(* and its arguments (aceRunArgs) hold of the size, post a task that sets  *)
(* the size of the window on the main thread, and tell the ability; the    *)
(* main thread meanwhile may still be creating window and ability from the *)
(* same arguments.  The density is kept as the two widths it is made of.   *)
(***************************************************************************)
EXTENDS Integers, Sequences

CONSTANTS
  StartOriginal, StartCompressed,  \* -or, -cr: the resolutions at start
  StartFold, FoldedSize,           \* -foldStatus, -fr
  MinWidth, MaxWidth,              \* CommandLine::minWidth, maxWidth
  MinLoadDocWidth, MaxLoadDocWidth,  \* the same for documents
  Lengths,                         \* widths and heights
  Asked,                           \* sizes that commands ask for
  Operations,                      \* commands that come
  MaxCommands                      \* bound: commands

Size == [w : Lengths, h : Lengths]
FoldStatus == {"fold", "unfold", "half_fold", "unknown"}
Orientation == {"portrait", "landscape"}

ASSUME DisplayAssumption ==
  /\ Lengths \subseteq Int /\ MaxCommands \in Nat
  /\ Asked \subseteq Size
  /\ {StartOriginal, StartCompressed, FoldedSize} \subseteq Size
  /\ StartFold \in FoldStatus

Swap(size) == [w |-> size.h, h |-> size.w]
\* AdaptDeviceType: for one screen density a function of these two.
Density(deviceWidth, realWidth) == <<deviceWidth, realWidth>>
Fitting(size) == IF size.w <= size.h THEN "portrait" ELSE "landscape"

\* What the IDE sends: the original size of a resolution is that of the start,
\* upright or turned.
Command ==
  [op : Operations \cap {"resolution"}, size : Asked,
   original : {StartOriginal, Swap(StartOriginal)}]
    \cup [op : Operations \cap {"orientation"}, orientation : Orientation]
    \cup [op : Operations \cap {"fold"}, status : FoldStatus,
          size : {FoldedSize, StartOriginal}]
    \cup [op : Operations \cap {"document"}, orientation : Orientation, size : Asked]

VARIABLES
  screen,   \* VirtualScreenImpl: original, compressed and current size, foldStatus
  app,      \* JsAppImpl: width and height, orientation
  args,     \* aceRunArgs: deviceWidth and deviceHeight, orientation, density
  info,     \* screenInfo
  tasks,    \* posted tasks: the size each reads when it runs
  window,   \* size of the glfw window
  ability,  \* the pointer is not null
  surface,  \* arguments the ability has
  main,     \* where the main thread is
  command,  \* the command that runs
  at,       \* where it is
  commands, \* commands so far
  known     \* history: the last change of the size began with an ability

app_vars == <<app, args, screen>>
engine == <<window, ability, surface, main, info>>
display_vars == <<app_vars, engine, tasks, command, at, commands, known>>

NoSize == [w |-> 0, h |-> 0]
NoArgs == [size |-> NoSize, orientation |-> "portrait", density |-> <<0, 0>>]
NoCommand == [op |-> "none"]

DisplayInit ==
  /\ screen = [original |-> NoSize, compressed |-> NoSize, current |-> NoSize,
               foldStatus |-> "unfold"]
  /\ app = [size |-> NoSize, orientation |-> ""]
  /\ args = NoArgs
  /\ info = screen
  /\ tasks = <<>>
  /\ window = NoSize /\ ability = FALSE /\ surface = NoArgs
  /\ main = "resolution"
  /\ command = NoCommand /\ at = "idle" /\ commands = 0
  /\ known = FALSE

(***************************************************************************)
(* The main thread, from main to the loop of JsAppImpl::Start.             *)
(***************************************************************************)
InitResolution ==
  /\ main = "resolution"
  /\ screen' = [screen EXCEPT !.original = StartOriginal, !.compressed = StartCompressed,
                              !.current = StartOriginal]
  /\ main' = "init"
  /\ UNCHANGED <<app, args, info, tasks, window, ability, surface, command, at, commands, known>>

InitJsApp ==
  /\ main = "init"
  /\ app' = [app EXCEPT !.orientation = Fitting(StartCompressed)]
  /\ screen' = [screen EXCEPT !.foldStatus = StartFold]
  /\ main' = "screen"
  /\ UNCHANGED <<args, info, tasks, window, ability, surface, command, at, commands, known>>

InitVirtualScreen ==
  /\ main = "screen"
  /\ screen' = [screen EXCEPT !.original = StartOriginal, !.compressed = StartCompressed]
  /\ main' = "info"
  /\ UNCHANGED <<app, args, info, tasks, window, ability, surface, command, at, commands, known>>

InitScreenInfo ==
  /\ main = "info"
  /\ info' = screen
  /\ app' = [app EXCEPT !.size = screen.compressed]
  /\ main' = "args"
  /\ UNCHANGED <<screen, args, tasks, window, ability, surface, command, at, commands, known>>

SetJsAppArgs ==
  /\ main = "args"
  /\ LET size == IF info.foldStatus = "fold" THEN FoldedSize ELSE info.original IN
       args' = [size |-> size, orientation |-> app.orientation, density |-> Density(size.w, size.w)]
  /\ main' = "glfw"
  /\ UNCHANGED <<screen, app, info, tasks, window, ability, surface, command, at, commands, known>>

CreateGlfwWindow ==
  /\ main = "glfw"
  /\ window' = args.size
  /\ main' = "create"
  /\ UNCHANGED <<app_vars, info, tasks, ability, surface, command, at, commands, known>>

\* The instance copies the arguments; the pointer is set afterwards.
CreateInstance ==
  /\ main = "create"
  /\ surface' = args
  /\ main' = "ability"
  /\ UNCHANGED <<app_vars, info, tasks, window, ability, command, at, commands, known>>

SetAbility ==
  /\ main = "ability"
  /\ ability' = TRUE
  /\ main' = "run"
  /\ UNCHANGED <<app_vars, info, tasks, window, surface, command, at, commands, known>>

\* EventHandler::Run: SetWindowSize with what the members hold now.
SetWindowSize ==
  /\ main = "run" /\ tasks # <<>>
  /\ window' = IF Head(tasks) = "args" THEN args.size ELSE app.size
  /\ tasks' = Tail(tasks)
  /\ UNCHANGED <<app_vars, info, ability, surface, main, command, at, commands, known>>

Main ==
  \/ InitResolution \/ InitJsApp \/ InitVirtualScreen \/ InitScreenInfo \/ SetJsAppArgs
  \/ CreateGlfwWindow \/ CreateInstance \/ SetAbility \/ SetWindowSize

(***************************************************************************)
(* The command thread.                                                     *)
(***************************************************************************)
InRange(size, least, most) == {size.w, size.h} \subseteq least..most
IsSetArgValid(c) ==
  /\ c.op \in {"resolution", "fold"} => InRange(c.size, MinWidth, MaxWidth)
  /\ c.op = "resolution" => InRange(c.original, MinWidth, MaxWidth)
  /\ c.op = "document" => InRange(c.size, MinLoadDocWidth, MaxLoadDocWidth)

\* A command that would not change what it compares with only answers.
Changes(c) ==
  /\ c.op = "orientation" => c.orientation # app.orientation
  /\ c.op = "fold" => c.status # screen.foldStatus

Answer ==
  /\ at = "idle" /\ commands < MaxCommands
  /\ \E c \in Command : ~IsSetArgValid(c) \/ ~Changes(c)
  /\ commands' = commands + 1
  /\ UNCHANGED <<app_vars, engine, tasks, command, at, known>>

Begin(c) ==
  /\ at = "idle" /\ commands < MaxCommands
  /\ IsSetArgValid(c) /\ Changes(c)
  /\ commands' = commands + 1
  /\ command' = c
  /\ at' = IF c.op = "fold" THEN "fold" ELSE "width"
  /\ known' = IF c.op = "fold" /\ c.status = "unknown" THEN known ELSE ability
  /\ UNCHANGED <<app_vars, engine, tasks>>

Finish == at' = "idle" /\ command' = NoCommand

FoldStatusChanged ==
  /\ at = "fold"
  /\ screen' = [screen EXCEPT !.foldStatus = command.status]
  /\ IF command.status = "unknown" THEN Finish ELSE at' = "width" /\ command' = command
  /\ UNCHANGED <<app, args, engine, tasks, commands, known>>

\* The size the command gives the ability; an orientation takes it from the
\* application's width and height, which stay as they are.
Wanted == IF command.op = "orientation" THEN Swap(app.size) ELSE command.size

SetDeviceWidth ==
  /\ at = "width"
  /\ args' = [args EXCEPT !.size.w = Wanted.w]
  /\ at' = "height"
  /\ UNCHANGED <<screen, app, engine, tasks, command, commands, known>>

SetDeviceHeight ==
  /\ at = "height"
  /\ args' = [args EXCEPT !.size.h = Wanted.h]
  /\ at' = "set"
  /\ UNCHANGED <<screen, app, engine, tasks, command, commands, known>>

\* SetResolutionParams, for a resolution and for a fold, which has one size,
\* and its end, where the orientation follows.
SetResolutionParams ==
  /\ at = "set" /\ command.op \in {"resolution", "fold"}
  /\ LET original == IF command.op = "fold" THEN command.size ELSE command.original
     IN args' = [args EXCEPT !.density = Density(args.size.w, original.w)]
  /\ app' = [app EXCEPT !.size = command.size]
  /\ at' = "fit"
  /\ UNCHANGED <<screen, engine, tasks, command, commands, known>>

SetDeviceOrientation ==
  /\ at = "fit"
  /\ app' = [app EXCEPT !.orientation = Fitting(command.size)]
  /\ args' = [args EXCEPT !.orientation = Fitting(command.size)]
  /\ screen' = [screen EXCEPT !.current = args.size]
  /\ at' = "test"
  /\ UNCHANGED <<engine, tasks, command, commands, known>>

OrientationChanged ==
  /\ at = "set" /\ command.op = "orientation"
  /\ screen' = [screen EXCEPT !.original = Swap(@), !.compressed = Swap(@)]
  /\ args' = [args EXCEPT !.density = Density(args.size.w, args.size.w),
                          !.orientation = command.orientation]
  /\ app' = [app EXCEPT !.orientation = command.orientation]
  /\ at' = "test"
  /\ UNCHANGED <<engine, tasks, command, commands, known>>

ParseSystemParams ==
  /\ at = "set" /\ command.op = "document"
  /\ app' = [app EXCEPT !.size = args.size]
  /\ args' = [args EXCEPT !.density = Density(args.size.w, args.size.w),
                          !.orientation = command.orientation]
  /\ at' = "post"
  /\ UNCHANGED <<screen, engine, tasks, command, commands, known>>

TestAbility ==
  /\ at = "test"
  /\ IF ability THEN at' = "post" /\ command' = command ELSE Finish
  /\ UNCHANGED <<app_vars, engine, tasks, commands, known>>

\* Mutant of PostTask: nothing is posted for an orientation.
PostTaskResolution ==
  /\ at = "post"
  /\ tasks' = IF command.op = "orientation" THEN tasks ELSE Append(tasks, "args")
  /\ at' = "surface"
  /\ UNCHANGED <<app_vars, engine, command, commands, known>>

\* Mutant of PostTask: an orientation's task reads the arguments.
PostTaskArgs ==
  /\ at = "post"
  /\ tasks' = Append(tasks, "args")
  /\ at' = "surface"
  /\ UNCHANGED <<app_vars, engine, command, commands, known>>

PostTask ==
  /\ at = "post"
  /\ tasks' = Append(tasks, IF command.op = "orientation" THEN "app" ELSE "args")
  /\ at' = "surface"
  /\ UNCHANGED <<app_vars, engine, command, commands, known>>

\* AceAbility::SurfaceChanged or LoadDocument.
SurfaceChanged ==
  /\ at = "surface"
  /\ ability
  /\ surface' = args
  /\ Finish
  /\ UNCHANGED <<app_vars, window, ability, main, info, tasks, commands, known>>

\* A document without an ability is loaded through the null pointer.
LoadDocumentCrashes ==
  /\ at = "surface"
  /\ ~ability
  /\ main' = "crashed"
  /\ at' = "crashed"
  /\ UNCHANGED <<app_vars, window, ability, surface, info, tasks, command, commands, known>>

Run ==
  \/ FoldStatusChanged \/ SetDeviceWidth \/ SetDeviceHeight
  \/ SetResolutionParams \/ SetDeviceOrientation
  \/ OrientationChanged \/ ParseSystemParams
  \/ TestAbility \/ PostTask \/ SurfaceChanged \/ LoadDocumentCrashes

DisplayNext ==
  \/ Main
  \/ Answer \/ \E c \in Command : Begin(c)
  \/ Run

DisplaySpec == DisplayInit /\ [][DisplayNext]_display_vars
(* The main loop and the command thread are scheduled; no command has to   *)
(* come.                                                                   *)
DisplayFairSpec == DisplaySpec /\ WF_display_vars(Main) /\ WF_display_vars(Run)

----------------------------------------------------------------------------

Settled == at = "idle" /\ known /\ tasks = <<>>

(* Whatever commands follow each other while earlier tasks still wait, the *)
(* window ends with the width and height the application has, provided     *)
(* that the last command found the ability.                                *)
WindowSettles == Settled => window = app.size

(* The window reaches that size unless another command comes.              *)
WindowFollows == (at = "idle" /\ known) ~> (window = app.size \/ at # "idle")

(* What a test says of the arguments, JsAppImplTest.cpp:174-189: portrait  *)
(* where the width is not above the height, landscape where it is.  (A     *)
(* document brings an orientation of its own.)                             *)
OrientationFitsSize == Settled => args.orientation = Fitting(args.size)

=============================================================================
