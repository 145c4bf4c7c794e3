---------------------------- MODULE DevicePreviewer ----------------------------
(***************************************************************************)
(* The device behind the commands.  The main thread of either previewer    *)
(* runs the commands of the configuration file and starts the application; *)
(* the commands of the IDE run on the main thread of the lite previewer    *)
(* after that, and on a thread of their own in the rich one, from the      *)
(* first moment.  The JS thread of the lite previewer reads the same       *)
(* device, cell after cell, and sets parts of it.                          *)
(***************************************************************************)
EXTENDS DeviceCommands

CONSTANTS
  Settings,       \* how the previewer is started
  Configurations, \* the commands of the configuration file, in order
  Requests,       \* the commands of the IDE: per lite or rich previewer
  AppValues,      \* numbers the application sets as brightness and as its mode
  MaxRequests     \* bound: commands of the IDE and sets of the application

ASSUME DeviceAssumption ==
  IntMax >= 999999 /\ MaxRequests \in Nat /\ AppValues \subseteq 0..255

Threads == {"main", "command"}

VARIABLES
  setting,   \* the one of Settings
  cells,     \* SharedData, input mocks, screen, application
  main,      \* where the main thread is
  held,      \* what it has copied
  config,    \* commands of the configuration still to run
  run,       \* per thread: the command it runs
  requests,  \* commands of the IDE and sets of the application so far
  js,        \* what the JS thread reads
  location,  \* VirtualLocation: checked, subscribed; and what the application was told
  said,      \* history: what the accepted commands asked of the cells the JS thread reads
  repeated,  \* history: a coordinate was asked for twice
  asked,     \* history: coordinates asked for
  stirred    \* history: a colour was set while main copied it, or by a document

device_vars == <<setting, cells, main, held, config, run, requests, js, location, said,
                 repeated, asked, stirred>>
ghosts == <<said, repeated, asked, stirred>>

NoRequest == [command |-> "none", type |-> "none", args |-> Null]
NoCells == [c \in {} |-> 0]
With(f, c, v) == [d \in DOMAIN f \cup {c} |-> IF d = c THEN v ELSE f[d]]
Idle == [request |-> NoRequest, writes |-> <<>>, answer |-> "none", landed |-> NoCells]
JsIdle == [job |-> "none", todo |-> <<>>, got |-> NoCells, clean |-> TRUE]
LocationCells == <<"LATITUDE", "LONGITUDE">>
MouseCells == <<"x", "y", "touchAction">>
ReadCells == {"LATITUDE", "LONGITUDE", "x", "y", "touchAction", "BATTERY_LEVEL", "BATTERY_STATUS"}
Start == [position |-> [LATITUDE |-> 0, LONGITUDE |-> 0], size |-> [w |-> 0, h |-> 0]]

Members ==
  [x |-> 0, y |-> 0, touchAction |-> 0, rotate |-> 0, codePoint |-> 0,
   pointer |-> NoPointer, key |-> NoKey, engine |-> [kind |-> "none"], message |-> "",
   size |-> Start.size, orientation |-> "portrait", foldStatus |-> "",
   colorMode |-> "", argsColor |-> "light", shownColor |-> "light", page |-> "",
   avoidAreas |-> Null, dropFrameFrequency |-> 0,
   registered |-> FALSE, ability |-> FALSE, interrupted |-> FALSE, failed |-> FALSE]
Cells == DataItems \cup DOMAIN Members
StartCells(s) ==
  [c \in Cells |->
    CASE c = "LANGUAGE" /\ ~s.lite -> "zh_CN"
      [] c \in DOMAIN Members -> Members[c]
      [] OTHER -> InitSharedData[c].value]

DeviceInit ==
  /\ setting \in Settings /\ cells = StartCells(setting)
  /\ main = "resolution" /\ held = "" /\ config \in Configurations
  /\ run = [t \in Threads |-> Idle] /\ requests = 0
  /\ js = JsIdle
  /\ location = [checked |-> Start.position, told |-> Start.position, subscribed |-> FALSE]
  /\ said = [c \in ReadCells |-> cells[c]]
  /\ repeated = FALSE /\ asked = {} /\ stirred = FALSE

Alive == ~cells["failed"]
Rests(t) == run[t].answer = "none"

(***************************************************************************)
(* What an answer of true says was done.  Of a static screen it says       *)
(* nothing.                                                                *)
(***************************************************************************)
Entries ==
  [Power |-> "BATTERY_LEVEL", Barometer |-> "PRESSURE_VALUE",
   KeepScreenOnState |-> "KEEP_SCREEN_ON", WearingState |-> "WEARING_STATE",
   BrightnessMode |-> "BRIGHTNESS_MODE", ChargeMode |-> "BATTERY_STATUS",
   Brightness |-> "BRIGHTNESS_VALUE", HeartRate |-> "HEARTBEAT_VALUE",
   StepCount |-> "SUMSTEP_VALUE", Language |-> "LANGUAGE"]
EightBits == {"BrightnessMode", "ChargeMode", "Brightness", "HeartRate"}
Meant(c, v) ==
  CASE c \in EightBits -> ToUint8(AsInt(v))
    [] c \in {"Barometer", "StepCount"} -> AsInt(v)
    [] c \in {"KeepScreenOnState", "WearingState"} -> AsBool(v)
    [] c = "Language" -> AsString(v)
    [] c = "Power" -> AsDouble(v)
TouchTypes == [MousePress |-> 0, MouseRelease |-> 1, MouseMove |-> 2, PointEvent |-> 9]
LiteTouchTypes == [MousePress |-> 1, MouseRelease |-> 0, PointEvent |-> 8]
X(r) == AsDouble(Member(r.args, "x"))
Y(r) == AsDouble(Member(r.args, "y"))
PointerOf(r) ==
  [(IF r.command = "PointEvent" THEN AskedPointer(r.args) ELSE Finger)
     EXCEPT !.sourceTool = ConvertToOsTool(@)]

AskedTouch(r) ==
  CASE ~setting.lite ->
         [engine |-> [kind |-> "pointer",
                      of |-> [x |-> X(r), y |-> Y(r), type |-> TouchTypes[r.command],
                              pointer |-> PointerOf(r)]]]
    [] setting.lite /\ r.command \in DOMAIN LiteTouchTypes ->
         [x |-> X(r), y |-> Y(r), touchAction |-> LiteTouchTypes[r.command]]
    [] OTHER -> [x |-> X(r), y |-> Y(r)]
AskedKey(r) ==
  [engine |-> IF IsIme(r.args) THEN [kind |-> "inputMethod", of |-> AsInt(Member(r.args, "codePoint"))]
              ELSE [kind |-> "key", of |-> SetKeyEvent(r.args)]]
Asked(r) ==
  CASE r.type = "set" /\ r.command \in DOMAIN Entries ->
         [c \in {Entries[r.command]} |-> Meant(r.command, Member(r.args, r.command))]
    [] r.type = "set" /\ r.command = "Location" ->
         [LATITUDE |-> Degrees(r.args, "latitude"), LONGITUDE |-> Degrees(r.args, "longitude")]
    [] r.type = "action" /\ ~setting.static /\ r.command \in DOMAIN TouchTypes -> AskedTouch(r)
    [] r.type = "action" /\ ~setting.static /\ r.command = "KeyPress" -> AskedKey(r)
    [] OTHER -> NoCells

(***************************************************************************)
(* Running a command                                                       *)
(***************************************************************************)
Offline == "Volume"
Getters == DOMAIN Entries \cup {"Location", "SupportedLanguages"}
Actions == {"MousePress", "MouseRelease", "MouseMove", "PointEvent", "CrownRotate", "KeyPress",
            "BackClicked", "DistributedCommunications", "inspector", "inspectorDefault", "exit"}
Setters == DOMAIN Entries \cup
  {"Location", "ResolutionSwitch", "Orientation", "ColorMode", "FoldStatus", "AvoidArea",
   "FontSelect", "MemoryRefresh", "ReloadRuntimePage", "DropFrame", "LoadDocument"}
\* What SendResult sends after Run: what a command without a result for its
\* type leaves is an empty object.
Answer(r) ==
  CASE r.type # "action" /\ r.command = Offline -> "offline"
    [] r.type = "get" /\ r.command \in Getters -> "value"
    [] r.type = "action" /\ r.command \in {"CrownRotate", "KeyPress"} /\ setting.static -> "empty"
    [] r.type = "action" /\ r.command \in {"inspector", "inspectorDefault"} -> "value"
    [] r.type = "set" /\ r.command = "MemoryRefresh" -> "value"
    [] r.type = "action" /\ r.command \in Actions -> "true"
    [] r.type = "set" /\ r.command \in Setters -> "true"
    [] OTHER -> "empty"

Executor == IF setting.lite THEN "main" ELSE "command"
Working(r, writes, answer) ==
  [request |-> r, writes |-> writes, answer |-> answer, landed |-> NoCells]

Writes(writes) == {writes[j].cell : j \in DOMAIN writes}
Colours == {"colorMode", "argsColor", "shownColor"}
UnderWay(which) == \E t \in Threads : Writes(run[t].writes) \cap which # {}
Copying == {"args", "create", "assign"}
\* A document may replace the colours; a change of the mode brings all in line.
Stirs(r, writes) ==
  IF Writes(writes) \cap Colours = {} THEN stirred
  ELSE r.command = "LoadDocument" \/ main \in Copying \/ (stirred /\ ~cells["ability"])

Coordinates(a) == {Put(c, a[c]) : c \in DOMAIN a \cap {"LATITUDE", "LONGITUDE"}}
Remember(r) ==
  LET a == Asked(r) IN
    /\ said' = [c \in ReadCells |-> IF c \in DOMAIN a THEN a[c] ELSE said[c]]
    /\ repeated' = (repeated \/ Coordinates(a) \cap (asked \cup Coordinates(Start.position)) # {})
    /\ asked' = asked \cup Coordinates(a)
Disturb(written) ==
  js' = [js EXCEPT !.clean = @ /\ written \cap (Writes([j \in DOMAIN js.todo |-> Put(js.todo[j], 0)])
                                                  \cup DOMAIN js.got) = {}]

\* ApplyConfigMembers: a command that is not known or not valid is skipped.
BeginConfig ==
  /\ Alive /\ main = "config" /\ config # <<>> /\ Rests("main")
  /\ config' = Tail(config)
  /\ LET r == [command |-> Head(config).command, type |-> "set", args |-> Head(config).args]
         set == RunSet(r.command, r.args, cells, setting) IN
       IF r.command \in InitCommandMap(setting) /\ set.valid
         THEN /\ run' = [run EXCEPT !["main"] = Working(r, set.writes, "silent")]
              /\ Remember(r) /\ stirred' = Stirs(r, set.writes)
         ELSE UNCHANGED <<run, ghosts>>
  /\ UNCHANGED <<setting, cells, main, held, requests, js, location>>

\* CreateCommandLine and CheckAndRun, up to the first write.
BeginRequest(r) ==
  /\ Alive /\ ~cells["interrupted"] /\ requests < MaxRequests /\ requests' = requests + 1
  /\ setting.lite => main = "loop"
  /\ Rests(Executor)
  /\ LET runs == RunOf(r.command, r.type, r.args, cells, setting) IN
       CASE r.command \notin InitCommandMap(setting) ->
              /\ run' = [run EXCEPT ![Executor] = Working(r, <<>>, "unsupported")]
              /\ UNCHANGED <<js, ghosts>>
         [] r.command \in InitCommandMap(setting) /\ ~runs.valid ->
              /\ run' = [run EXCEPT ![Executor] = Working(r, <<>>, "false")]
              /\ UNCHANGED <<js, ghosts>>
         [] OTHER ->
              /\ run' = [run EXCEPT ![Executor] = Working(r, runs.writes, Answer(r))]
              /\ Remember(r) /\ stirred' = Stirs(r, runs.writes)
              /\ Disturb(Writes(runs.writes))
  /\ UNCHANGED <<setting, cells, main, held, config, location>>

\* One write.  SetData refuses what is out of range, and nobody looks at that.
SetData(item, value) == IF IsValid(item, value) THEN value ELSE cells[item]
Landing(w) ==
  CASE w.cell \in DataItems -> SetData(w.cell, w.value)
    [] w.cell = "touchAction" -> TouchAction(w.value, cells, setting)
    [] w.cell = "engine" -> Event(w.value, cells)
    [] w.cell = "message" -> IF cells["registered"] THEN w.value ELSE cells["message"]
    [] w.cell = "shownColor" -> cells[IF cells["ability"] THEN "argsColor" ELSE "shownColor"]
    [] OTHER -> w.value
\* The rich previewer hands events and documents to the ability without asking
\* whether there is one.
LosesAbility(w) == w.cell = "engine" /\ ~setting.lite /\ ~cells["ability"]
Write(t) ==
  /\ Alive /\ run[t].writes # <<>>
  /\ LET w == Head(run[t].writes) IN
       IF LosesAbility(w)
         THEN cells' = [cells EXCEPT !["failed"] = TRUE] /\ UNCHANGED run
         ELSE /\ cells' = [cells EXCEPT ![w.cell] = Landing(w)]
              /\ run' = [run EXCEPT ![t].writes = Tail(@),
                                    ![t].landed = With(@, w.cell, Landing(w))]
  /\ UNCHANGED <<setting, main, held, config, requests, js, location, ghosts>>
SendResult(t) ==
  /\ Alive /\ ~Rests(t) /\ run[t].writes = <<>>
  /\ run' = [run EXCEPT ![t] = Idle]
  /\ UNCHANGED <<setting, cells, main, held, config, requests, js, location, ghosts>>

(***************************************************************************)
(* The main thread                                                         *)
(***************************************************************************)
Goes(from, to) == Alive /\ Rests("main") /\ main = from /\ main' = to
Rest == <<setting, config, run, requests, js, location, said, repeated, asked>>

InitResolution ==
  /\ Goes("resolution", "config")
  /\ cells' = [cells EXCEPT !["size"] = setting.size]
  /\ UNCHANGED <<Rest, held, stirred>>
EndConfig ==
  /\ Goes("config", "init") /\ config = <<>>
  /\ UNCHANGED <<Rest, cells, held, stirred>>

\* The lite previewer starts its JS thread; the options of the rich one replace
\* what the configuration set.
InitJsApp ==
  /\ Goes("init", IF setting.lite THEN "loop" ELSE "copy")
  /\ cells' = IF setting.lite THEN cells
              ELSE [cells EXCEPT
                !["colorMode"] = IF setting.color = "" THEN @ ELSE setting.color,
                !["foldStatus"] = IF setting.fold = "" THEN @ ELSE setting.fold,
                !["orientation"] = IF setting.size.w <= setting.size.h THEN "portrait" ELSE "landscape"]
  /\ UNCHANGED <<Rest, held, stirred>>

\* SetJsAppArgs copies a string that the command thread may be assigning.
CopyColorMode ==
  /\ Goes("copy", "args")
  /\ held' \in IF "colorMode" \in Writes(run["command"].writes) THEN ColorModes
              ELSE {cells["colorMode"]}
  /\ stirred' = (stirred \/ UnderWay(Colours))
  /\ UNCHANGED <<Rest, cells>>
SetColorModeNever == Goes("args", "create") /\ UNCHANGED <<Rest, cells, held, stirred>>
SetColorMode ==
  /\ Goes("args", "create")
  /\ cells' = [cells EXCEPT !["argsColor"] = IF held = "dark" THEN "dark" ELSE "light"]
  /\ UNCHANGED <<Rest, held, stirred>>
CreateInstance ==
  /\ Goes("create", "assign") /\ held' = cells["argsColor"]
  /\ UNCHANGED <<Rest, cells, stirred>>
AssignAbility ==
  /\ Goes("assign", "loop")
  /\ cells' = [cells EXCEPT !["ability"] = TRUE, !["shownColor"] = held]
  /\ UNCHANGED <<Rest, held, stirred>>

(***************************************************************************)
(* The JS thread of the lite previewer                                     *)
(***************************************************************************)
JobCells ==
  [battery |-> <<"BATTERY_LEVEL", "BATTERY_STATUS">>, location |-> LocationCells,
   subscribe |-> LocationCells, tell |-> LocationCells, check |-> <<"LONGITUDE", "LATITUDE">>,
   input |-> MouseCells, wheel |-> <<"rotate">>]
AppJobs == {"battery", "location", "subscribe"}
TimerJobs == {"check", "input", "wheel"}
Unmoved == <<setting, main, held, config, run, ghosts>>
Quiet == <<Unmoved, requests>>
JsRuns == Alive /\ setting.lite /\ main = "loop"

Job(job) ==
  [job |-> job, todo |-> JobCells[job], got |-> NoCells,
   clean |-> ~UnderWay({JobCells[job][j] : j \in DOMAIN JobCells[job]})]
StartJob(job) ==
  /\ JsRuns /\ js = JsIdle /\ js' = Job(job)
  /\ UNCHANGED <<Quiet, cells, location>>

\* The engine's point has no fractions.
Cut(c, n) == IF c \in {"x", "y", "rotate"} THEN AsInt([kind |-> "number", halves |-> n]) ELSE n
Read ==
  /\ JsRuns /\ js.todo # <<>>
  /\ LET c == Head(js.todo) IN
       js' = [js EXCEPT !.todo = Tail(@), !.got = With(@, c, Cut(c, cells[c]))]
  /\ UNCHANGED <<Quiet, cells, location>>

Done(jobs) == JsRuns /\ js.job \in jobs /\ js.todo = <<>>
EndRead ==
  /\ Done({"battery", "location", "input"}) /\ js' = JsIdle
  /\ UNCHANGED <<Quiet, cells, location>>
EndWheel ==
  /\ Done({"wheel"}) /\ js' = JsIdle
  /\ cells' = [cells EXCEPT !["rotate"] = 0]
  /\ UNCHANGED <<Quiet, location>>
\* CheckDevice
CheckDevice ==
  /\ Done({"check"})
  /\ location' = [location EXCEPT !.checked = js.got]
  /\ js' = IF js.got # location.checked /\ location.subscribed THEN Job("tell") ELSE JsIdle
  /\ UNCHANGED <<Quiet, cells>>
ExecCallBack ==
  /\ Done({"tell"}) /\ js' = JsIdle
  /\ location' = [location EXCEPT !.told = js.got]
  /\ UNCHANGED <<Quiet, cells>>
SubGeoLocationUntold ==
  /\ Done({"subscribe"}) /\ js' = JsIdle
  /\ location' = [location EXCEPT !.subscribed = TRUE]
  /\ UNCHANGED <<Quiet, cells>>
SubGeoLocation ==
  /\ Done({"subscribe"}) /\ js' = JsIdle
  /\ location' = [location EXCEPT !.told = js.got, !.subscribed = TRUE]
  /\ UNCHANGED <<Quiet, cells>>
UnSubGeoLocation ==
  /\ JsRuns /\ js = JsIdle /\ location.subscribed
  /\ location' = [location EXCEPT !.subscribed = FALSE]
  /\ UNCHANGED <<Quiet, cells, js>>
AppSets(item, value) ==
  /\ JsRuns /\ js = JsIdle /\ requests < MaxRequests /\ requests' = requests + 1
  /\ cells' = [cells EXCEPT ![item] = SetData(item, value)]
  /\ UNCHANGED <<Unmoved, js, location>>

RegistBundle(registered) ==
  /\ JsRuns /\ js = JsIdle /\ requests < MaxRequests /\ requests' = requests + 1
  /\ cells' = [cells EXCEPT !["registered"] = registered]
  /\ UNCHANGED <<Unmoved, js, location>>

DeviceNext ==
  \/ InitResolution \/ BeginConfig \/ EndConfig \/ InitJsApp
  \/ CopyColorMode \/ SetColorMode \/ CreateInstance \/ AssignAbility
  \/ \E r \in Requests[setting.lite] : BeginRequest(r)
  \/ \E t \in Threads : Write(t) \/ SendResult(t)
  \/ \E job \in AppJobs \cup TimerJobs : StartJob(job)
  \/ Read \/ EndRead \/ EndWheel \/ CheckDevice \/ ExecCallBack
  \/ SubGeoLocation \/ UnSubGeoLocation
  \/ \E v \in AppValues : AppSets("BRIGHTNESS_VALUE", v) \/ AppSets("BRIGHTNESS_MODE", v)
  \/ AppSets("KEEP_SCREEN_ON", FALSE)
  \/ \E registered \in BOOLEAN : RegistBundle(registered)

DeviceSpec == DeviceInit /\ [][DeviceNext]_device_vars

(***************************************************************************)
(* Properties                                                              *)
(***************************************************************************)
\* Every command that is answered with true has done what it asked for: the
\* range is tested on the value that is set, so SetData cannot refuse it behind
\* the answer's back, and an event reaches the engine with the members of its
\* own command only (CommandLine.cpp CheckAndRun, RunSet, SetEventParams).
AcceptedIsDone ==
  \A t \in Threads : run[t].answer = "true" /\ run[t].writes = <<>> =>
    LET a == Asked(run[t].request) IN
      \A c \in DOMAIN a : c \in DOMAIN run[t].landed /\ run[t].landed[c] = a[c]

\* What the JS thread reads cell after cell while no command that sets them is
\* running is exactly what the last accepted commands asked for
\* (BatteryModuleImpl, GeoLocation SerializeLocData, lite MouseInputImpl Read).
UndisturbedReadIsExact ==
  Done({"battery", "location", "input"}) /\ js.clean =>
    \A c \in DOMAIN js.got : js.got[c] = Cut(c, said[c])

\* Location sets the longitude first and the application reads the latitude
\* first: with coordinates that do not come back, who reads the new latitude
\* reads the new longitude (CommandLine.cpp:907, GeoLocation.cpp:93).
NewLatitudeNewLongitude ==
  /\ ~repeated /\ Done({"location", "tell", "subscribe"})
  /\ js.got["LATITUDE"] = said["LATITUDE"]
  => js.got["LONGITUDE"] = said["LONGITUDE"]

\* A subscribed application is told the position that holds: once the check has
\* seen it, and with coordinates that do not come back, no torn or old position
\* stays with the application (VirtualLocation.cpp IsPostionChanged,
\* TimerTaskHandler.cpp CheckDevice, GeoLocation.cpp SubGeoLocation).
PositionIsTold ==
  LET held_position == [c \in {"LATITUDE", "LONGITUDE"} |-> cells[c]] IN
    /\ ~repeated /\ location.subscribed /\ js = JsIdle
    /\ ~UnderWay({"LATITUDE", "LONGITUDE"}) /\ location.checked = held_position
    => location.told = held_position

\* However the colour modes of the configuration, of the options and of the IDE
\* were set by two threads before, the application starts in the mode that the
\* next ColorMode command is compared with, and follows it from then on.  Left
\* out are a change sent while the main thread copies the colour and creates
\* the ability, and a document that brings its own (RichPreviewer.cpp:119-123,
\* JsAppImpl.cpp:152-163, 184, 256).
ColoursAgree ==
  cells["ability"] /\ ~UnderWay(Colours) /\ ~stirred =>
    /\ cells["shownColor"] = cells["argsColor"]
    /\ cells["argsColor"] = IF cells["colorMode"] = "dark" THEN "dark" ELSE "light"
==============================================================================
