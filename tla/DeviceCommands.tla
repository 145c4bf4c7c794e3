---------------------------- MODULE DeviceCommands ----------------------------
(***************************************************************************)
(* The commands of the IDE (the subclasses of CommandLine): what arguments *)
(* each takes, and what running it writes, in the order it is written.  A  *)
(* command is given the cells d that hold the device (the entries of       *)
(* SharedData, the members of the input mocks, of the screen and of the    *)
(* application) and the setting s the previewer was started with.          *)
(* Numbers of JSON and the doubles of the device are counted in halves.    *)
(***************************************************************************)
EXTENDS Integers, Sequences

CONSTANTS
  IntMax,        \* INT32_MAX
  Decimal,       \* texts with digits and a point |-> what atof makes of them
  RichLanguages, \* richSupportedLanguages
  SourceTools    \* SourceTool of the engine; UNKNOWN is 0

(***************************************************************************)
(* Json2::Value.  The type tests look at the range only: 1.5 is an int,    *)
(* and AsInt cuts it.                                                      *)
(***************************************************************************)
Null == [kind |-> "null"]
IsMember(a, name) == a.kind = "object" /\ name \in DOMAIN a.members
Member(a, name) == IF IsMember(a, name) THEN a.members[name] ELSE Null
IsDouble(v) == v.kind = "number"
IsInt(v) == IsDouble(v) /\ v.halves \in -(2 * IntMax + 2) .. 2 * IntMax
IsUInt(v) == IsDouble(v) /\ v.halves \in 0 .. 4 * IntMax + 2
IsString(v) == v.kind = "string"
IsBool(v) == v.kind = "bool"
IsArray(v) == v.kind = "array"
IsObject(v) == v.kind = "object"
AsDouble(v) == IF IsDouble(v) THEN v.halves ELSE 0
AsInt(v) == IF AsDouble(v) >= 0 THEN AsDouble(v) \div 2 ELSE -((-AsDouble(v)) \div 2)
AsString(v) == IF IsString(v) THEN v.text ELSE ""
AsBool(v) == IsBool(v) /\ v.truth
Items(v) == IF IsArray(v) THEN v.items ELSE <<>>
Ints(a, names) == \A name \in names : IsInt(Member(a, name))
Within(a, names, range) == \A name \in names : AsInt(Member(a, name)) \in range

(***************************************************************************)
(* The cells                                                               *)
(***************************************************************************)
Put(cell, value) == [cell |-> cell, value |-> value]
Run(valid, writes) == [valid |-> valid, writes |-> writes]

\* InitSharedData of the lite previewer; min = max: no range.
Data(value, min, max) == [value |-> value, min |-> min, max |-> max]
InitSharedData ==
  [BRIGHTNESS_VALUE |-> Data(255, 1, 255), BRIGHTNESS_MODE |-> Data(0, 0, 1),
   KEEP_SCREEN_ON |-> Data(TRUE, 0, 0), BATTERY_STATUS |-> Data(0, 0, 1),
   BATTERY_LEVEL |-> Data(2, 0, 2), HEARTBEAT_VALUE |-> Data(80, 0, 255),
   SUMSTEP_VALUE |-> Data(0, 0, 999999), PRESSURE_VALUE |-> Data(101325, 0, 999900),
   WEARING_STATE |-> Data(TRUE, 0, 0), LANGUAGE |-> Data("zh-CN", 0, 0),
   LONGITUDE |-> Data(0, -360, 360), LATITUDE |-> Data(0, -180, 180)]
DataItems == DOMAIN InitSharedData
IsValid(item, v) ==
  LET entry == InitSharedData[item] IN entry.min # entry.max => v \in entry.min .. entry.max

(***************************************************************************)
(* Commands that set one entry of SharedData                               *)
(***************************************************************************)
ToUint8(n) == n % 256
Request(item, valid, value) == Run(valid /\ IsValid(item, value), <<Put(item, value)>>)

PowerCommand(v) == Request("BATTERY_LEVEL", IsDouble(v), AsDouble(v))
BarometerCommand(v) == Request("PRESSURE_VALUE", IsUInt(v), AsInt(v))
KeepScreenOnStateCommand(v) == Request("KEEP_SCREEN_ON", IsBool(v), AsBool(v))
WearingStateCommand(v) == Request("WEARING_STATE", IsBool(v), AsBool(v))
BrightnessModeUncut(v) == Run(IsInt(v) /\ IsValid("BRIGHTNESS_MODE", ToUint8(AsInt(v))),
                              <<Put("BRIGHTNESS_MODE", AsInt(v))>>)
BrightnessModeCommand(v) == Request("BRIGHTNESS_MODE", IsInt(v), ToUint8(AsInt(v)))
ChargeModeCommand(v) == Request("BATTERY_STATUS", IsInt(v), ToUint8(AsInt(v)))
BrightnessCommand(v) == Request("BRIGHTNESS_VALUE", IsInt(v), ToUint8(AsInt(v)))
\* Only what is too large is refused before it is cut: -1 is a rate of 255.
HeartRateCommand(v) ==
  Request("HEARTBEAT_VALUE", IsInt(v) /\ AsInt(v) <= 255, ToUint8(AsInt(v)))
\* RunSet tests for an int, which every number of the range is.
StepCountCommand(v) == Request("SUMSTEP_VALUE", IsUInt(v), AsInt(v))

SupportedLanguages(s) == IF s.lite THEN {"zh-CN", "en-US"} ELSE RichLanguages
LanguageCommand(v, s) ==
  Request("LANGUAGE", IsString(v) /\ AsString(v) \in SupportedLanguages(s), AsString(v))

\* The texts are checked, latitude first; set is longitude first.
LocationTexts(a) == {AsString(Member(a, "latitude")), AsString(Member(a, "longitude"))}
Degrees(a, name) ==
  LET text == AsString(Member(a, name)) IN IF text \in DOMAIN Decimal THEN Decimal[text] ELSE 0
LocationValid(a) ==
  /\ LocationTexts(a) \subseteq DOMAIN Decimal
  /\ IsValid("LATITUDE", Degrees(a, "latitude")) /\ IsValid("LONGITUDE", Degrees(a, "longitude"))
LocationLatitudeFirst(a) ==
  Run(LocationValid(a), <<Put("LATITUDE", Degrees(a, "latitude")),
                          Put("LONGITUDE", Degrees(a, "longitude"))>>)
LocationCommand(a) ==
  Run(LocationValid(a), <<Put("LONGITUDE", Degrees(a, "longitude")),
                          Put("LATITUDE", Degrees(a, "latitude"))>>)

(***************************************************************************)
(* Input.  A touch sets the members of MouseInputImpl one after the other  *)
(* and then has them dispatched; of a static screen nothing is set, but    *)
(* the answer is the same.                                                 *)
(***************************************************************************)
Pointer(button, action, sourceType, sourceTool, pressed, axis) ==
  [button |-> button, action |-> action, sourceType |-> sourceType, sourceTool |-> sourceTool,
   pressed |-> pressed, axis |-> axis]
Finger == Pointer(-1, 0, 2, 1, {}, <<>>)
NoPointer == Pointer(0, 0, 0, 0, {}, <<>>)
OnScreen(a, d) ==
  /\ Ints(a, {"x", "y"})
  /\ AsInt(Member(a, "x")) \in 0 .. d["size"].w /\ AsInt(Member(a, "y")) \in 0 .. d["size"].h

SetEventParams(a, type, pointer, s) ==
  IF s.static THEN <<>>
  ELSE <<Put("x", AsDouble(Member(a, "x"))), Put("y", AsDouble(Member(a, "y"))),
         Put("touchAction", type), Put("pointer", pointer)>>
         \o IF s.lite THEN <<>> ELSE <<Put("engine", "pointer")>>
TouchCommand(a, type, d, s) == Run(OnScreen(a, d), SetEventParams(a, type, Finger, s))
TouchPressCommand(a, d, s) == TouchCommand(a, 0, d, s)
TouchReleaseCommand(a, d, s) == TouchCommand(a, 1, d, s)
TouchMoveCommand(a, d, s) == TouchCommand(a, 2, d, s)

\* SetMouseStatus: the lite engine counts the other way round and has no move.
TouchActionAlways(type, d, s) ==
  CASE ~s.lite -> type
    [] OTHER -> IF type % 2 = 0 THEN type + 1 ELSE type - 1
TouchAction(type, d, s) ==
  CASE ~s.lite -> type
    [] s.lite /\ type = 2 -> d["touchAction"]
    [] OTHER -> IF type % 2 = 0 THEN type + 1 ELSE type - 1

IsArgsExist(a) ==
  Ints(a, {"x", "y", "button", "action", "sourceType", "sourceTool"})
    /\ IsArray(Member(a, "axisValues"))
IsArgsValid(a, d) ==
  /\ OnScreen(a, d)
  /\ AsInt(Member(a, "button")) >= -1
  /\ \A name \in {"action", "sourceType", "sourceTool"} : AsInt(Member(a, name)) >= 0
  /\ \A j \in DOMAIN Items(Member(a, "axisValues")) : IsDouble(Member(a, "axisValues").items[j])
PressedButtons(a) ==
  LET items == Items(Member(a, "pressedButtons")) IN
    {AsInt(items[j]) : j \in {k \in DOMAIN items : IsInt(items[k]) /\ AsInt(items[k]) >= -1}}
AskedPointer(a) ==
  Pointer(AsInt(Member(a, "button")), AsInt(Member(a, "action")), AsInt(Member(a, "sourceType")),
          AsInt(Member(a, "sourceTool")), PressedButtons(a),
          [j \in DOMAIN Items(Member(a, "axisValues")) |-> AsDouble(Member(a, "axisValues").items[j])])
PointEventCommand(a, d, s) ==
  Run(IsArgsExist(a) /\ IsArgsValid(a, d), SetEventParams(a, 9, AskedPointer(a), s))

\* CrownRotate and KeyPress leave the answer empty on a static screen.
MouseWheelCommand(a, s) ==
  Run(IsDouble(Member(a, "rotate")),
      IF s.static THEN <<>> ELSE <<Put("rotate", AsDouble(Member(a, "rotate")))>>)
Keys == 2000..2119
IsImeArgsValid(a) == IsInt(Member(a, "codePoint"))
IsKeyArgsValid(a) ==
  /\ Ints(a, {"keyCode", "keyAction"})
  /\ Len(Items(Member(a, "pressedCodes"))) >= 1
  /\ IsMember(a, "keyString") => IsString(Member(a, "keyString"))
  /\ Within(a, {"keyAction"}, 0..2) /\ Within(a, {"keyCode"}, Keys)
  /\ \A j \in DOMAIN Items(Member(a, "pressedCodes")) :
       LET code == Member(a, "pressedCodes").items[j] IN IsInt(code) /\ AsInt(code) \in Keys
SetKeyEvent(a) ==
  [keyCode |-> AsInt(Member(a, "keyCode")), keyAction |-> AsInt(Member(a, "keyAction")),
   pressedCodes |-> [j \in DOMAIN Items(Member(a, "pressedCodes")) |->
                       AsInt(Member(a, "pressedCodes").items[j])],
   keyString |-> AsString(Member(a, "keyString"))]
NoKey == [keyCode |-> -1, keyAction |-> -1, pressedCodes |-> <<>>, keyString |-> ""]
IsIme(a) == AsBool(Member(a, "isInputMethod"))
KeyPressCommand(a, s) ==
  Run(IsBool(Member(a, "isInputMethod")) /\ IF IsIme(a) THEN IsImeArgsValid(a) ELSE IsKeyArgsValid(a),
      IF s.static THEN <<>>
      ELSE IF IsIme(a)
        THEN <<Put("codePoint", AsInt(Member(a, "codePoint"))), Put("engine", "inputMethod")>>
        ELSE <<Put("key", SetKeyEvent(a)), Put("engine", "key")>>)
BackClickedCommand == Run(TRUE, <<Put("engine", "back")>>)

\* What the engine is given of the members that hold then.
ConvertToOsTool(tool) == IF tool \in SourceTools THEN tool ELSE 0
Event(kind, d) ==
  [kind |-> kind,
   of |-> CASE kind = "pointer" -> [x |-> d["x"], y |-> d["y"], type |-> d["touchAction"],
                                    pointer |-> [d["pointer"] EXCEPT !.sourceTool = ConvertToOsTool(@)]]
            [] kind = "inputMethod" -> d["codePoint"]
            [] kind = "key" -> d["key"]
            [] OTHER -> kind]

\* VirtualMessageImpl hands the message to the callbacks that are registered.
DistributedCommunicationsCommand(a) ==
  Run(\A name \in {"DeviceId", "bundleName", "abilityName", "message"} :
        AsString(Member(a, name)) # "",
      <<Put("message", AsString(Member(a, "message")))>>)

(***************************************************************************)
(* Screen and application of the rich previewer                            *)
(***************************************************************************)
Lengths == 50..3000
Densities == 120..640
DocumentLengths == 20..3000
Resolutions == {"originWidth", "originHeight", "width", "height"}
Reasons == {"rotation", "resize", "undefined"}
Orientations == {"portrait", "landscape"}
ColorModes == {"light", "dark"}
LoadDocDevs == {"phone", "tablet", "wearable", "car", "tv", "2in1", "default"}
FoldStatuses == {"fold", "unfold", "unknown", "half_fold"}

\* SetResolutionParams: the orientation follows the sides, then the screen is told.
AskedSize(a) == [w |-> AsInt(Member(a, "width")), h |-> AsInt(Member(a, "height"))]
ResolutionChanged(a) ==
  <<Put("orientation", IF AskedSize(a).w <= AskedSize(a).h THEN "portrait" ELSE "landscape"),
    Put("size", AskedSize(a))>>
IsIntValValid(a) == Within(a, Resolutions, Lengths) /\ Within(a, {"screenDensity"}, Densities)
ResolutionSwitchCommand(a) ==
  Run(/\ Ints(a, Resolutions \cup {"screenDensity"}) /\ IsIntValValid(a)
      /\ IsMember(a, "reason") => AsString(Member(a, "reason")) \in Reasons,
      ResolutionChanged(a))
OrientationCommand(v, d) ==
  Run(AsString(v) \in Orientations,
      IF AsString(v) = d["orientation"] THEN <<>> ELSE <<Put("orientation", AsString(v))>>)
\* The name, the arguments of the ability, then the ability if there is one.
ColorModeCommand(v, d) ==
  Run(AsString(v) \in ColorModes,
      IF AsString(v) = d["colorMode"] THEN <<>>
      ELSE <<Put("colorMode", AsString(v)), Put("argsColor", AsString(v)),
             Put("shownColor", AsString(v))>>)
FoldStatusCommand(a, d) ==
  Run(/\ AsString(Member(a, "FoldStatus")) \in FoldStatuses
      /\ Ints(a, {"width", "height"}) /\ Within(a, {"width", "height"}, Lengths),
      CASE AsString(Member(a, "FoldStatus")) = d["foldStatus"] -> <<>>
        [] AsString(Member(a, "FoldStatus")) = "unknown" -> <<Put("foldStatus", "unknown")>>
        [] OTHER -> <<Put("foldStatus", AsString(Member(a, "FoldStatus")))>> \o ResolutionChanged(a))
IsObjectValid(rect) ==
  /\ Ints(rect, {"posX", "posY"}) /\ IsUInt(Member(rect, "width")) /\ IsUInt(Member(rect, "height"))
  /\ AsInt(Member(rect, "posX")) >= 0 /\ AsInt(Member(rect, "posY")) >= 0
Sides == {"topRect", "bottomRect", "leftRect", "rightRect"}
AvoidAreaCommand(a) ==
  Run(\A side \in Sides : IsObjectValid(Member(a, side)),
      <<Put("avoidAreas", [side \in Sides |-> Member(a, side)])>>)
FontSelectCommand(v) == Run(IsBool(v), <<>>)
MemoryRefreshCommand(a) == Run(a # Null, <<Put("engine", "refresh")>>)
ReloadRuntimePageCommand(v, d) ==
  Run(IsString(v), IF d["ability"] THEN <<Put("page", AsString(v))>> ELSE <<>>)
DropFrameCommand(v) == Run(IsInt(v) /\ AsInt(v) >= 0, <<Put("dropFrameFrequency", AsInt(v))>>)

\* A document brings its colours with it; they replace the ability's arguments.
IsStrValVailid(p, s) ==
  /\ AsString(Member(p, "locale")) \in SupportedLanguages(s)
  /\ AsString(Member(p, "colorMode")) \in ColorModes
  /\ AsString(Member(p, "orientation")) \in Orientations
  /\ AsString(Member(p, "deviceType")) \in LoadDocDevs
LoadDocumentCommand(a, s) ==
  LET p == Member(a, "previewParam") IN
    Run(/\ IsString(Member(a, "url")) /\ IsString(Member(a, "className"))
        /\ Ints(p, {"width", "height", "dpi"})
        /\ Within(p, {"width", "height"}, DocumentLengths) /\ Within(p, {"dpi"}, Densities)
        /\ IsStrValVailid(p, s),
        <<Put("argsColor", AsString(Member(p, "colorMode"))), Put("engine", "document")>>)

(***************************************************************************)
(* Which command of which type runs what                                   *)
(***************************************************************************)
LiteCommands ==
  {"Power", "Volume", "Barometer", "Location", "KeepScreenOnState", "WearingState",
   "BrightnessMode", "ChargeMode", "Brightness", "HeartRate", "StepCount",
   "DistributedCommunications", "CrownRotate"}
RichCommands ==
  {"BackClicked", "inspector", "inspectorDefault", "ColorMode", "Orientation",
   "ResolutionSwitch", "CurrentRouter", "ReloadRuntimePage", "FontSelect", "MemoryRefresh",
   "LoadDocument", "FastPreviewMsg", "DropFrame", "KeyPress", "LoadContent", "FoldStatus",
   "AvoidArea", "AvoidAreaChanged"}
CommonCommands ==
  {"MousePress", "MouseRelease", "MouseMove", "Language", "SupportedLanguages", "exit",
   "Resolution", "DeviceType", "PointEvent"}
InitCommandMap(s) == CommonCommands \cup IF s.lite THEN LiteCommands ELSE RichCommands

Nothing == Run(TRUE, <<>>)
RunSet(c, a, d, s) ==
  CASE c = "Power" -> PowerCommand(Member(a, c))
    [] c = "Barometer" -> BarometerCommand(Member(a, c))
    [] c = "KeepScreenOnState" -> KeepScreenOnStateCommand(Member(a, c))
    [] c = "WearingState" -> WearingStateCommand(Member(a, c))
    [] c = "BrightnessMode" -> BrightnessModeCommand(Member(a, c))
    [] c = "ChargeMode" -> ChargeModeCommand(Member(a, c))
    [] c = "Brightness" -> BrightnessCommand(Member(a, c))
    [] c = "HeartRate" -> HeartRateCommand(Member(a, c))
    [] c = "StepCount" -> StepCountCommand(Member(a, c))
    [] c = "Language" -> LanguageCommand(Member(a, c), s)
    [] c = "Location" -> LocationCommand(a)
    [] c = "ResolutionSwitch" -> ResolutionSwitchCommand(a)
    [] c = "Orientation" -> OrientationCommand(Member(a, c), d)
    [] c = "ColorMode" -> ColorModeCommand(Member(a, c), d)
    [] c = "FoldStatus" -> FoldStatusCommand(a, d)
    [] c = "AvoidArea" -> AvoidAreaCommand(a)
    [] c = "FontSelect" -> FontSelectCommand(Member(a, c))
    [] c = "MemoryRefresh" -> MemoryRefreshCommand(a)
    [] c = "ReloadRuntimePage" -> ReloadRuntimePageCommand(Member(a, c), d)
    [] c = "DropFrame" -> DropFrameCommand(Member(a, "frequency"))
    [] c = "LoadDocument" -> LoadDocumentCommand(a, s)
    [] OTHER -> Nothing
RunAction(c, a, d, s) ==
  CASE c = "MousePress" -> TouchPressCommand(a, d, s)
    [] c = "MouseRelease" -> TouchReleaseCommand(a, d, s)
    [] c = "MouseMove" -> TouchMoveCommand(a, d, s)
    [] c = "PointEvent" -> PointEventCommand(a, d, s)
    [] c = "CrownRotate" -> MouseWheelCommand(a, s)
    [] c = "KeyPress" -> KeyPressCommand(a, s)
    [] c = "BackClicked" -> BackClickedCommand
    [] c = "DistributedCommunications" -> DistributedCommunicationsCommand(a)
    [] c = "inspectorDefault" -> Run(TRUE, <<Put("engine", c)>>)
    [] c = "exit" -> Run(TRUE, <<Put("interrupted", TRUE)>>)
    [] OTHER -> Nothing
\* Getters change nothing, nor does inspector; IsGetArgValid is never overridden.
RunOf(c, t, a, d, s) ==
  CASE t = "set" -> RunSet(c, a, d, s)
    [] t = "action" -> RunAction(c, a, d, s)
    [] OTHER -> Nothing
==============================================================================
