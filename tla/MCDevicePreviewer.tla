--------------------------- MODULE MCDevicePreviewer ---------------------------
(***************************************************************************)
(* Both previewers, with every command of the IDE once well formed and     *)
(* once malformed or at a boundary, and every pair of them.                *)
(***************************************************************************)
EXTENDS DevicePreviewer, TLC

Number(n) == [kind |-> "number", halves |-> 2 * n]
Halves(n) == [kind |-> "number", halves |-> n]
Text(t) == [kind |-> "string", text |-> t]
Truth(b) == [kind |-> "bool", truth |-> b]
List(items) == [kind |-> "array", items |-> items]
Object(members) == [kind |-> "object", members |-> members]
Args(name, v) == Object(name :> v)

\* "--45.5" has the letters of a number, but atof stops at its second sign.
MCDecimal == [t \in {"10.5", "20.0", "-30.5", "0.0", "360.5", "--45.5"} |->
  CASE t = "10.5" -> 21 [] t = "20.0" -> 40 [] t = "-30.5" -> -61 [] t = "360.5" -> 721
    [] OTHER -> 0]

Size == [w |-> 60, h |-> 50]
Lite == [lite |-> TRUE, static |-> FALSE, size |-> Size, color |-> "", fold |-> ""]
Rich == [Lite EXCEPT !.lite = FALSE]
MCSettings ==
  {Lite, Rich, [Rich EXCEPT !.color = "dark", !.fold = "unfold"], [Rich EXCEPT !.static = TRUE]}

Request3(c, t, a) == [command |-> c, type |-> t, args |-> a]
Set(c, v) == Request3(c, "set", Args(c, v))
Act(c, a) == Request3(c, "action", a)
At(x, y) == [x |-> x, y |-> y]

Languages == {Set("Language", Text(t)) : t \in {"en-US", "de_DE"}}
Entry ==
  {Set(c, Number(n)) : c \in {"BrightnessMode", "HeartRate"}, n \in {1, 257, -1}}
  \cup {Set("ChargeMode", Number(257)), Set("Brightness", Number(255)), Set("Brightness", Text("1"))}
  \cup {Set("Power", Halves(1)), Set("Power", Number(2)), Set("Barometer", Halves(-1)),
        Set("Barometer", Halves(3)), Set("StepCount", Number(1000000)), Set("StepCount", Halves(3))}
  \cup {Set("KeepScreenOnState", Truth(FALSE)), Set("WearingState", Null)}
  \cup Languages
  \cup {Set("Volume", Number(1)), Request3("Power", "get", Null)}
Position(lat, long) == Object([latitude |-> Text(lat), longitude |-> Text(long)])
Positions == {Request3("Location", "set", Position(p[1], p[2])) :
  p \in {<<"10.5", "20.0">>, <<"20.0", "-30.5">>, <<"-30.5", "360.5">>, <<"--45.5", "10.5">>}}

Mouse(x, y, axis) ==
  At(x, y) @@ [button |-> Number(-1), action |-> Number(1), sourceType |-> Number(1),
               sourceTool |-> Number(99), axisValues |-> axis,
               pressedButtons |-> List(<<Number(1), Number(-2), Text("a")>>)]
Press(action, codes) ==
  Object([isInputMethod |-> Truth(FALSE), keyCode |-> Number(2000), keyAction |-> Number(action),
          pressedCodes |-> List(codes), keyString |-> Text("a")])
Ime(code) == Object([isInputMethod |-> Truth(TRUE), codePoint |-> code])
Message(text) == Object([DeviceId |-> Text("1"), bundleName |-> Text("b"), abilityName |-> Text("a"),
                         message |-> Text(text)])
Pointing ==
  {Act(c, Object(At(Halves(3), Number(0)))) : c \in {"MousePress", "MouseRelease", "MouseMove"}}
  \cup {Act("MousePress", Object(At(Number(61), Number(0))))}
  \cup {Act("PointEvent", Object(Mouse(Number(9), Halves(-1), axis))) :
          axis \in {List(<<Halves(1)>>), List(<<Text("1")>>)}}
  \cup {Act("exit", Null), Set("Unknown", Null)}
Wheel == {Act("CrownRotate", Args("rotate", v)) : v \in {Halves(5), Text("2")}}
Messages == {Act("DistributedCommunications", Message(t)) : t \in {"hello", ""}}
Typing ==
  {Act("KeyPress", a) : a \in {Press(1, <<Number(2000)>>), Press(3, <<Number(2000)>>),
                               Press(0, <<>>), Ime(Number(97)), Ime(Text("a"))}}
  \cup {Act(c, Null) : c \in {"BackClicked", "inspector", "inspectorDefault"}}

Resize(w, d, reason) ==
  Object([n \in Resolutions |-> IF n \in {"width", "originWidth"} THEN Number(w) ELSE Number(90)]
           @@ [screenDensity |-> Number(d), reason |-> Text(reason)])
Fold(status, w) == Object([FoldStatus |-> Text(status), width |-> Number(w), height |-> Number(90)])
Area(w) == Object([posX |-> Number(0), posY |-> Number(0), width |-> Number(w), height |-> Number(5)])
Document(color) ==
  Object([url |-> Text("u"), className |-> Text("c"),
          previewParam |-> Object([width |-> Number(20), height |-> Number(20), dpi |-> Number(160),
                                   locale |-> Text("zh-CN"), colorMode |-> Text(color),
                                   orientation |-> Text("portrait"), deviceType |-> Text("phone")])])
Colour(m) == Set("ColorMode", Text(m))
Screen ==
  {Request3("ResolutionSwitch", "set", Resize(p[1], p[2], p[3])) :
     p \in {<<100, 120, "resize">>, <<49, 120, "resize">>, <<50, 641, "resize">>, <<50, 120, "turn">>}}
  \cup {Set("Orientation", Text(o)) : o \in {"portrait", "landscape", "round"}}
  \cup {Colour(m) : m \in {"light", "dark", "grey"}}
  \cup {Request3("FoldStatus", "set", Fold(p[1], p[2])) :
          p \in {<<"fold", 50>>, <<"unknown", 50>>, <<"fold", 3001>>, <<"open", 50>>}}
  \cup {Request3("AvoidArea", "set", Object([side \in Sides |-> Area(w)])) : w \in {5, -5}}
  \cup {Set("FontSelect", Truth(TRUE)), Request3("MemoryRefresh", "set", Args("a", Null)),
        Set("ReloadRuntimePage", Text("p")), Request3("LoadDocument", "set", Document("dark")),
        Request3("LoadDocument", "set", Document("grey"))}
  \cup {Request3("DropFrame", "set", Args("frequency", Number(n))) : n \in {5, -1}}

MCRequests ==
  [lite \in BOOLEAN |->
    Pointing \cup IF lite THEN Entry \cup Positions \cup Wheel \cup Messages
                  ELSE Languages \cup Typing \cup Screen]
MCConfigurations ==
  {<<>>, <<Colour("dark")>>, <<Colour("dark"), Colour("light")>>,
   <<Set("Unknown", Null), Set("Power", Halves(1)), Set("BrightnessMode", Number(2))>>}
================================================================================
