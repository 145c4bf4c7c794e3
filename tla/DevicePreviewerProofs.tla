------------------------ MODULE DevicePreviewerProofs ------------------------
(***************************************************************************)
(* For any settings, configuration, requests and values of the             *)
(* application: what is answered with true was done; what the JS thread    *)
(* reads undisturbed is what was asked; a new latitude is read with its    *)
(* longitude, and no old position stays with the application; the colour   *)
(* modes agree once the application runs.                                  *)
(***************************************************************************)
EXTENDS DevicePreviewer, SequenceTheorems, TLAPS

(***************************************************************************)
(* Short sequences of writes                                               *)
(***************************************************************************)
IsWrites(writes) == \E S : writes \in Seq(S)

LEMMA WritesOf ==
  /\ Writes(<<>>) = {}
  /\ \A a, v : Writes(<<Put(a, v)>>) = {a}
  /\ \A a, v, b, w : Writes(<<Put(a, v), Put(b, w)>>) = {a, b}
  /\ \A a, v, b, w, c, x : Writes(<<Put(a, v), Put(b, w), Put(c, x)>>) = {a, b, c}
BY DEF Writes, Put

LEMMA ShortWrites ==
  /\ IsWrites(<<>>)
  /\ \A p : IsWrites(<<p>>)
  /\ \A p, q : IsWrites(<<p, q>>)
  /\ \A p, q, r : IsWrites(<<p, q, r>>)
  /\ \A p, q, r, s : IsWrites(<<p, q, r, s>>)
  /\ \A p, q, r, s, t : IsWrites(<<p, q, r, s, t>>)
<1>1. IsWrites(<<>>)
  <2>1. <<>> \in Seq({}) BY EmptySeq, Zenon
  <2> QED BY <2>1 DEF IsWrites
<1>2. ASSUME NEW p PROVE IsWrites(<<p>>)
  <2>1. <<p>> \in Seq({p}) OBVIOUS
  <2> QED BY <2>1 DEF IsWrites
<1>3. ASSUME NEW p, NEW q PROVE IsWrites(<<p, q>>)
  <2>1. <<p, q>> \in Seq({p, q}) OBVIOUS
  <2> QED BY <2>1 DEF IsWrites
<1>4. ASSUME NEW p, NEW q, NEW r PROVE IsWrites(<<p, q, r>>)
  <2>1. <<p, q, r>> \in Seq({p, q, r}) OBVIOUS
  <2> QED BY <2>1 DEF IsWrites
<1>5. ASSUME NEW p, NEW q, NEW r, NEW s PROVE IsWrites(<<p, q, r, s>>)
  <2>1. <<p, q, r, s>> \in Seq({p, q, r, s}) OBVIOUS
  <2> QED BY <2>1 DEF IsWrites
<1>6. ASSUME NEW p, NEW q, NEW r, NEW s, NEW t PROVE IsWrites(<<p, q, r, s, t>>)
  <2>1. <<p, q, r, s, t>> \in Seq({p, q, r, s, t}) OBVIOUS
  <2> QED BY <2>1 DEF IsWrites
<1> QED BY <1>1, <1>2, <1>3, <1>4, <1>5, <1>6

LEMMA OneAndTwo ==
  ASSUME NEW p, NEW q, NEW r PROVE <<p>> \o <<q, r>> = <<p, q, r>>
<1> DEFINE S == {p, q, r}
<1>1. <<p>> \in Seq(S) /\ <<q, r>> \in Seq(S) /\ <<p, q, r>> \in Seq(S)
  OBVIOUS
<1>2. Len(<<p>>) = 1 /\ Len(<<q, r>>) = 2 /\ Len(<<p, q, r>>) = 3
  OBVIOUS
<1>3. /\ <<p>> \o <<q, r>> \in Seq(S) /\ Len(<<p>> \o <<q, r>>) = 3
      /\ \A i \in 1 .. 3 : (<<p>> \o <<q, r>>)[i] = IF i <= 1 THEN <<p>>[i] ELSE <<q, r>>[i - 1]
  BY <1>1, <1>2, ConcatProperties
<1>4. \A i \in 1 .. 3 : (<<p>> \o <<q, r>>)[i] = <<p, q, r>>[i]
  BY <1>3
<1> HIDE DEF S
<1> QED BY <1>1, <1>2, <1>3, <1>4, SeqEqual

LEMMA FourAndOne ==
  ASSUME NEW p, NEW q, NEW r, NEW s, NEW t
  PROVE  /\ <<p, q, r, s>> \o <<>> = <<p, q, r, s>>
         /\ <<p, q, r, s>> \o <<t>> = <<p, q, r, s, t>>
<1> DEFINE S == {p, q, r, s, t}
           four == <<p, q, r, s>>
           five == <<p, q, r, s, t>>
<1>1. four \in Seq(S) /\ <<t>> \in Seq(S) /\ five \in Seq(S)
  OBVIOUS
<1>2. Len(four) = 4 /\ Len(<<t>>) = 1 /\ Len(five) = 5
  OBVIOUS
<1>3. four \o <<>> = four
  BY <1>1, ConcatEmptySeq
<1>4. /\ four \o <<t>> \in Seq(S) /\ Len(four \o <<t>>) = 5
      /\ \A i \in 1 .. 5 : (four \o <<t>>)[i] = IF i <= 4 THEN four[i] ELSE <<t>>[i - 4]
  BY <1>1, <1>2, ConcatProperties
<1>5. \A i \in 1 .. 5 : (four \o <<t>>)[i] = five[i]
  BY <1>4
<1> HIDE DEF S, four, five
<1>6. four \o <<t>> = five
  BY <1>1, <1>2, <1>4, <1>5, SeqEqual
<1> QED BY <1>3, <1>6 DEF four, five

(***************************************************************************)
(* What the commands write                                                 *)
(***************************************************************************)
ScreenCells ==
  {"orientation", "size", "foldStatus", "engine", "page", "dropFrameFrequency", "avoidAreas"}

LEMMA RequestWrites ==
  ASSUME NEW item, NEW valid, NEW value, Request(item, valid, value).valid
  PROVE  Request(item, valid, value).writes = <<Put(item, value)>> /\ IsValid(item, value)
BY DEF Request, Run

\* Commands that set one entry of SharedData set what they were asked to, and
\* the range was tested on the value that is set.
LEMMA EntryWrites ==
  ASSUME NEW c \in DOMAIN Entries, NEW a, NEW d, NEW s, RunSet(c, a, d, s).valid
  PROVE  /\ RunSet(c, a, d, s).writes = <<Put(Entries[c], Meant(c, Member(a, c)))>>
         /\ IsValid(Entries[c], Meant(c, Member(a, c)))
<1> DEFINE v == Member(a, c)
<1> HIDE DEF v
<1>1. CASE c = "Power"
  <2>1. RunSet(c, a, d, s) = PowerCommand(v) BY <1>1 DEF RunSet, v
  <2>2. PICK valid : PowerCommand(v) = Request(Entries[c], valid, Meant(c, v))
    BY <1>1 DEF PowerCommand, Entries, Meant, EightBits
  <2> QED BY <2>1, <2>2, RequestWrites DEF v
<1>2. CASE c = "Barometer"
  <2>1. RunSet(c, a, d, s) = BarometerCommand(v) BY <1>2 DEF RunSet, v
  <2>2. PICK valid : BarometerCommand(v) = Request(Entries[c], valid, Meant(c, v))
    BY <1>2 DEF BarometerCommand, Entries, Meant, EightBits
  <2> QED BY <2>1, <2>2, RequestWrites DEF v
<1>3. CASE c = "KeepScreenOnState"
  <2>1. RunSet(c, a, d, s) = KeepScreenOnStateCommand(v) BY <1>3 DEF RunSet, v
  <2>2. PICK valid : KeepScreenOnStateCommand(v) = Request(Entries[c], valid, Meant(c, v))
    BY <1>3 DEF KeepScreenOnStateCommand, Entries, Meant, EightBits
  <2> QED BY <2>1, <2>2, RequestWrites DEF v
<1>4. CASE c = "WearingState"
  <2>1. RunSet(c, a, d, s) = WearingStateCommand(v) BY <1>4 DEF RunSet, v
  <2>2. PICK valid : WearingStateCommand(v) = Request(Entries[c], valid, Meant(c, v))
    BY <1>4 DEF WearingStateCommand, Entries, Meant, EightBits
  <2> QED BY <2>1, <2>2, RequestWrites DEF v
<1>5. CASE c = "BrightnessMode"
  <2>1. RunSet(c, a, d, s) = BrightnessModeCommand(v) BY <1>5 DEF RunSet, v
  <2>2. PICK valid : BrightnessModeCommand(v) = Request(Entries[c], valid, Meant(c, v))
    BY <1>5 DEF BrightnessModeCommand, Entries, Meant, EightBits
  <2> QED BY <2>1, <2>2, RequestWrites DEF v
<1>6. CASE c = "ChargeMode"
  <2>1. RunSet(c, a, d, s) = ChargeModeCommand(v) BY <1>6 DEF RunSet, v
  <2>2. PICK valid : ChargeModeCommand(v) = Request(Entries[c], valid, Meant(c, v))
    BY <1>6 DEF ChargeModeCommand, Entries, Meant, EightBits
  <2> QED BY <2>1, <2>2, RequestWrites DEF v
<1>7. CASE c = "Brightness"
  <2>1. RunSet(c, a, d, s) = BrightnessCommand(v) BY <1>7 DEF RunSet, v
  <2>2. PICK valid : BrightnessCommand(v) = Request(Entries[c], valid, Meant(c, v))
    BY <1>7 DEF BrightnessCommand, Entries, Meant, EightBits
  <2> QED BY <2>1, <2>2, RequestWrites DEF v
<1>8. CASE c = "HeartRate"
  <2>1. RunSet(c, a, d, s) = HeartRateCommand(v) BY <1>8 DEF RunSet, v
  <2>2. PICK valid : HeartRateCommand(v) = Request(Entries[c], valid, Meant(c, v))
    BY <1>8 DEF HeartRateCommand, Entries, Meant, EightBits
  <2> QED BY <2>1, <2>2, RequestWrites DEF v
<1>9. CASE c = "StepCount"
  <2>1. RunSet(c, a, d, s) = StepCountCommand(v) BY <1>9 DEF RunSet, v
  <2>2. PICK valid : StepCountCommand(v) = Request(Entries[c], valid, Meant(c, v))
    BY <1>9 DEF StepCountCommand, Entries, Meant, EightBits
  <2> QED BY <2>1, <2>2, RequestWrites DEF v
<1>10. CASE c = "Language"
  <2>1. RunSet(c, a, d, s) = LanguageCommand(v, s) BY <1>10 DEF RunSet, v
  <2>2. PICK valid : LanguageCommand(v, s) = Request(Entries[c], valid, Meant(c, v))
    BY <1>10 DEF LanguageCommand, Entries, Meant, EightBits
  <2> QED BY <2>1, <2>2, RequestWrites DEF v
<1> QED BY <1>1, <1>2, <1>3, <1>4, <1>5, <1>6, <1>7, <1>8, <1>9, <1>10 DEF Entries

\* Location sets the longitude and then the latitude; both ranges were tested.
LEMMA LocationWrites ==
  ASSUME NEW a, NEW d, NEW s, RunSet("Location", a, d, s).valid
  PROVE  /\ RunSet("Location", a, d, s).writes
              = <<Put("LONGITUDE", Degrees(a, "longitude")), Put("LATITUDE", Degrees(a, "latitude"))>>
         /\ IsValid("LONGITUDE", Degrees(a, "longitude"))
         /\ IsValid("LATITUDE", Degrees(a, "latitude"))
<1>1. RunSet("Location", a, d, s) = LocationCommand(a) BY DEF RunSet
<1> QED BY <1>1 DEF LocationCommand, LocationValid, Run

\* ColorMode sets the name, the arguments and the ability, or finds no change.
LEMMA ColorWrites ==
  ASSUME NEW a, NEW d, NEW s, RunSet("ColorMode", a, d, s).valid
  PROVE  \/ RunSet("ColorMode", a, d, s).writes = <<>>
         \/ \E v \in ColorModes :
              RunSet("ColorMode", a, d, s).writes
                = <<Put("colorMode", v), Put("argsColor", v), Put("shownColor", v)>>
<1> DEFINE v == AsString(Member(a, "ColorMode"))
           three == <<Put("colorMode", v), Put("argsColor", v), Put("shownColor", v)>>
           changes == IF v = d["colorMode"] THEN <<>> ELSE three
<1>1. RunSet("ColorMode", a, d, s) = ColorModeCommand(Member(a, "ColorMode"), d) BY DEF RunSet
<1>2. ColorModeCommand(Member(a, "ColorMode"), d)
        = Run(v \in ColorModes, changes)
  BY Zenon DEF ColorModeCommand
<1> HIDE DEF v, three, changes
<1>3. v \in ColorModes
  <2>1. Run(v \in ColorModes, changes).valid BY <1>1, <1>2, Zenon
  <2>2. Run(v \in ColorModes, changes).valid = (v \in ColorModes) BY DEF Run
  <2> QED BY <2>1, <2>2, Zenon
<1>4. RunSet("ColorMode", a, d, s).writes = changes
  BY <1>1, <1>2 DEF Run
<1>5. changes \in {<<>>, three} BY DEF changes
<1> QED BY <1>3, <1>4, <1>5, Zenon DEF three

\* A document replaces the colour of the arguments and is handed to the engine.
LEMMA DocumentWrites ==
  ASSUME NEW a, NEW d, NEW s, RunSet("LoadDocument", a, d, s).valid
  PROVE  \E v \in ColorModes :
           RunSet("LoadDocument", a, d, s).writes
             = <<Put("argsColor", v), Put("engine", "document")>>
<1> DEFINE v == AsString(Member(Member(a, "previewParam"), "colorMode"))
<1>1. RunSet("LoadDocument", a, d, s) = LoadDocumentCommand(a, s) BY DEF RunSet
<1>2. /\ v \in ColorModes
      /\ RunSet("LoadDocument", a, d, s).writes = <<Put("argsColor", v), Put("engine", "document")>>
  BY <1>1 DEF LoadDocumentCommand, IsStrValVailid, Run
<1> QED BY <1>2

\* Writes to cells of which nothing more is said.
Only(writes, which) == IsWrites(writes) /\ Writes(writes) \subseteq which

LEMMA OnlyShort ==
  ASSUME NEW S
  PROVE  /\ Only(<<>>, S)
         /\ \A a \in S : \A v : Only(<<Put(a, v)>>, S)
         /\ \A a, b \in S : \A v, w : Only(<<Put(a, v), Put(b, w)>>, S)
         /\ \A a, b, c \in S : \A v, w, x : Only(<<Put(a, v), Put(b, w), Put(c, x)>>, S)
<1>1. Only(<<>>, S) BY WritesOf, ShortWrites DEF Only
<1>2. ASSUME NEW a \in S, NEW v PROVE Only(<<Put(a, v)>>, S)
  BY WritesOf, ShortWrites DEF Only
<1>3. ASSUME NEW a \in S, NEW b \in S, NEW v, NEW w PROVE Only(<<Put(a, v), Put(b, w)>>, S)
  BY WritesOf, ShortWrites DEF Only
<1>4. ASSUME NEW a \in S, NEW b \in S, NEW c \in S, NEW v, NEW w, NEW x
      PROVE  Only(<<Put(a, v), Put(b, w), Put(c, x)>>, S)
  <2>1. Writes(<<Put(a, v), Put(b, w), Put(c, x)>>) = {a, b, c} BY DEF Writes, Put
  <2>2. IsWrites(<<Put(a, v), Put(b, w), Put(c, x)>>) BY ShortWrites, Zenon
  <2> QED BY <2>1, <2>2 DEF Only
<1> QED BY <1>1, <1>2, <1>3, <1>4

\* The other settings are about the screen.
LEMMA ScreenWrites ==
  ASSUME NEW c, c \notin DOMAIN Entries \cup {"Location", "ColorMode", "LoadDocument"},
         NEW a, NEW d, NEW s
  PROVE  Only(RunSet(c, a, d, s).writes, ScreenCells)
<1> DEFINE writes == RunSet(c, a, d, s).writes
<1> USE OnlyShort DEF ScreenCells
<1>1. CASE c = "ResolutionSwitch"
  <2>1. writes = ResolutionChanged(a) BY <1>1 DEF RunSet, ResolutionSwitchCommand, Run
  <2> QED BY <2>1 DEF ResolutionChanged
<1>2. CASE c = "Orientation"
  <2>1. writes \in {<<>>, <<Put("orientation", AsString(Member(a, c)))>>}
    BY <1>2 DEF RunSet, OrientationCommand, Run
  <2> QED BY <2>1
<1>3. CASE c = "FoldStatus"
  <2> DEFINE v == AsString(Member(a, "FoldStatus"))
             turned == IF AskedSize(a).w <= AskedSize(a).h THEN "portrait" ELSE "landscape"
             fold == Put("foldStatus", v)
  <2>1. RunSet(c, a, d, s) = FoldStatusCommand(a, d) BY <1>3 DEF RunSet
  <2>2. writes \in {<<>>, <<Put("foldStatus", "unknown")>>, <<fold>> \o ResolutionChanged(a)}
    BY <2>1 DEF FoldStatusCommand, Run
  <2>3. <<fold>> \o ResolutionChanged(a)
          = <<fold, Put("orientation", turned), Put("size", AskedSize(a))>>
    BY OneAndTwo, Zenon DEF ResolutionChanged
  <2> HIDE DEF turned, v, writes
  <2>4. Only(<<fold, Put("orientation", turned), Put("size", AskedSize(a))>>, ScreenCells)
    BY Zenon
  <2>5. Only(<<>>, ScreenCells) /\ Only(<<Put("foldStatus", "unknown")>>, ScreenCells) BY Zenon
  <2> QED BY <2>2, <2>3, <2>4, <2>5, Zenon DEF writes
<1>4. CASE c = "AvoidArea"
  <2>1. writes = <<Put("avoidAreas", [side \in Sides |-> Member(a, side)])>>
    BY <1>4 DEF RunSet, AvoidAreaCommand, Run
  <2> QED BY <2>1
<1>5. CASE c = "FontSelect"
  BY <1>5 DEF RunSet, FontSelectCommand, Run
<1>6. CASE c = "MemoryRefresh"
  BY <1>6 DEF RunSet, MemoryRefreshCommand, Run
<1>7. CASE c = "ReloadRuntimePage"
  <2>1. writes \in {<<>>, <<Put("page", AsString(Member(a, c)))>>}
    BY <1>7 DEF RunSet, ReloadRuntimePageCommand, Run
  <2> QED BY <2>1
<1>8. CASE c = "DropFrame"
  <2>1. writes = <<Put("dropFrameFrequency", AsInt(Member(a, "frequency")))>>
    BY <1>8 DEF RunSet, DropFrameCommand, Run
  <2> QED BY <2>1
<1>9. CASE c \notin {"ResolutionSwitch", "Orientation", "FoldStatus", "AvoidArea", "FontSelect",
                     "MemoryRefresh", "ReloadRuntimePage", "DropFrame"}
  <2>1. RunSet(c, a, d, s) = Nothing BY <1>9 DEF RunSet, Entries
  <2> QED BY <2>1 DEF Nothing, Run
<1> QED BY <1>1, <1>2, <1>3, <1>4, <1>5, <1>6, <1>7, <1>8, <1>9

\* A touch sets the four members of the mock; the rich previewer dispatches it.
AskedOf(c, a) == IF c = "PointEvent" THEN AskedPointer(a) ELSE Finger
TouchMembers(c, a) ==
  <<Put("x", AsDouble(Member(a, "x"))), Put("y", AsDouble(Member(a, "y"))),
    Put("touchAction", TouchTypes[c]), Put("pointer", AskedOf(c, a))>>
TouchEvent(c, a) ==
  <<Put("x", AsDouble(Member(a, "x"))), Put("y", AsDouble(Member(a, "y"))),
    Put("touchAction", TouchTypes[c]), Put("pointer", AskedOf(c, a)), Put("engine", "pointer")>>

LEMMA TouchWrites ==
  ASSUME NEW c \in DOMAIN TouchTypes, NEW a, NEW d, NEW s
  PROVE  /\ s.static => RunAction(c, a, d, s).writes = <<>>
         /\ ~s.static /\ s.lite => RunAction(c, a, d, s).writes = TouchMembers(c, a)
         /\ ~s.static /\ ~s.lite => RunAction(c, a, d, s).writes = TouchEvent(c, a)
<1> DEFINE writes == RunAction(c, a, d, s).writes
<1>1. writes = SetEventParams(a, TouchTypes[c], AskedOf(c, a), s)
  <2>1. CASE c = "MousePress"
    BY <2>1 DEF RunAction, TouchPressCommand, TouchCommand, Run, TouchTypes, AskedOf
  <2>2. CASE c = "MouseRelease"
    BY <2>2 DEF RunAction, TouchReleaseCommand, TouchCommand, Run, TouchTypes, AskedOf
  <2>3. CASE c = "MouseMove"
    BY <2>3 DEF RunAction, TouchMoveCommand, TouchCommand, Run, TouchTypes, AskedOf
  <2>4. CASE c = "PointEvent"
    BY <2>4 DEF RunAction, PointEventCommand, Run, TouchTypes, AskedOf
  <2> QED BY <2>1, <2>2, <2>3, <2>4 DEF TouchTypes
<1> HIDE DEF writes
<1>2. CASE s.static BY <1>1, <1>2 DEF SetEventParams, writes
<1>3. CASE ~s.static
  <2> DEFINE four == TouchMembers(c, a)
             last == IF s.lite THEN <<>> ELSE <<Put("engine", "pointer")>>
  <2>1. writes = four \o last BY <1>1, <1>3, Zenon DEF SetEventParams, TouchMembers
  <2>2. four \o <<>> = four /\ four \o <<Put("engine", "pointer")>> = TouchEvent(c, a)
    BY FourAndOne, Zenon DEF TouchMembers, TouchEvent
  <2> HIDE DEF four
  <2>3. CASE s.lite BY <1>3, <2>1, <2>2, <2>3 DEF writes, four
  <2>4. CASE ~s.lite BY <1>3, <2>1, <2>2, <2>4 DEF writes, four
  <2> QED BY <2>3, <2>4
<1> QED BY <1>2, <1>3

\* A key sets one member of the mock, of which the engine is told at once.
LEMMA KeyWrites ==
  ASSUME NEW a, NEW d, NEW s
  PROVE  LET writes == RunAction("KeyPress", a, d, s).writes IN
           /\ s.static => writes = <<>>
           /\ ~s.static /\ IsIme(a) =>
                writes = <<Put("codePoint", AsInt(Member(a, "codePoint"))), Put("engine", "inputMethod")>>
           /\ ~s.static /\ ~IsIme(a) => writes = <<Put("key", SetKeyEvent(a)), Put("engine", "key")>>
<1>1. RunAction("KeyPress", a, d, s) = KeyPressCommand(a, s) BY DEF RunAction
<1>2. CASE s.static BY <1>1, <1>2 DEF KeyPressCommand, Run
<1>3. CASE ~s.static BY <1>1, <1>3 DEF KeyPressCommand, Run
<1> QED BY <1>2, <1>3

\* The other actions are about the wheel, the engine, messages and the exit.
ActionCells == {"rotate", "engine", "message", "interrupted"}
LEMMA ActionWrites ==
  ASSUME NEW c, c \notin DOMAIN TouchTypes \cup {"KeyPress"}, NEW a, NEW d, NEW s
  PROVE  Only(RunAction(c, a, d, s).writes, ActionCells)
<1> DEFINE writes == RunAction(c, a, d, s).writes
<1> USE OnlyShort DEF ActionCells
<1>1. CASE c = "CrownRotate"
  <2>1. writes \in {<<>>, <<Put("rotate", AsDouble(Member(a, "rotate")))>>}
    BY <1>1 DEF RunAction, MouseWheelCommand, Run
  <2> QED BY <2>1
<1>2. CASE c = "BackClicked"
  <2>1. writes = <<Put("engine", "back")>> BY <1>2 DEF RunAction, BackClickedCommand, Run
  <2> QED BY <2>1
<1>3. CASE c = "DistributedCommunications"
  <2>1. writes = <<Put("message", AsString(Member(a, "message")))>>
    BY <1>3 DEF RunAction, DistributedCommunicationsCommand, Run
  <2> QED BY <2>1
<1>4. CASE c = "inspectorDefault"
  <2>1. writes = <<Put("engine", c)>> BY <1>4 DEF RunAction, Run
  <2> QED BY <2>1
<1>5. CASE c = "exit"
  <2>1. writes = <<Put("interrupted", TRUE)>> BY <1>5 DEF RunAction, Run
  <2> QED BY <2>1
<1>6. CASE c \notin {"CrownRotate", "BackClicked", "DistributedCommunications",
                     "inspectorDefault", "exit"}
  <2>1. RunAction(c, a, d, s) = Nothing BY <1>6 DEF RunAction, TouchTypes
  <2> QED BY <2>1 DEF Nothing, Run
<1> QED BY <1>1, <1>2, <1>3, <1>4, <1>5, <1>6

\* What each command writes.
TouchCells == {"x", "y", "touchAction", "pointer"}
KeyCells == {"codePoint", "key"}
InputCells == TouchCells \cup KeyCells
LEMMA CommandWrites ==
  ASSUME NEW c, NEW t, NEW a, NEW d, NEW s, RunOf(c, t, a, d, s).valid
  PROVE  \E S :
           /\ Only(RunOf(c, t, a, d, s).writes, S)
           /\ \/ t = "set" /\ c \in DOMAIN Entries /\ S = {Entries[c]}
              \/ t = "set" /\ c = "Location" /\ S = {"LONGITUDE", "LATITUDE"}
              \/ t = "set" /\ c = "ColorMode" /\ S = Colours
              \/ t = "set" /\ c = "LoadDocument" /\ S = {"argsColor", "engine"}
              \/ t = "set" /\ S = ScreenCells
              \/ /\ t = "action" /\ c \in DOMAIN TouchTypes /\ ~s.static
                 /\ S = TouchCells \cup {"engine"}
              \/ t = "action" /\ S \in {KeyCells \cup {"engine"}, ActionCells}
              \/ S = {}
<1> DEFINE writes == RunOf(c, t, a, d, s).writes
<1> HIDE DEF writes
<1>1. CASE t = "set"
  <2>1. RunOf(c, t, a, d, s) = RunSet(c, a, d, s) BY <1>1 DEF RunOf
  <2>2. CASE c \in DOMAIN Entries
    <3>1. writes = <<Put(Entries[c], Meant(c, Member(a, c)))>>
      BY <2>1, <2>2, EntryWrites DEF writes
    <3>2. Only(writes, {Entries[c]}) BY <3>1, OnlyShort
    <3> QED BY <1>1, <2>2, <3>2 DEF writes
  <2>3. CASE c = "Location"
    <3>1. writes = <<Put("LONGITUDE", Degrees(a, "longitude")), Put("LATITUDE", Degrees(a, "latitude"))>>
      BY <2>1, <2>3, LocationWrites DEF writes
    <3>2. Only(writes, {"LONGITUDE", "LATITUDE"}) BY <3>1, OnlyShort
    <3> QED BY <1>1, <2>3, <3>2 DEF writes
  <2>4. CASE c = "ColorMode"
    <3>1. \/ writes = <<>>
          \/ \E v \in ColorModes :
               writes = <<Put("colorMode", v), Put("argsColor", v), Put("shownColor", v)>>
      BY <2>1, <2>4, ColorWrites DEF writes
    <3>2. Only(writes, Colours) BY <3>1, OnlyShort DEF Colours
    <3> QED BY <1>1, <2>4, <3>2 DEF writes
  <2>5. CASE c = "LoadDocument"
    <3>1. \E v \in ColorModes : writes = <<Put("argsColor", v), Put("engine", "document")>>
      BY <2>1, <2>5, DocumentWrites DEF writes
    <3>2. Only(writes, {"argsColor", "engine"}) BY <3>1, OnlyShort
    <3> QED BY <1>1, <2>5, <3>2 DEF writes
  <2>6. CASE c \notin DOMAIN Entries \cup {"Location", "ColorMode", "LoadDocument"}
    <3>1. Only(writes, ScreenCells) BY <2>1, <2>6, ScreenWrites DEF writes
    <3> QED BY <1>1, <3>1 DEF writes
  <2> QED BY <2>2, <2>3, <2>4, <2>5, <2>6
<1>2. CASE t = "action"
  <2>1. RunOf(c, t, a, d, s) = RunAction(c, a, d, s) BY <1>2 DEF RunOf
  <2>2. CASE c \in DOMAIN TouchTypes
    <3> DEFINE S == TouchCells \cup {"engine"}
    <3>1. Only(TouchMembers(c, a), S)
      <4>1. IsWrites(TouchMembers(c, a)) BY ShortWrites DEF TouchMembers
      <4>2. Writes(TouchMembers(c, a)) \subseteq S BY DEF Writes, Put, TouchMembers, TouchCells
      <4> QED BY <4>1, <4>2 DEF Only
    <3>2. Only(TouchEvent(c, a), S)
      <4>1. IsWrites(TouchEvent(c, a)) BY ShortWrites, Zenon DEF TouchEvent
      <4>2. Writes(TouchEvent(c, a)) \subseteq S BY DEF Writes, Put, TouchEvent, TouchCells
      <4> QED BY <4>1, <4>2 DEF Only
    <3> HIDE DEF S
    <3>3. CASE s.static
      <4>1. Only(writes, {}) BY <2>1, <2>2, <3>3, TouchWrites, OnlyShort DEF writes
      <4> QED BY <4>1 DEF writes
    <3>4. CASE ~s.static
      <4>1. Only(writes, S) BY <2>1, <2>2, <3>1, <3>2, <3>4, TouchWrites DEF writes
      <4> QED BY <1>2, <2>2, <3>4, <4>1 DEF S, writes
    <3> QED BY <3>3, <3>4
  <2>3. CASE c = "KeyPress"
    <3> DEFINE S == KeyCells \cup {"engine"}
               code == Put("codePoint", AsInt(Member(a, "codePoint")))
               key == Put("key", SetKeyEvent(a))
    <3>1. writes \in {<<>>, <<code, Put("engine", "inputMethod")>>, <<key, Put("engine", "key")>>}
      BY <2>1, <2>3, KeyWrites DEF writes
    <3>2. {"codePoint", "key", "engine"} \subseteq S BY DEF KeyCells
    <3> HIDE DEF S
    <3>3. /\ Only(<<>>, S) /\ Only(<<code, Put("engine", "inputMethod")>>, S)
          /\ Only(<<key, Put("engine", "key")>>, S)
      BY <3>2, OnlyShort
    <3>4. Only(writes, S) BY <3>1, <3>3
    <3> QED BY <1>2, <3>4 DEF S, writes
  <2>4. CASE c \notin DOMAIN TouchTypes \cup {"KeyPress"}
    <3>1. Only(writes, ActionCells) BY <2>1, <2>4, ActionWrites DEF writes
    <3> QED BY <1>2, <3>1 DEF writes
  <2> QED BY <2>2, <2>3, <2>4
<1>3. CASE t \notin {"set", "action"}
  <2>1. RunOf(c, t, a, d, s) = Nothing BY <1>3 DEF RunOf
  <2>2. Only(writes, {}) BY <2>1, OnlyShort DEF Nothing, Run, writes
  <2> QED BY <2>2 DEF writes
<1> QED BY <1>1, <1>2, <1>3

\* What no command writes.
Own == {"ability", "failed", "registered"}
LEMMA RunWrites ==
  ASSUME NEW c, NEW t, NEW a, NEW d, NEW s, RunOf(c, t, a, d, s).valid
  PROVE  Only(RunOf(c, t, a, d, s).writes, Cells \ Own)
<1> DEFINE writes == RunOf(c, t, a, d, s).writes
<1>1. PICK S : /\ Only(writes, S)
               /\ \/ c \in DOMAIN Entries /\ S = {Entries[c]}
                  \/ S \in {{"LONGITUDE", "LATITUDE"}, Colours, {"argsColor", "engine"}, ScreenCells,
                            TouchCells \cup {"engine"}, KeyCells \cup {"engine"}, ActionCells, {}}
  BY CommandWrites
<1>2. /\ Colours \cup {"engine", "LONGITUDE", "LATITUDE"} \subseteq Cells \ Own
      /\ ScreenCells \cup ActionCells \cup TouchCells \cup KeyCells \subseteq Cells \ Own
      /\ \A n \in DOMAIN Entries : Entries[n] \in Cells \ Own
  BY DEF Colours, ScreenCells, ActionCells, TouchCells, KeyCells, Cells, Members, DataItems,
         InitSharedData, Own, Entries
<1>3. "argsColor" \in Colours BY DEF Colours
<1>4. S \subseteq Cells \ Own BY <1>1, <1>2, <1>3
<1> QED BY <1>1, <1>4 DEF Only

\* The first of some elements, and the others.
Elements(s) == {s[j] : j \in DOMAIN s}
LEMMA FirstElement ==
  ASSUME NEW s, IsWrites(s), s # <<>>
  PROVE  /\ Head(s) \in Elements(s)
         /\ IsWrites(Tail(s)) /\ Elements(Tail(s)) \subseteq Elements(s)
<1>1. PICK S : s \in Seq(S) BY DEF IsWrites
<1>2. /\ Tail(s) \in Seq(S) /\ Len(Tail(s)) = Len(s) - 1
      /\ \A j \in 1 .. Len(Tail(s)) : Tail(s)[j] = s[j + 1]
      /\ Head(s) = s[1] /\ Len(s) \in Nat \ {0}
  BY <1>1
<1>3. DOMAIN s = 1 .. Len(s) /\ DOMAIN Tail(s) = 1 .. Len(Tail(s))
  BY <1>1, <1>2
<1>4. \A j \in DOMAIN Tail(s) : j + 1 \in DOMAIN s /\ Tail(s)[j] = s[j + 1]
  BY <1>2, <1>3
<1> QED BY <1>2, <1>3, <1>4 DEF Elements, IsWrites

LEMMA HeadAndTail ==
  ASSUME NEW s, IsWrites(s), s # <<>>
  PROVE  Elements(s) \subseteq {Head(s)} \cup Elements(Tail(s))
<1>1. PICK S : s \in Seq(S) BY DEF IsWrites
<1>2. /\ Len(Tail(s)) = Len(s) - 1 /\ Head(s) = s[1] /\ Len(s) \in Nat \ {0}
      /\ DOMAIN s = 1 .. Len(s) /\ DOMAIN Tail(s) = 1 .. Len(Tail(s))
      /\ \A j \in 1 .. Len(Tail(s)) : Tail(s)[j] = s[j + 1]
  BY <1>1
<1>3. ASSUME NEW j \in DOMAIN s, j # 1 PROVE j - 1 \in DOMAIN Tail(s) /\ Tail(s)[j - 1] = s[j]
  BY <1>2, <1>3
<1> QED BY <1>2, <1>3 DEF Elements

LEMMA FirstWrite ==
  ASSUME NEW writes, IsWrites(writes), writes # <<>>
  PROVE  /\ Head(writes).cell \in Writes(writes)
         /\ IsWrites(Tail(writes)) /\ Writes(Tail(writes)) \subseteq Writes(writes)
<1>1. \A w : Writes(w) = {p.cell : p \in Elements(w)} BY DEF Writes, Elements
<1> QED BY <1>1, FirstElement

(***************************************************************************)
(* Which thread writes when                                                *)
(***************************************************************************)
\* Commands run on the command thread of the rich previewer, and on the main
\* thread while it is in the configuration or is that of the lite previewer.
Fields == {"request", "writes", "answer", "landed"}
RunInv ==
  /\ DOMAIN cells = Cells /\ DOMAIN run = Threads
  /\ \A t \in Threads :
       /\ DOMAIN run[t] = Fields
       /\ Only(run[t].writes, Cells \ Own)
       /\ Rests(t) => run[t].writes = <<>>
  /\ setting.lite => Rests("command")
  /\ ~setting.lite /\ main # "config" => Rests("main")
  /\ main \in Copying \cup {"copy"} => ~setting.lite
  /\ cells["ability"] = (main = "loop" /\ ~setting.lite)

\* What the JS thread does, and what it sets.
JsNext ==
  \/ \E job \in AppJobs \cup TimerJobs : StartJob(job)
  \/ Read \/ EndRead \/ EndWheel \/ CheckDevice \/ ExecCallBack
  \/ SubGeoLocation \/ UnSubGeoLocation
  \/ \E v \in AppValues : AppSets("BRIGHTNESS_VALUE", v) \/ AppSets("BRIGHTNESS_MODE", v)
  \/ AppSets("KEEP_SCREEN_ON", FALSE)
  \/ \E registered \in BOOLEAN : RegistBundle(registered)
JsCells == {"rotate", "BRIGHTNESS_VALUE", "BRIGHTNESS_MODE", "KEEP_SCREEN_ON", "registered"}
MainNext ==
  \/ InitResolution \/ EndConfig \/ InitJsApp
  \/ CopyColorMode \/ SetColorMode \/ CreateInstance \/ AssignAbility

\* A command is accepted, and begins.
Begins(t, r, answer) ==
  LET runs == RunOf(r.command, r.type, r.args, cells, setting) IN
    /\ runs.valid /\ Rests(t) /\ answer # "none"
    /\ answer = "true" => answer = Answer(r)
    /\ run' = [run EXCEPT ![t] = Working(r, runs.writes, answer)]
    /\ Remember(r) /\ stirred' = Stirs(r, runs.writes)
    /\ (main = "config" /\ js' = js) \/ Disturb(Writes(runs.writes))
\* Or it is answered without being run.
Refused ==
  /\ UNCHANGED <<ghosts, js>>
  /\ \/ run' = run
     \/ \E t \in Threads, answer \in {"false", "unsupported"} : \E r :
          /\ Rests(t) /\ run' = [run EXCEPT ![t] = Working(r, <<>>, answer)]
          /\ setting.lite => t = "main"
          /\ ~setting.lite /\ main # "config" => t = "command"
Begun ==
  /\ UNCHANGED <<setting, cells, main, held, location>>
  /\ \/ Refused
     \/ \E t \in Threads : \E r, answer :
          /\ Begins(t, r, answer)
          /\ setting.lite => t = "main"
          /\ ~setting.lite /\ main # "config" => t = "command"
          /\ ~setting.lite /\ t = "main" => r.type = "set" /\ answer # "true"

LEMMA AnswerGiven == \A r : Answer(r) # "none"
BY DEF Answer

LEMMA BeginKinds ==
  ASSUME BeginConfig \/ \E r \in Requests[setting.lite] : BeginRequest(r)
  PROVE  Begun
<1>1. CASE BeginConfig
  <2> DEFINE r == [command |-> Head(config).command, type |-> "set", args |-> Head(config).args]
             set == RunSet(r.command, r.args, cells, setting)
  <2>1. RunOf(r.command, r.type, r.args, cells, setting) = set BY DEF RunOf
  <2>2. /\ UNCHANGED <<setting, cells, main, held, location, js>>
        /\ main = "config" /\ Rests("main")
        /\ \/ /\ run' = [run EXCEPT !["main"] = Working(r, set.writes, "silent")] /\ set.valid
              /\ Remember(r) /\ stirred' = Stirs(r, set.writes)
           \/ UNCHANGED <<run, ghosts>>
    BY <1>1, Zenon DEF BeginConfig
  <2>3. r.type = "set" OBVIOUS
  <2> HIDE DEF r, set
  <2>4. CASE UNCHANGED <<run, ghosts>> BY <2>2, <2>4 DEF Begun, Refused
  <2>5. CASE /\ run' = [run EXCEPT !["main"] = Working(r, set.writes, "silent")] /\ set.valid
             /\ Remember(r) /\ stirred' = Stirs(r, set.writes)
    <3>1. Begins("main", r, "silent") BY <2>1, <2>2, <2>5 DEF Begins
    <3> QED BY <2>2, <2>3, <3>1 DEF Begun, Threads
  <2> QED BY <2>2, <2>4, <2>5
<1>2. ASSUME NEW r, BeginRequest(r) PROVE Begun
  <2> DEFINE runs == RunOf(r.command, r.type, r.args, cells, setting)
  <2>1. /\ UNCHANGED <<setting, cells, main, held, location>>
        /\ setting.lite => main = "loop"
        /\ Rests(Executor)
        /\ \/ /\ run' = [run EXCEPT ![Executor] = Working(r, <<>>, "unsupported")]
              /\ UNCHANGED <<js, ghosts>>
           \/ /\ run' = [run EXCEPT ![Executor] = Working(r, <<>>, "false")]
              /\ UNCHANGED <<js, ghosts>>
           \/ /\ runs.valid
              /\ run' = [run EXCEPT ![Executor] = Working(r, runs.writes, Answer(r))]
              /\ Remember(r) /\ stirred' = Stirs(r, runs.writes)
              /\ Disturb(Writes(runs.writes))
    BY <1>2 DEF BeginRequest
  <2>2. Executor \in Threads /\ (setting.lite => Executor = "main")
          /\ (~setting.lite => Executor = "command")
    BY DEF Executor, Threads
  <2> HIDE DEF runs
  <2>3. CASE \E answer \in {"false", "unsupported"} :
               /\ run' = [run EXCEPT ![Executor] = Working(r, <<>>, answer)]
               /\ UNCHANGED <<js, ghosts>>
    <3>1. Refused BY <2>1, <2>2, <2>3, Zenon DEF Refused
    <3> QED BY <2>1, <3>1 DEF Begun
  <2>4. CASE /\ runs.valid
             /\ run' = [run EXCEPT ![Executor] = Working(r, runs.writes, Answer(r))]
             /\ Remember(r) /\ stirred' = Stirs(r, runs.writes)
             /\ Disturb(Writes(runs.writes))
    <3>1. Begins(Executor, r, Answer(r)) BY <2>1, <2>4, AnswerGiven DEF Begins, runs
    <3> QED BY <2>1, <2>2, <3>1 DEF Begun
  <2> QED BY <2>1, <2>3, <2>4
<1> QED BY <1>1, <1>2

LEMMA JsSteps ==
  ASSUME JsNext, DOMAIN cells = Cells
  PROVE  /\ UNCHANGED <<setting, main, held, config, run, ghosts>>
         /\ main = "loop" /\ setting.lite
         /\ DOMAIN cells' = Cells /\ \A c \in Cells \ JsCells : cells'[c] = cells[c]
<1> USE DEF JsRuns, Quiet, Unmoved, ghosts, JsCells
<1>1. ASSUME NEW job, StartJob(job)
      PROVE  JsRuns /\ UNCHANGED <<setting, main, held, config, run, ghosts, cells>>
  BY <1>1 DEF StartJob
<1>2. CASE Read \/ EndRead \/ CheckDevice \/ ExecCallBack \/ SubGeoLocation \/ UnSubGeoLocation
  <2>1. JsRuns /\ UNCHANGED <<setting, main, held, config, run, ghosts, cells>>
    BY <1>2 DEF Read, EndRead, CheckDevice, ExecCallBack, SubGeoLocation, UnSubGeoLocation, Done
  <2> QED BY <2>1
<1>3. CASE EndWheel BY <1>3 DEF EndWheel, Done
<1>4. ASSUME NEW item \in {"BRIGHTNESS_VALUE", "BRIGHTNESS_MODE", "KEEP_SCREEN_ON"}, NEW v,
             AppSets(item, v)
      PROVE  /\ JsRuns /\ UNCHANGED <<setting, main, held, config, run, ghosts>>
             /\ DOMAIN cells' = Cells /\ \A c \in Cells \ JsCells : cells'[c] = cells[c]
  BY <1>4 DEF AppSets
<1>5. ASSUME NEW registered, RegistBundle(registered)
      PROVE  /\ JsRuns /\ UNCHANGED <<setting, main, held, config, run, ghosts>>
             /\ DOMAIN cells' = Cells /\ \A c \in Cells \ JsCells : cells'[c] = cells[c]
  BY <1>5 DEF RegistBundle
<1> QED BY <1>1, <1>2, <1>3, <1>4, <1>5 DEF JsNext

\* What the start of the main thread sets.
MainCells ==
  {"size", "colorMode", "foldStatus", "orientation", "argsColor", "ability", "shownColor"}
LEMMA MainWrites ==
  ASSUME MainNext, RunInv
  PROVE  \A c \in Cells \ MainCells : cells'[c] = cells[c]
<1>1. DOMAIN cells = Cells BY DEF RunInv
<1>2. CASE InitResolution BY <1>1, <1>2 DEF InitResolution, MainCells
<1>3. CASE InitJsApp BY <1>1, <1>3 DEF InitJsApp, MainCells
<1>4. CASE SetColorMode BY <1>1, <1>4 DEF SetColorMode, MainCells
<1>5. CASE AssignAbility BY <1>1, <1>5 DEF AssignAbility, MainCells
<1>6. CASE EndConfig \/ CopyColorMode \/ CreateInstance
  BY <1>6 DEF EndConfig, CopyColorMode, CreateInstance
<1> QED BY <1>2, <1>3, <1>4, <1>5, <1>6 DEF MainNext

LEMMA NextKinds ==
  ASSUME DeviceNext
  PROVE  MainNext \/ Begun \/ (\E t \in Threads : Write(t) \/ SendResult(t)) \/ JsNext
BY BeginKinds DEF DeviceNext, MainNext, JsNext

\* The first write of a thread lands, unless it needs the missing ability.
Lands(t) ==
  LET w == Head(run[t].writes) IN
    /\ w.cell \in Cells \ Own /\ w.cell \in Writes(run[t].writes)
    /\ cells' = [cells EXCEPT ![w.cell] = Landing(w)]
    /\ run'[t] = [request |-> run[t].request, writes |-> Tail(run[t].writes),
                  answer |-> run[t].answer, landed |-> With(run[t].landed, w.cell, Landing(w))]
Fails(t) ==
  /\ LosesAbility(Head(run[t].writes))
  /\ cells' = [cells EXCEPT !["failed"] = TRUE] /\ run' = run
LEMMA WriteKinds ==
  ASSUME RunInv, NEW t \in Threads, Write(t)
  PROVE  /\ UNCHANGED <<setting, main, held, config, requests, js, location, ghosts>>
         /\ run[t].writes # <<>> /\ ~Rests(t)
         /\ DOMAIN run' = Threads /\ \A u \in Threads \ {t} : run'[u] = run[u]
         /\ Lands(t) \/ Fails(t)
<1> DEFINE w == Head(run[t].writes)
<1>1. /\ UNCHANGED <<setting, main, held, config, requests, js, location, ghosts>>
      /\ run[t].writes # <<>> /\ ~Rests(t) /\ DOMAIN run = Threads
  BY DEF Write, RunInv
<1>2. w.cell \in Cells \ Own /\ w.cell \in Writes(run[t].writes)
  BY <1>1, FirstWrite DEF RunInv, Only
<1> HIDE DEF w
<1>3. CASE LosesAbility(w) BY <1>1, <1>3 DEF Write, Fails, w
<1>4. CASE ~LosesAbility(w)
  <2>1. /\ cells' = [cells EXCEPT ![w.cell] = Landing(w)]
        /\ run' = [run EXCEPT ![t].writes = Tail(@), ![t].landed = With(@, w.cell, Landing(w))]
    BY <1>4, Zenon DEF Write, w
  <2> DEFINE landed == With(run[t].landed, w.cell, Landing(w))
             rest == Tail(run[t].writes)
  <2> HIDE DEF landed, rest
  <2>2. run' = [[run EXCEPT ![t] = [run[t] EXCEPT !.writes = rest]]
                  EXCEPT ![t] = [[run[t] EXCEPT !.writes = rest] EXCEPT !.landed = landed]]
    BY <1>1, <2>1 DEF landed, rest, RunInv, Fields
  <2>3. run'[t] = [[run[t] EXCEPT !.writes = rest] EXCEPT !.landed = landed]
          /\ DOMAIN run' = Threads /\ \A u \in Threads \ {t} : run'[u] = run[u]
    BY <1>1, <2>2
  <2>4. run'[t] = [request |-> run[t].request, writes |-> rest, answer |-> run[t].answer,
                   landed |-> landed]
    BY <2>3 DEF RunInv, Fields
  <2> QED BY <1>1, <1>2, <2>1, <2>3, <2>4 DEF Lands, w, rest, landed
<1> QED BY <1>3, <1>4

\* What is left to write, and by whom, stays in place.
LEMMA RunKeeps == RunInv /\ [DeviceNext]_device_vars => RunInv'
<1> SUFFICES ASSUME RunInv, [DeviceNext]_device_vars PROVE RunInv'
  OBVIOUS
<1>1. CASE MainNext
  <2>1. /\ UNCHANGED <<setting, run>> /\ Rests("main") /\ DOMAIN cells' = Cells
    BY <1>1 DEF MainNext, InitResolution, EndConfig, InitJsApp, CopyColorMode, SetColorMode,
                CreateInstance, AssignAbility, Goes, Rest, RunInv
  <2>2. \A t \in Threads : Rests(t)' = Rests(t) BY <2>1 DEF Rests
  <2>3. /\ main' \in Copying \cup {"copy"} => ~setting.lite
        /\ cells'["ability"] = (main' = "loop" /\ ~setting.lite)
    <3>1. CASE AssignAbility
      <4>1. cells'["ability"] = TRUE /\ main' = "loop" /\ ~setting.lite
        BY <3>1 DEF AssignAbility, Goes, RunInv, Copying, Cells, Members
      <4> QED BY <4>1 DEF Copying
    <3>2. CASE InitJsApp
      <4>1. cells'["ability"] = cells["ability"] /\ cells["ability"] = FALSE
              /\ main' = IF setting.lite THEN "loop" ELSE "copy"
        BY <3>2 DEF InitJsApp, Goes, RunInv, Cells, Members
      <4> QED BY <4>1 DEF Copying
    <3>3. CASE InitResolution
      <4>1. cells'["ability"] = cells["ability"] /\ cells["ability"] = FALSE /\ main' = "config"
        BY <3>3 DEF InitResolution, Goes, RunInv, Cells, Members
      <4> QED BY <4>1 DEF Copying
    <3>4. CASE EndConfig
      <4>1. cells'["ability"] = cells["ability"] /\ cells["ability"] = FALSE /\ main' = "init"
        BY <3>4 DEF EndConfig, Goes, RunInv
      <4> QED BY <4>1 DEF Copying
    <3>5. CASE CopyColorMode \/ SetColorMode \/ CreateInstance
      <4>1. cells'["ability"] = cells["ability"] /\ cells["ability"] = FALSE
              /\ main' \in Copying /\ ~setting.lite
        BY <3>5 DEF CopyColorMode, SetColorMode, CreateInstance, Goes, RunInv, Cells, Members,
                    Copying
      <4> QED BY <4>1 DEF Copying
    <3> QED BY <1>1, <3>1, <3>2, <3>3, <3>4, <3>5 DEF MainNext
  <2>4. /\ main' \in Copying \cup {"copy"} => ~setting'.lite
        /\ cells'["ability"] = (main' = "loop" /\ ~setting'.lite)
    <3>1. setting' = setting BY <2>1
    <3> QED BY <2>3, <3>1, Zenon
  <2>5. \A t \in Threads : /\ DOMAIN run'[t] = Fields
                           /\ Only(run'[t].writes, Cells \ Own)
                           /\ Rests(t)' => run'[t].writes = <<>>
    BY <2>1, <2>2 DEF RunInv
  <2>6. (setting'.lite => Rests("command")') /\ Rests("main")' /\ DOMAIN run' = Threads
    BY <2>1, <2>2 DEF RunInv, Threads
  <2> QED BY <2>1, <2>4, <2>5, <2>6 DEF RunInv, Only
<1>2. CASE Begun
  <2>1. /\ UNCHANGED <<setting, cells, main>> BY <1>2 DEF Begun
  <2>2. ASSUME NEW t \in Threads, NEW r, NEW writes, NEW answer,
               Only(writes, Cells \ Own), answer # "none",
               run' = [run EXCEPT ![t] = Working(r, writes, answer)],
               setting.lite => t = "main",
               ~setting.lite /\ main # "config" => t = "command"
        PROVE  RunInv'
    <3>1. run'[t] = Working(r, writes, answer) /\ DOMAIN run' = Threads
            /\ \A u \in Threads \ {t} : run'[u] = run[u]
      BY <2>2 DEF RunInv
    <3>2. DOMAIN run'[t] = Fields /\ run'[t].writes = writes /\ run'[t].answer = answer
      BY <3>1 DEF Working, Fields
    <3>3. ~Rests(t)' /\ \A u \in Threads \ {t} : Rests(u)' = Rests(u)
      BY <2>2, <3>1, <3>2 DEF Rests
    <3>4. \A u \in Threads : /\ DOMAIN run'[u] = Fields
                             /\ Only(run'[u].writes, Cells \ Own)
                             /\ Rests(u)' => run'[u].writes = <<>>
      BY <2>2, <3>1, <3>2, <3>3 DEF RunInv
    <3>5. "main" \in Threads /\ "command" \in Threads BY DEF Threads
    <3> QED BY <2>1, <2>2, <3>1, <3>3, <3>4, <3>5 DEF RunInv, Only
  <2>3. CASE Refused
    <3>1. CASE run' = run
      <4>1. \A t \in Threads : Rests(t)' = Rests(t) BY <3>1 DEF Rests
      <4> QED BY <2>1, <3>1, <4>1 DEF RunInv, Only, Threads
    <3>2. CASE run' # run
      <4>1. PICK t \in Threads, answer \in {"false", "unsupported"} : \E r :
              /\ run' = [run EXCEPT ![t] = Working(r, <<>>, answer)]
              /\ setting.lite => t = "main"
              /\ ~setting.lite /\ main # "config" => t = "command"
        BY <2>3, <3>2, Zenon DEF Refused
      <4>2. Only(<<>>, Cells \ Own) BY OnlyShort
      <4> QED BY <2>2, <4>1, <4>2
    <3> QED BY <3>1, <3>2
  <2>4. ASSUME NEW t \in Threads, NEW r, NEW answer, Begins(t, r, answer),
               setting.lite => t = "main",
               ~setting.lite /\ main # "config" => t = "command"
        PROVE  RunInv'
    <3> DEFINE runs == RunOf(r.command, r.type, r.args, cells, setting)
    <3>1. Only(runs.writes, Cells \ Own) BY <2>4, RunWrites DEF Begins
    <3> QED BY <2>2, <2>4, <3>1 DEF Begins
  <2> QED BY <1>2, <2>3, <2>4 DEF Begun
<1>3. ASSUME NEW t \in Threads, Write(t) PROVE RunInv'
  <2>1. /\ UNCHANGED <<setting, main>>
        /\ DOMAIN run' = Threads /\ \A u \in Threads \ {t} : run'[u] = run[u]
        /\ run[t].writes # <<>> /\ ~Rests(t)
        /\ Lands(t) \/ Fails(t)
    BY <1>3, WriteKinds
  <2>2. DOMAIN cells' = Cells /\ cells'["ability"] = cells["ability"]
    <3>1. DOMAIN cells = Cells BY DEF RunInv
    <3>2. CASE Fails(t) BY <3>1, <3>2 DEF Fails
    <3>3. CASE Lands(t) BY <3>1, <3>3 DEF Lands, Own
    <3> QED BY <2>1, <3>2, <3>3
  <2>3. CASE Fails(t)
    <3>1. \A u \in Threads : Rests(u)' = Rests(u) BY <2>3 DEF Fails, Rests
    <3> QED BY <2>1, <2>2, <2>3, <3>1 DEF RunInv, Only, Fails, Threads
  <2>4. CASE Lands(t)
    <3>1. DOMAIN run'[t] = Fields /\ run'[t].writes = Tail(run[t].writes)
            /\ run'[t].answer = run[t].answer
      BY <2>4 DEF Lands, Fields
    <3>2. \A u \in Threads : Rests(u)' = Rests(u) BY <2>1, <3>1 DEF Rests
    <3>3. Only(run'[t].writes, Cells \ Own)
      BY <2>1, <3>1, FirstWrite DEF RunInv, Only
    <3>4. \A u \in Threads : /\ DOMAIN run'[u] = Fields
                             /\ Only(run'[u].writes, Cells \ Own)
                             /\ Rests(u)' => run'[u].writes = <<>>
      BY <2>1, <3>1, <3>2, <3>3 DEF RunInv
    <3> QED BY <2>1, <2>2, <3>2, <3>4 DEF RunInv, Only, Threads
  <2> QED BY <2>1, <2>3, <2>4
<1>4. ASSUME NEW t \in Threads, SendResult(t) PROVE RunInv'
  <2>1. /\ UNCHANGED <<setting, main, cells>>
        /\ run' = [run EXCEPT ![t] = Idle]
    BY <1>4 DEF SendResult
  <2>2. run'[t] = Idle /\ DOMAIN run' = Threads /\ \A u \in Threads \ {t} : run'[u] = run[u]
    BY <2>1 DEF RunInv
  <2>3. DOMAIN Idle = Fields /\ Idle.writes = <<>> /\ Idle.answer = "none"
    BY DEF Idle, Fields
  <2>4. Rests(t)' /\ \A u \in Threads \ {t} : Rests(u)' = Rests(u) BY <2>2, <2>3 DEF Rests
  <2>5. Only(<<>>, Cells \ Own) BY OnlyShort
  <2>6. \A u \in Threads : /\ DOMAIN run'[u] = Fields
                           /\ Only(run'[u].writes, Cells \ Own)
                           /\ Rests(u)' => run'[u].writes = <<>>
    BY <2>2, <2>3, <2>4, <2>5 DEF RunInv
  <2> QED BY <2>1, <2>2, <2>4, <2>6 DEF RunInv, Only, Threads
<1>5. CASE JsNext
  <2>1. /\ UNCHANGED <<setting, main, run>> /\ DOMAIN cells' = Cells
        /\ cells'["ability"] = cells["ability"]
    BY <1>5, JsSteps DEF RunInv, JsCells, Cells, Members
  <2>2. \A t \in Threads : Rests(t)' = Rests(t) BY <2>1 DEF Rests
  <2> QED BY <2>1, <2>2 DEF RunInv, Only, Threads
<1>6. CASE UNCHANGED device_vars
  <2>1. UNCHANGED <<setting, main, run, cells>> BY <1>6 DEF device_vars
  <2>2. \A t \in Threads : Rests(t)' = Rests(t) BY <2>1 DEF Rests
  <2> QED BY <2>1, <2>2 DEF RunInv, Only, Threads
<1> QED BY <1>1, <1>2, <1>3, <1>4, <1>5, <1>6, NextKinds

LEMMA InitRunInv == DeviceInit => RunInv
<1> SUFFICES ASSUME DeviceInit PROVE RunInv OBVIOUS
<1>1. /\ cells = StartCells(setting) /\ main = "resolution" /\ run = [t \in Threads |-> Idle]
  BY DEF DeviceInit
<1>2. DOMAIN cells = Cells /\ cells["ability"] = FALSE
  BY <1>1 DEF StartCells, Cells, Members
<1>3. DOMAIN Idle = Fields /\ Idle.writes = <<>> /\ Idle.answer = "none" BY DEF Idle, Fields
<1>4. Only(<<>>, Cells \ Own) BY OnlyShort
<1>5. DOMAIN run = Threads /\ \A t \in Threads : run[t] = Idle /\ Rests(t)
  BY <1>1, <1>3 DEF Rests
<1> QED BY <1>1, <1>2, <1>3, <1>4, <1>5 DEF RunInv, Copying, Threads

(***************************************************************************)
(* The colour of the rich previewer: held three times, and copied by the   *)
(* main thread while the command thread may change it.                     *)
(***************************************************************************)
Shade(color) == IF color = "dark" THEN "dark" ELSE "light"
Aligned ==
  /\ cells["shownColor"] = cells["argsColor"]
  /\ cells["argsColor"] = Shade(cells["colorMode"])
\* What is left of a ColorMode command, and what it has done already.
Recolours ==
  LET writes == run["command"].writes IN \E v \in ColorModes :
    \/ writes = <<Put("colorMode", v), Put("argsColor", v), Put("shownColor", v)>>
    \/ writes = <<Put("argsColor", v), Put("shownColor", v)>> /\ cells["colorMode"] = v
    \/ writes = <<Put("shownColor", v)>> /\ cells["colorMode"] = v /\ cells["argsColor"] = v
\* Unless stirred, each copy agrees with the one it was made from.
ColourInv ==
  ~setting.lite /\ ~stirred =>
    /\ main = "args" => held = cells["colorMode"]
    /\ main \in {"create", "assign"} => cells["argsColor"] = Shade(cells["colorMode"])
    /\ main = "assign" => held = cells["argsColor"]
    /\ main \in Copying => ~UnderWay(Colours)
    /\ main = "loop" => (~UnderWay(Colours) /\ Aligned) \/ Recolours

LEMMA ColourCommands ==
  ASSUME NEW c, NEW t, NEW a, NEW d, NEW s, RunOf(c, t, a, d, s).valid,
         Writes(RunOf(c, t, a, d, s).writes) \cap Colours # {}
  PROVE  \/ c = "LoadDocument"
         \/ \E v \in ColorModes : RunOf(c, t, a, d, s).writes
              = <<Put("colorMode", v), Put("argsColor", v), Put("shownColor", v)>>
<1> DEFINE writes == RunOf(c, t, a, d, s).writes
<1>1. PICK S : /\ Only(writes, S)
               /\ \/ c \in DOMAIN Entries /\ S = {Entries[c]}
                  \/ t = "set" /\ c = "ColorMode"
                  \/ c = "LoadDocument"
                  \/ S \in {{"LONGITUDE", "LATITUDE"}, ScreenCells, TouchCells \cup {"engine"},
                            KeyCells \cup {"engine"}, ActionCells, {}}
  BY CommandWrites
<1>2. S \cap Colours # {} BY <1>1 DEF Only
<1>3. c = "LoadDocument" \/ (t = "set" /\ c = "ColorMode")
  BY <1>1, <1>2 DEF Colours, Entries, ScreenCells, TouchCells, KeyCells, ActionCells
<1>4. CASE t = "set" /\ c = "ColorMode"
  <2>1. RunOf(c, t, a, d, s) = RunSet("ColorMode", a, d, s) BY <1>4 DEF RunOf
  <2>2. writes # <<>> BY WritesOf
  <2> QED BY <2>1, <2>2, ColorWrites
<1> QED BY <1>3, <1>4

\* What a write that is about no colour does not change.
LEMMA OtherWrite ==
  ASSUME RunInv, NEW t \in Threads, Lands(t), NEW which \in SUBSET Cells,
         Writes(run[t].writes) \cap which = {}
  PROVE  \A c \in which : cells'[c] = cells[c]
BY DEF Lands, RunInv

\* Fewer writes are under way after one has landed.
LEMMA LessUnderWay ==
  ASSUME RunInv, NEW t \in Threads, Write(t)
  PROVE  \A u \in Threads : Writes(run'[u].writes) \subseteq Writes(run[u].writes)
<1>1. /\ run[t].writes # <<>> /\ \A u \in Threads \ {t} : run'[u] = run[u]
      /\ Lands(t) \/ Fails(t)
  BY WriteKinds
<1>2. CASE Fails(t) BY <1>2 DEF Fails
<1>3. CASE Lands(t)
  <2>1. run'[t].writes = Tail(run[t].writes) BY <1>3 DEF Lands
  <2>2. Writes(Tail(run[t].writes)) \subseteq Writes(run[t].writes)
    BY <1>1, FirstWrite DEF RunInv, Only
  <2> QED BY <1>1, <2>1, <2>2
<1> QED BY <1>1, <1>2, <1>3

\* The three writes of ColorMode, one after the other.
LEMMA RecolourWrite ==
  ASSUME RunInv, ~setting.lite, main = "loop", Recolours, Lands("command")
  PROVE  \/ Recolours'
         \/ Writes(run'["command"].writes) = {} /\ Aligned'
<1> DEFINE writes == run["command"].writes
<1>1. PICK v \in ColorModes :
        \/ writes = <<Put("colorMode", v), Put("argsColor", v), Put("shownColor", v)>>
        \/ writes = <<Put("argsColor", v), Put("shownColor", v)>> /\ cells["colorMode"] = v
        \/ writes = <<Put("shownColor", v)>> /\ cells["colorMode"] = v /\ cells["argsColor"] = v
  BY DEF Recolours
<1>2. DOMAIN cells = Cells /\ Colours \subseteq Cells /\ cells["ability"] = TRUE
  BY DEF RunInv, Colours, Cells, Members
<1>3. /\ cells' = [cells EXCEPT ![Head(writes).cell] = Landing(Head(writes))]
      /\ run'["command"].writes = Tail(writes)
  BY DEF Lands
<1>4. /\ Landing(Put("colorMode", v)) = v /\ Landing(Put("argsColor", v)) = v
      /\ Landing(Put("shownColor", v)) = cells["argsColor"]
  BY <1>2 DEF Landing, Put, DataItems, InitSharedData
<1>5. /\ Put("colorMode", v).cell = "colorMode" /\ Put("argsColor", v).cell = "argsColor"
      /\ Put("shownColor", v).cell = "shownColor"
  BY DEF Put
<1> HIDE DEF writes
<1>6. CASE writes = <<Put("colorMode", v), Put("argsColor", v), Put("shownColor", v)>>
  <2>1. /\ Head(writes) = Put("colorMode", v)
        /\ Tail(writes) = <<Put("argsColor", v), Put("shownColor", v)>>
    BY <1>6
  <2>2. cells'["colorMode"] = v BY <1>2, <1>3, <1>4, <1>5, <2>1 DEF Colours
  <2> QED BY <1>3, <2>1, <2>2 DEF Recolours
<1>7. CASE writes = <<Put("argsColor", v), Put("shownColor", v)>> /\ cells["colorMode"] = v
  <2>1. Head(writes) = Put("argsColor", v) /\ Tail(writes) = <<Put("shownColor", v)>>
    BY <1>7
  <2>2. cells'["colorMode"] = v /\ cells'["argsColor"] = v
    BY <1>2, <1>3, <1>4, <1>5, <1>7, <2>1 DEF Colours
  <2> QED BY <1>3, <2>1, <2>2 DEF Recolours
<1>8. CASE writes = <<Put("shownColor", v)>> /\ cells["colorMode"] = v /\ cells["argsColor"] = v
  <2>1. Head(writes) = Put("shownColor", v) /\ Tail(writes) = <<>>
    BY <1>8
  <2>2. /\ cells'["colorMode"] = v /\ cells'["argsColor"] = v /\ cells'["shownColor"] = v
    BY <1>2, <1>3, <1>4, <1>5, <1>8, <2>1 DEF Colours
  <2>3. Shade(v) = v BY DEF Shade, ColorModes
  <2> QED BY <1>3, <2>1, <2>2, <2>3, WritesOf DEF Aligned
<1> QED BY <1>1, <1>6, <1>7, <1>8

LEMMA ColourKeeps == RunInv /\ ColourInv /\ [DeviceNext]_device_vars => ColourInv'
<1> SUFFICES ASSUME RunInv, ColourInv, [DeviceNext]_device_vars, ~setting'.lite, ~stirred'
             PROVE  ColourInv'
  BY DEF ColourInv
<1>1. CASE MainNext
  <2> USE DEF Goes, Rest, Copying
  <2>1. CASE InitResolution \/ EndConfig \/ InitJsApp
    <3>1. setting' = setting /\ main' \in {"config", "init", "loop", "copy"}
            /\ (main' = "loop" => setting.lite)
      BY <2>1 DEF InitResolution, EndConfig, InitJsApp
    <3> QED BY <3>1 DEF ColourInv
  <2>2. CASE CopyColorMode
    <3>1. ~UnderWay(Colours) /\ main' = "args" /\ UNCHANGED <<run, cells>>
      BY <2>2 DEF CopyColorMode
    <3>2. held' = cells["colorMode"]
      BY <2>2, <3>1 DEF CopyColorMode, UnderWay, Colours, Threads
    <3> QED BY <3>1, <3>2 DEF ColourInv, UnderWay
  <2>3. CASE SetColorMode
    <3>1. ~UnderWay(Colours) /\ held = cells["colorMode"] /\ main' = "create" /\ run' = run
      BY <2>3 DEF SetColorMode, ColourInv
    <3>2. cells' = [cells EXCEPT !["argsColor"] = Shade(held)]
      BY <2>3, Zenon DEF SetColorMode, Shade
    <3>3. cells'["argsColor"] = Shade(held) /\ cells'["colorMode"] = cells["colorMode"]
      BY <3>2 DEF RunInv, Cells, Members
    <3> QED BY <3>1, <3>3 DEF ColourInv, UnderWay
  <2>4. CASE CreateInstance
    BY <2>4 DEF CreateInstance, ColourInv, UnderWay
  <2>5. CASE AssignAbility
    <3>1. /\ ~UnderWay(Colours) /\ held = cells["argsColor"]
          /\ cells["argsColor"] = Shade(cells["colorMode"])
          /\ main' = "loop" /\ run' = run
          /\ cells' = [cells EXCEPT !["ability"] = TRUE, !["shownColor"] = held]
      BY <2>5 DEF AssignAbility, ColourInv
    <3>2. /\ cells'["argsColor"] = cells["argsColor"] /\ cells'["colorMode"] = cells["colorMode"]
          /\ cells'["shownColor"] = held
      BY <3>1 DEF RunInv, Cells, Members
    <3> QED BY <3>1, <3>2 DEF ColourInv, UnderWay, Aligned
  <2> QED BY <1>1, <2>1, <2>2, <2>3, <2>4, <2>5 DEF MainNext
<1>2. CASE Begun
  <2>1. UNCHANGED <<setting, cells, main, held>> BY <1>2 DEF Begun
  <2>2. CASE main \notin Copying \cup {"loop"}
    BY <2>1, <2>2 DEF ColourInv, Copying
  <2>3. CASE main \in Copying \cup {"loop"}
    <3>1. ASSUME NEW t \in Threads, Rests(t), NEW r, NEW writes, NEW answer,
                 run' = [run EXCEPT ![t] = Working(r, writes, answer)],
                 ~setting.lite /\ main # "config" => t = "command",
                 stirred' = stirred, Writes(writes) \cap Colours = {}
          PROVE  ColourInv'
      <4>1. /\ run'[t].writes = writes /\ \A u \in Threads \ {t} : run'[u] = run[u]
            /\ run[t].writes = <<>> /\ t = "command"
        BY <2>1, <2>3, <3>1 DEF RunInv, Working, Copying
      <4>2. UnderWay(Colours)' => UnderWay(Colours) BY <3>1, <4>1 DEF UnderWay
      <4>3. main = "loop" => ~UnderWay(Colours) /\ Aligned
        <5>1. ~Recolours
          <6>1. run["command"].writes = <<>> BY <4>1
          <6>2. \A p, q, s : <<p>> # <<>> /\ <<p, q>> # <<>> /\ <<p, q, s>> # <<>> OBVIOUS
          <6> QED BY <6>1, <6>2, Zenon DEF Recolours
        <5> QED BY <2>1, <3>1, <4>1, <5>1 DEF ColourInv
      <4> QED BY <2>1, <3>1, <4>2, <4>3 DEF ColourInv, Aligned
    <3>2. CASE Refused
      <4>1. CASE run' = run
        BY <2>1, <3>2, <4>1 DEF Refused, ghosts, ColourInv, UnderWay, Aligned, Recolours
      <4>2. CASE run' # run
        <5>1. PICK t \in Threads, answer \in {"false", "unsupported"} : \E r :
                /\ Rests(t) /\ run' = [run EXCEPT ![t] = Working(r, <<>>, answer)]
                /\ ~setting.lite /\ main # "config" => t = "command"
          BY <3>2, <4>2, Zenon DEF Refused
        <5>2. stirred' = stirred /\ Writes(<<>>) \cap Colours = {}
          BY <3>2, WritesOf DEF Refused, ghosts
        <5> QED BY <3>1, <5>1, <5>2
      <4> QED BY <4>1, <4>2
    <3>3. ASSUME NEW t \in Threads, NEW r, NEW answer, Begins(t, r, answer),
                 ~setting.lite /\ main # "config" => t = "command"
          PROVE  ColourInv'
      <4> DEFINE runs == RunOf(r.command, r.type, r.args, cells, setting)
      <4> HIDE DEF runs
      <4>1. /\ runs.valid /\ Rests(t) /\ run' = [run EXCEPT ![t] = Working(r, runs.writes, answer)]
            /\ stirred' = Stirs(r, runs.writes)
        BY <3>3 DEF Begins, runs
      <4>2. CASE Writes(runs.writes) \cap Colours = {}
        <5>1. stirred' = stirred BY <4>1, <4>2, Zenon DEF Stirs
        <5> QED BY <3>1, <3>3, <4>1, <4>2, <5>1
      <4>3. CASE Writes(runs.writes) \cap Colours # {}
        <5>1. r.command # "LoadDocument" /\ main \notin Copying
          BY <4>1, <4>3, Zenon DEF Stirs
        <5>2. \E v \in ColorModes : runs.writes
                = <<Put("colorMode", v), Put("argsColor", v), Put("shownColor", v)>>
          BY <4>1, <4>3, <5>1, ColourCommands DEF runs
        <5>3. main = "loop" /\ t = "command" /\ run'["command"].writes = runs.writes
          BY <2>1, <2>3, <3>3, <4>1, <5>1 DEF RunInv, Working
        <5> QED BY <2>1, <5>2, <5>3 DEF ColourInv, Copying, Recolours
      <4> QED BY <4>2, <4>3
    <3> QED BY <1>2, <3>2, <3>3 DEF Begun
  <2> QED BY <2>2, <2>3
<1>3. ASSUME NEW t \in Threads, Write(t) PROVE ColourInv'
  <2>1. /\ UNCHANGED <<setting, main, held, stirred>>
        /\ run[t].writes # <<>> /\ ~Rests(t)
        /\ DOMAIN run' = Threads /\ \A u \in Threads \ {t} : run'[u] = run[u]
        /\ Lands(t) \/ Fails(t)
    BY <1>3, WriteKinds DEF ghosts
  <2>2. UnderWay(Colours)' => UnderWay(Colours) BY <1>3, LessUnderWay DEF UnderWay
  <2>3. CASE ~UnderWay(Colours)
    <3>1. \A c \in Colours : cells'[c] = cells[c]
      <4>0. Colours \subseteq Cells /\ "failed" \notin Colours BY DEF Colours, Cells, Members
      <4>1. CASE Fails(t) BY <4>0, <4>1 DEF Fails, RunInv
      <4>2. CASE Lands(t) BY <2>3, <4>0, <4>2, OtherWrite DEF UnderWay
      <4> QED BY <2>1, <4>1, <4>2
    <3>2. ~Recolours
      <4>1. \A v : /\ "colorMode" \in Writes(<<Put("colorMode", v), Put("argsColor", v), Put("shownColor", v)>>)
                   /\ "argsColor" \in Writes(<<Put("argsColor", v), Put("shownColor", v)>>)
                   /\ "shownColor" \in Writes(<<Put("shownColor", v)>>)
        BY WritesOf
      <4> QED BY <2>3, <4>1 DEF Recolours, UnderWay, Colours, Threads
    <3> QED BY <2>1, <2>2, <2>3, <3>1, <3>2 DEF ColourInv, Aligned, Colours
  <2>4. CASE UnderWay(Colours)
    <3>1. CASE main # "loop" BY <2>1, <2>4, <3>1 DEF ColourInv, Copying
    <3>2. CASE main = "loop"
      <4>1. Recolours /\ t = "command"
        BY <2>1, <2>4, <3>2 DEF ColourInv, RunInv, Threads
      <4>2. Lands("command")
        BY <2>1, <3>2, <4>1 DEF Fails, LosesAbility, RunInv
      <4>3. \/ Recolours'
            \/ Writes(run'["command"].writes) = {} /\ Aligned'
        BY <2>1, <3>2, <4>1, <4>2, RecolourWrite
      <4>4. run'["main"].writes = <<>>
        BY <2>1, <3>2, <4>1 DEF RunInv, Threads
      <4>5. Writes(run'["command"].writes) = {} => ~UnderWay(Colours)'
        BY <4>4, WritesOf DEF UnderWay, Threads
      <4> QED BY <2>1, <3>2, <4>3, <4>5 DEF ColourInv, Copying
    <3> QED BY <3>1, <3>2
  <2> QED BY <2>3, <2>4
<1>4. ASSUME NEW t \in Threads, SendResult(t) PROVE ColourInv'
  <2>1. /\ UNCHANGED <<setting, main, cells, held, stirred>>
        /\ run' = [run EXCEPT ![t] = Idle] /\ run[t].writes = <<>> /\ ~Rests(t)
    BY <1>4 DEF SendResult, ghosts
  <2>2. run'[t] = Idle /\ \A u \in Threads \ {t} : run'[u] = run[u]
    BY <2>1 DEF RunInv
  <2>3. run'[t].writes = <<>> /\ \A u \in Threads : run'[u].writes = run[u].writes
    BY <2>1, <2>2 DEF Idle
  <2>4. UnderWay(Colours)' = UnderWay(Colours) BY <2>3 DEF UnderWay
  <2>5. run'["command"].writes = run["command"].writes BY <2>3 DEF Threads
  <2>6. Recolours' = Recolours
    BY <2>1, <2>5 DEF Recolours
  <2> QED BY <2>1, <2>4, <2>6 DEF ColourInv, Aligned
<1>5. CASE JsNext
  BY <1>5, JsSteps DEF RunInv
<1>6. CASE UNCHANGED device_vars
  BY <1>6 DEF device_vars, ColourInv, UnderWay, Aligned, Recolours
<1> QED BY <1>1, <1>2, <1>3, <1>4, <1>5, <1>6, NextKinds

(* However the colour modes of the configuration, of the options and of    *)
(* the IDE are set by two threads before, the application starts in the    *)
(* mode that the next ColorMode command is compared with, and follows it   *)
(* (RunNormalAbility, ColorModeChanged), for any commands in any order.    *)
THEOREM ColoursAgreeOnceRunning == DeviceSpec => []ColoursAgree
<1>1. DeviceInit => RunInv /\ ColourInv
  BY InitRunInv DEF DeviceInit, ColourInv, Copying
<1>2. RunInv /\ ColourInv => ColoursAgree
  <2> SUFFICES ASSUME RunInv, ColourInv, cells["ability"], ~UnderWay(Colours), ~stirred
               PROVE  Aligned
    BY DEF ColoursAgree, Aligned, Shade
  <2>1. main = "loop" /\ ~setting.lite BY DEF RunInv
  <2>2. ~Recolours
    <3>1. \A v : /\ "colorMode" \in Writes(<<Put("colorMode", v), Put("argsColor", v), Put("shownColor", v)>>)
                 /\ "argsColor" \in Writes(<<Put("argsColor", v), Put("shownColor", v)>>)
                 /\ "shownColor" \in Writes(<<Put("shownColor", v)>>)
      BY WritesOf
    <3> QED BY <3>1 DEF Recolours, UnderWay, Colours, Threads
  <2> QED BY <2>1, <2>2 DEF ColourInv
<1> QED BY <1>1, <1>2, RunKeeps, ColourKeeps, PTL DEF DeviceSpec

(***************************************************************************)
(* What is answered with true was done.  A command writes its cells one    *)
(* after the other; what it has written is where it was asked to be.       *)
(***************************************************************************)
Did(t, which) ==
  \A c \in which :
    c \in DOMAIN run[t].landed /\ run[t].landed[c] = Asked(run[t].request)[c]
Holds(values, which) == \A c \in which : cells[c] = values[c]

EntryDone(t) ==
  LET r == run[t].request
      item == Entries[r.command]
      value == Meant(r.command, Member(r.args, r.command)) IN
    \/ run[t].writes = <<Put(item, value)>> /\ IsValid(item, value)
    \/ run[t].writes = <<>> /\ Did(t, {item})
LocationDone(t) ==
  LET r == run[t].request
      long == Put("LONGITUDE", Degrees(r.args, "longitude"))
      lat == Put("LATITUDE", Degrees(r.args, "latitude")) IN
    /\ IsValid("LONGITUDE", long.value) /\ IsValid("LATITUDE", lat.value)
    /\ \/ run[t].writes = <<long, lat>>
       \/ run[t].writes = <<lat>> /\ Did(t, {"LONGITUDE"})
       \/ run[t].writes = <<>> /\ Did(t, {"LONGITUDE", "LATITUDE"})

Touched(r) ==
  [x |-> X(r), y |-> Y(r), touchAction |-> TouchTypes[r.command],
   pointer |-> AskedOf(r.command, r.args)]
TouchDone(t) ==
  LET r == run[t].request
      x == Put("x", X(r))
      y == Put("y", Y(r))
      action == Put("touchAction", TouchTypes[r.command])
      pointer == Put("pointer", AskedOf(r.command, r.args))
      engine == Put("engine", "pointer") IN
    \/ /\ setting.lite
       /\ \/ run[t].writes = <<x, y, action, pointer>>
          \/ run[t].writes = <<y, action, pointer>> /\ Did(t, {"x"})
          \/ run[t].writes = <<action, pointer>> /\ Did(t, {"x", "y"})
          \/ run[t].writes \in {<<pointer>>, <<>>} /\ Did(t, DOMAIN Asked(r))
    \/ /\ ~setting.lite
       /\ \/ run[t].writes = <<x, y, action, pointer, engine>>
          \/ run[t].writes = <<y, action, pointer, engine>> /\ Holds(Touched(r), {"x"})
          \/ run[t].writes = <<action, pointer, engine>> /\ Holds(Touched(r), {"x", "y"})
          \/ run[t].writes = <<pointer, engine>> /\ Holds(Touched(r), {"x", "y", "touchAction"})
          \/ run[t].writes = <<engine>>
               /\ Holds(Touched(r), {"x", "y", "touchAction", "pointer"})
          \/ run[t].writes = <<>> /\ Did(t, {"engine"})
KeyDone(t) ==
  LET a == run[t].request.args
      code == Put("codePoint", AsInt(Member(a, "codePoint")))
      key == Put("key", SetKeyEvent(a)) IN
    \/ run[t].writes = <<>> /\ Did(t, {"engine"})
    \/ /\ IsIme(a)
       /\ \/ run[t].writes = <<code, Put("engine", "inputMethod")>>
          \/ run[t].writes = <<Put("engine", "inputMethod")>> /\ cells["codePoint"] = code.value
    \/ /\ ~IsIme(a)
       /\ \/ run[t].writes = <<key, Put("engine", "key")>>
          \/ run[t].writes = <<Put("engine", "key")>> /\ cells["key"] = key.value

Sets(r, commands) == r.type = "set" /\ r.command \in commands
Acts(r, commands) == r.type = "action" /\ ~setting.static /\ r.command \in commands
DoneBy(t) ==
  LET r == run[t].request IN
    /\ Sets(r, DOMAIN Entries) => EntryDone(t)
    /\ Sets(r, {"Location"}) => LocationDone(t)
    /\ Acts(r, DOMAIN TouchTypes) => TouchDone(t)
    /\ Acts(r, {"KeyPress"}) => KeyDone(t)
\* In the rich previewer the configuration sets no input.
DoneInv ==
  /\ \A t \in Threads : run[t].answer = "true" => DoneBy(t)
  /\ ~setting.lite => run["main"].answer # "true" /\ Writes(run["main"].writes) \cap InputCells = {}

\* What the kinds of commands ask for.
LEMMA AskedValues ==
  ASSUME NEW r
  PROVE  /\ Sets(r, DOMAIN Entries) =>
              Asked(r) = [c \in {Entries[r.command]} |-> Meant(r.command, Member(r.args, r.command))]
         /\ Sets(r, {"Location"}) =>
              Asked(r) = [LATITUDE |-> Degrees(r.args, "latitude"),
                          LONGITUDE |-> Degrees(r.args, "longitude")]
         /\ Acts(r, DOMAIN TouchTypes) => Asked(r) = AskedTouch(r)
         /\ Acts(r, {"KeyPress"}) => Asked(r) = AskedKey(r)
         /\ ~Sets(r, DOMAIN Entries) /\ ~Sets(r, {"Location"})
              /\ ~Acts(r, DOMAIN TouchTypes) /\ ~Acts(r, {"KeyPress"}) => Asked(r) = NoCells
<1>1. CASE Sets(r, DOMAIN Entries)
  <2>1. "Location" \notin DOMAIN Entries BY DEF Entries
  <2> QED BY <1>1, <2>1 DEF Sets, Acts, Asked
<1>2. CASE Sets(r, {"Location"})
  <2>1. "Location" \notin DOMAIN Entries BY DEF Entries
  <2> QED BY <1>2, <2>1 DEF Sets, Acts, Asked
<1>3. CASE Acts(r, DOMAIN TouchTypes)
  <2>1. "KeyPress" \notin DOMAIN TouchTypes BY DEF TouchTypes
  <2> QED BY <1>3, <2>1 DEF Sets, Acts, Asked
<1>4. CASE Acts(r, {"KeyPress"})
  <2>1. "KeyPress" \notin DOMAIN TouchTypes BY DEF TouchTypes
  <2> QED BY <1>4, <2>1 DEF Sets, Acts, Asked
<1>5. CASE ~Sets(r, DOMAIN Entries) /\ ~Sets(r, {"Location"})
             /\ ~Acts(r, DOMAIN TouchTypes) /\ ~Acts(r, {"KeyPress"})
  BY <1>5 DEF Sets, Acts, Asked
<1> QED BY <1>1, <1>2, <1>3, <1>4, <1>5

LEMMA WithValue ==
  ASSUME NEW f, NEW c, NEW v
  PROVE  /\ DOMAIN With(f, c, v) = DOMAIN f \cup {c} /\ With(f, c, v)[c] = v
         /\ \A d \in DOMAIN f \ {c} : With(f, c, v)[d] = f[d]
BY DEF With

\* Nothing else gets in the way of a command of the IDE: not the main thread's
\* start, not its configuration, not the JS thread.
LEMMA DoneElsewhere ==
  ASSUME DoneInv, RunInv, UNCHANGED setting, NEW t \in Threads, run'[t] = run[t], run[t].answer = "true",
         \A c \in InputCells : cells'[c] = cells[c]
  PROVE  DoneBy(t)'
<1> DEFINE r == run[t].request
<1>1. DoneBy(t) BY DEF DoneInv
<1>2. run'[t].request = r /\ run'[t].writes = run[t].writes /\ run'[t].landed = run[t].landed
  OBVIOUS
<1>3. Asked(r)' = Asked(r) BY DEF Asked, AskedTouch, AskedKey
<1>4. \A which : Did(t, which) => Did(t, which)' BY <1>2, <1>3, Zenon DEF Did
<1>5. \A values, which : which \subseteq InputCells /\ Holds(values, which) => Holds(values, which)'
  BY DEF Holds
<1>6. EntryDone(t) => EntryDone(t)' BY <1>2, <1>4 DEF EntryDone
<1>7. LocationDone(t) => LocationDone(t)' BY <1>2, <1>4 DEF LocationDone
<1>8. TouchDone(t) => TouchDone(t)'
  <2>1. {"x", "y", "touchAction", "pointer"} \subseteq InputCells BY DEF InputCells, TouchCells, KeyCells
  <2> QED BY <1>2, <1>3, <1>4, <1>5, <2>1 DEF TouchDone
<1>9. KeyDone(t) => KeyDone(t)' BY <1>2, <1>4 DEF KeyDone, InputCells, TouchCells, KeyCells
<1> QED BY <1>1, <1>2, <1>6, <1>7, <1>8, <1>9 DEF DoneBy, Acts

\* A write that lands: what is left, what is remembered, what is in the cell.
LEMMA Landed ==
  ASSUME RunInv, NEW t \in Threads, Lands(t), NEW c, NEW v, Head(run[t].writes) = Put(c, v)
  PROVE  /\ run'[t].writes = Tail(run[t].writes) /\ run'[t].answer = run[t].answer
         /\ run'[t].request = run[t].request
         /\ c \in DOMAIN run'[t].landed /\ run'[t].landed[c] = Landing(Put(c, v))
         /\ \A d \in DOMAIN run[t].landed \ {c} :
              d \in DOMAIN run'[t].landed /\ run'[t].landed[d] = run[t].landed[d]
         /\ c \in Cells /\ cells' = [cells EXCEPT ![c] = Landing(Put(c, v))]
<1> DEFINE w == Head(run[t].writes)
           value == Landing(Put(c, v))
           before == run[t].landed
<1>1. w = Put(c, v) /\ w.cell = c BY DEF Put
<1>2. /\ w.cell \in Cells /\ cells' = [cells EXCEPT ![w.cell] = Landing(w)]
      /\ run'[t] = [request |-> run[t].request, writes |-> Tail(run[t].writes),
                    answer |-> run[t].answer, landed |-> With(before, w.cell, Landing(w))]
  BY Zenon DEF Lands
<1> HIDE DEF w
<1>3. /\ c \in Cells /\ cells' = [cells EXCEPT ![c] = value]
      /\ run'[t] = [request |-> run[t].request, writes |-> Tail(run[t].writes),
                    answer |-> run[t].answer, landed |-> With(before, c, value)]
  BY <1>1, <1>2
<1> HIDE DEF value, before
<1>4. /\ c \in DOMAIN With(before, c, value) /\ With(before, c, value)[c] = value
      /\ \A d \in DOMAIN before \ {c} :
           d \in DOMAIN With(before, c, value) /\ With(before, c, value)[d] = before[d]
  BY DEF With
<1>5. /\ run'[t].writes = Tail(run[t].writes) /\ run'[t].answer = run[t].answer
      /\ run'[t].request = run[t].request /\ run'[t].landed = With(before, c, value)
  BY <1>3
<1> QED BY <1>3, <1>4, <1>5 DEF value, before

LEMMA Landings ==
  ASSUME NEW v
  PROVE  /\ \A c \in DataItems : IsValid(c, v) => Landing(Put(c, v)) = v
         /\ \A c \in {"x", "y", "pointer", "codePoint", "key"} : Landing(Put(c, v)) = v
         /\ Landing(Put("touchAction", v)) = TouchAction(v, cells, setting)
         /\ Landing(Put("engine", v)) = Event(v, cells)
<1>1. ASSUME NEW c \in DataItems, IsValid(c, v) PROVE Landing(Put(c, v)) = v
  <2>1. c \notin {"touchAction", "engine", "message", "shownColor"}
    BY DEF DataItems, InitSharedData
  <2> QED BY <1>1, <2>1 DEF Landing, Put, SetData
<1>2. {"x", "y", "pointer", "codePoint", "key", "touchAction", "engine"} \cap DataItems = {}
  BY DEF DataItems, InitSharedData
<1>3. ASSUME NEW c \in {"x", "y", "pointer", "codePoint", "key"} PROVE Landing(Put(c, v)) = v
  BY <1>2 DEF Landing, Put
<1>4. Landing(Put("touchAction", v)) = TouchAction(v, cells, setting)
  BY <1>2 DEF Landing, Put
<1>5. Landing(Put("engine", v)) = Event(v, cells)
  BY <1>2 DEF Landing, Put
<1> QED BY <1>1, <1>3, <1>4, <1>5

\* Where the next write asked for lands, one more is done.
LEMMA DidMore ==
  ASSUME RunInv, UNCHANGED setting, NEW t \in Threads, Lands(t), NEW c, NEW v,
         Head(run[t].writes) = Put(c, v),
         Landing(Put(c, v)) = Asked(run[t].request)[c]
  PROVE  \A which : Did(t, which) => Did(t, which \cup {c})'
<1>1. run'[t].request = run[t].request BY Landed
<1>2. Asked(run[t].request)' = Asked(run[t].request)
  BY <1>1 DEF Asked, AskedTouch, AskedKey
<1>3. ASSUME NEW which, Did(t, which), NEW d \in which \cup {c}
      PROVE  d \in DOMAIN run'[t].landed /\ run'[t].landed[d] = Asked(run[t].request)'[d]
  <2>1. CASE d = c BY <1>2, <2>1, Landed
  <2>2. CASE d # c
    <3>1. d \in DOMAIN run[t].landed \ {c} /\ run[t].landed[d] = Asked(run[t].request)[d]
      BY <1>3, <2>2 DEF Did
    <3> QED BY <1>2, <3>1, Landed
  <2> QED BY <2>1, <2>2
<1> QED BY <1>3 DEF Did

LEMMA EntryProgress ==
  ASSUME RunInv, UNCHANGED setting, NEW t \in Threads, Lands(t), run[t].writes # <<>>,
         NEW r, r = run[t].request, Sets(r, DOMAIN Entries), EntryDone(t)
  PROVE  EntryDone(t)'
<1> DEFINE item == Entries[r.command]
           value == Meant(r.command, Member(r.args, r.command))
<1>1. run[t].writes = <<Put(item, value)>> /\ IsValid(item, value)
  BY DEF EntryDone
<1>2. item \in DataItems BY DEF Sets, Entries, DataItems, InitSharedData
<1>3. Asked(r) = [c \in {item} |-> value] BY AskedValues
<1> HIDE DEF item, value
<1>4. Head(run[t].writes) = Put(item, value) /\ Tail(run[t].writes) = <<>> BY <1>1
<1>5. Landing(Put(item, value)) = Asked(r)[item]
  BY <1>1, <1>2, <1>3, Landings
<1>6. run'[t].writes = <<>> /\ run'[t].request = r BY <1>4 DEF Lands
<1>7. Did(t, {item})'
  <2>1. Did(t, {}) BY DEF Did
  <2>2. \A which : Did(t, which) => Did(t, which \cup {item})' BY <1>4, <1>5, DidMore
  <2>3. {} \cup {item} = {item} OBVIOUS
  <2> QED BY <2>1, <2>2, <2>3, Zenon
<1> QED BY <1>6, <1>7 DEF EntryDone, item

LEMMA LocationProgress ==
  ASSUME RunInv, UNCHANGED setting, NEW t \in Threads, Lands(t), run[t].writes # <<>>,
         NEW r, r = run[t].request, Sets(r, {"Location"}), LocationDone(t)
  PROVE  LocationDone(t)'
<1> DEFINE v == Degrees(r.args, "longitude")
           u == Degrees(r.args, "latitude")
           long == Put("LONGITUDE", v)
           lat == Put("LATITUDE", u)
<1>1. /\ IsValid("LONGITUDE", v) /\ IsValid("LATITUDE", u)
      /\ \/ run[t].writes = <<long, lat>>
         \/ run[t].writes = <<lat>> /\ Did(t, {"LONGITUDE"})
  BY DEF LocationDone, Put
<1>2. {"LONGITUDE", "LATITUDE"} \subseteq DataItems BY DEF DataItems, InitSharedData
<1>3. Asked(r) = [LATITUDE |-> u, LONGITUDE |-> v] BY AskedValues, Zenon
<1> HIDE DEF v, u
<1>4. Asked(r)["LATITUDE"] = u /\ Asked(r)["LONGITUDE"] = v BY <1>3
<1>5. Landing(long) = Asked(r)["LONGITUDE"] /\ Landing(lat) = Asked(r)["LATITUDE"]
  BY <1>1, <1>2, <1>4, Landings
<1>6. run'[t].writes = Tail(run[t].writes) /\ run'[t].request = r BY DEF Lands
<1>7. long.value = v /\ lat.value = u BY DEF Put
<1>8. CASE run[t].writes = <<long, lat>>
  <2>1. Head(run[t].writes) = long /\ Tail(run[t].writes) = <<lat>> BY <1>8
  <2>2. \A which : Did(t, which) => Did(t, which \cup {"LONGITUDE"})' BY <1>5, <2>1, DidMore
  <2>3. Did(t, {}) /\ {} \cup {"LONGITUDE"} = {"LONGITUDE"} BY DEF Did
  <2>4. Did(t, {"LONGITUDE"})' BY <2>2, <2>3, Zenon
  <2> QED BY <1>1, <1>6, <1>7, <2>1, <2>4 DEF LocationDone, u, v
<1>9. CASE run[t].writes = <<lat>> /\ Did(t, {"LONGITUDE"})
  <2>1. Head(run[t].writes) = lat /\ Tail(run[t].writes) = <<>> BY <1>9
  <2>2. \A which : Did(t, which) => Did(t, which \cup {"LATITUDE"})' BY <1>5, <2>1, DidMore
  <2>3. {"LONGITUDE"} \cup {"LATITUDE"} = {"LONGITUDE", "LATITUDE"} OBVIOUS
  <2>4. Did(t, {"LONGITUDE", "LATITUDE"})' BY <1>9, <2>2, <2>3, Zenon
  <2> QED BY <1>1, <1>6, <1>7, <2>1, <2>4 DEF LocationDone, u, v
<1> QED BY <1>1, <1>8, <1>9

LEMMA KeyProgress ==
  ASSUME RunInv, UNCHANGED setting, NEW t \in Threads, Lands(t), run[t].writes # <<>>,
         NEW r, r = run[t].request, Acts(r, {"KeyPress"}), KeyDone(t)
  PROVE  KeyDone(t)'
<1> DEFINE code == AsInt(Member(r.args, "codePoint"))
           key == SetKeyEvent(r.args)
<1>1. run'[t].writes = Tail(run[t].writes) /\ run'[t].request = r /\ r.args = run[t].request.args
  BY DEF Lands
<1>2. Asked(r) = [engine |-> IF IsIme(r.args) THEN [kind |-> "inputMethod", of |-> code]
                             ELSE [kind |-> "key", of |-> key]]
  BY AskedValues, Zenon DEF AskedKey
<1> HIDE DEF code, key
<1>3. {"codePoint", "key"} \subseteq Cells BY DEF Cells, Members
<1>4. CASE run[t].writes = <<Put("codePoint", code), Put("engine", "inputMethod")>> /\ IsIme(r.args)
  <2>1. Head(run[t].writes) = Put("codePoint", code)
          /\ Tail(run[t].writes) = <<Put("engine", "inputMethod")>>
    BY <1>4
  <2>2. cells' = [cells EXCEPT !["codePoint"] = code]
    BY <2>1, Landed, Landings
  <2>3. cells'["codePoint"] = code BY <1>3, <2>2 DEF RunInv
  <2>4. Put("codePoint", code).value = code BY DEF Put
  <2> QED BY <1>1, <1>4, <2>1, <2>3, <2>4 DEF KeyDone, code
<1>5. CASE run[t].writes = <<Put("key", key), Put("engine", "key")>> /\ ~IsIme(r.args)
  <2>1. Head(run[t].writes) = Put("key", key) /\ Tail(run[t].writes) = <<Put("engine", "key")>>
    BY <1>5
  <2>2. cells' = [cells EXCEPT !["key"] = key]
    BY <2>1, Landed, Landings
  <2>3. cells'["key"] = key BY <1>3, <2>2 DEF RunInv
  <2>4. Put("key", key).value = key BY DEF Put
  <2> QED BY <1>1, <1>5, <2>1, <2>3, <2>4 DEF KeyDone, key
<1>6. ASSUME NEW kind, run[t].writes = <<Put("engine", kind)>>,
             Event(kind, cells) = Asked(r)["engine"]
      PROVE  KeyDone(t)'
  <2>1. Head(run[t].writes) = Put("engine", kind) /\ Tail(run[t].writes) = <<>> BY <1>6
  <2>2. Landing(Put("engine", kind)) = Asked(r)["engine"] BY <1>6, Landings
  <2>3. \A which : Did(t, which) => Did(t, which \cup {"engine"})' BY <2>1, <2>2, DidMore
  <2>4. Did(t, {}) /\ {} \cup {"engine"} = {"engine"} BY DEF Did
  <2>5. Did(t, {"engine"})' BY <2>3, <2>4, Zenon
  <2> QED BY <1>1, <2>1, <2>5 DEF KeyDone
<1>7. CASE run[t].writes = <<Put("engine", "inputMethod")>> /\ IsIme(r.args)
             /\ cells["codePoint"] = code
  <2>1. Event("inputMethod", cells) = [kind |-> "inputMethod", of |-> cells["codePoint"]]
    BY DEF Event
  <2>2. Asked(r)["engine"] = [kind |-> "inputMethod", of |-> code] BY <1>2, <1>7
  <2> QED BY <1>6, <1>7, <2>1, <2>2
<1>8. CASE run[t].writes = <<Put("engine", "key")>> /\ ~IsIme(r.args) /\ cells["key"] = key
  <2>1. Event("key", cells) = [kind |-> "key", of |-> cells["key"]] BY DEF Event
  <2>2. Asked(r)["engine"] = [kind |-> "key", of |-> key] BY <1>2, <1>8
  <2> QED BY <1>6, <1>8, <2>1, <2>2
<1>9. Put("codePoint", code).value = code /\ Put("key", key).value = key BY DEF Put
<1> QED BY <1>1, <1>4, <1>5, <1>7, <1>8, <1>9 DEF KeyDone, code, key
\* Where something else lands, nothing is undone.
LEMMA DidKept ==
  ASSUME RunInv, UNCHANGED setting, NEW t \in Threads, Lands(t), NEW c, NEW v,
         Head(run[t].writes) = Put(c, v)
  PROVE  \A which : Did(t, which) /\ c \notin which => Did(t, which)'
<1>1. run'[t].request = run[t].request BY Landed
<1>2. Asked(run[t].request)' = Asked(run[t].request)
  BY <1>1 DEF Asked, AskedTouch, AskedKey
<1>3. ASSUME NEW which, Did(t, which), c \notin which, NEW d \in which
      PROVE  d \in DOMAIN run'[t].landed /\ run'[t].landed[d] = Asked(run[t].request)'[d]
  <2>1. d \in DOMAIN run[t].landed \ {c} /\ run[t].landed[d] = Asked(run[t].request)[d]
    BY <1>3 DEF Did
  <2> QED BY <1>2, <2>1, Landed
<1> QED BY <1>3 DEF Did

\* The lite engine is asked for the point and, but for a move, the action.
LEMMA LiteTouch ==
  ASSUME setting.lite, NEW r, Acts(r, DOMAIN TouchTypes)
  PROVE  /\ {"x", "y"} \subseteq DOMAIN Asked(r) /\ DOMAIN Asked(r) \subseteq {"x", "y", "touchAction"}
         /\ Asked(r)["x"] = X(r) /\ Asked(r)["y"] = Y(r)
         /\ TouchAction(TouchTypes[r.command], cells, setting)
              = IF "touchAction" \in DOMAIN Asked(r) THEN Asked(r)["touchAction"]
                ELSE cells["touchAction"]
<1>1. Asked(r) = AskedTouch(r) BY AskedValues
<1>2. CASE r.command \in DOMAIN LiteTouchTypes
  <2>1. Asked(r) = [x |-> X(r), y |-> Y(r), touchAction |-> LiteTouchTypes[r.command]]
    BY <1>1, <1>2 DEF AskedTouch
  <2>2. TouchAction(TouchTypes[r.command], cells, setting) = LiteTouchTypes[r.command]
    BY <1>2 DEF TouchAction, TouchTypes, LiteTouchTypes
  <2> QED BY <2>1, <2>2
<1>3. CASE r.command \notin DOMAIN LiteTouchTypes
  <2>1. Asked(r) = [x |-> X(r), y |-> Y(r)] BY <1>1, <1>3 DEF AskedTouch
  <2>2. TouchAction(TouchTypes[r.command], cells, setting) = cells["touchAction"]
    BY <1>3 DEF Acts, TouchAction, TouchTypes, LiteTouchTypes
  <2> QED BY <2>1, <2>2
<1> QED BY <1>2, <1>3

LEMMA LiteTouchProgress ==
  ASSUME RunInv, UNCHANGED setting, NEW t \in Threads, Lands(t), run[t].writes # <<>>,
         NEW r, r = run[t].request, Acts(r, DOMAIN TouchTypes), setting.lite, TouchDone(t)
  PROVE  TouchDone(t)'
<1> DEFINE x == Put("x", X(r))
           y == Put("y", Y(r))
           action == Put("touchAction", TouchTypes[r.command])
           pointer == Put("pointer", AskedOf(r.command, r.args))
<1>1. \/ run[t].writes = <<x, y, action, pointer>>
      \/ run[t].writes = <<y, action, pointer>> /\ Did(t, {"x"})
      \/ run[t].writes = <<action, pointer>> /\ Did(t, {"x", "y"})
      \/ run[t].writes = <<pointer>> /\ Did(t, DOMAIN Asked(r))
  BY DEF TouchDone
<1>2. run'[t].writes = Tail(run[t].writes) /\ run'[t].request = r BY DEF Lands
<1>3. (DOMAIN Asked(r))' = DOMAIN Asked(r) BY DEF Asked, AskedTouch, AskedKey
<1>4. /\ Landing(x) = Asked(r)["x"] /\ Landing(y) = Asked(r)["y"]
      /\ "touchAction" \in DOMAIN Asked(r) => Landing(action) = Asked(r)["touchAction"]
  BY LiteTouch, Landings
<1>5. CASE run[t].writes = <<x, y, action, pointer>>
  <2>1. Head(run[t].writes) = x /\ Tail(run[t].writes) = <<y, action, pointer>> BY <1>5
  <2>2. \A which : Did(t, which) => Did(t, which \cup {"x"})' BY <1>4, <2>1, DidMore
  <2>3. Did(t, {}) /\ {} \cup {"x"} = {"x"} BY DEF Did
  <2>4. Did(t, {"x"})' BY <2>2, <2>3, Zenon
  <2> QED BY <1>2, <2>1, <2>4 DEF TouchDone
<1>6. CASE run[t].writes = <<y, action, pointer>> /\ Did(t, {"x"})
  <2>1. Head(run[t].writes) = y /\ Tail(run[t].writes) = <<action, pointer>> BY <1>6
  <2>2. \A which : Did(t, which) => Did(t, which \cup {"y"})' BY <1>4, <2>1, DidMore
  <2>3. {"x"} \cup {"y"} = {"x", "y"} OBVIOUS
  <2>4. Did(t, {"x", "y"})' BY <1>6, <2>2, <2>3, Zenon
  <2> QED BY <1>2, <2>1, <2>4 DEF TouchDone
<1>7. CASE run[t].writes = <<action, pointer>> /\ Did(t, {"x", "y"})
  <2>1. Head(run[t].writes) = action /\ Tail(run[t].writes) = <<pointer>> BY <1>7
  <2>2. Did(t, DOMAIN Asked(r))'
    <3>1. CASE "touchAction" \in DOMAIN Asked(r)
      <4>1. \A which : Did(t, which) => Did(t, which \cup {"touchAction"})'
        BY <1>4, <2>1, <3>1, DidMore
      <4>2. Did(t, {"x", "y"} \cup {"touchAction"})' BY <1>7, <4>1, Zenon
      <4>3. DOMAIN Asked(r) = {"x", "y"} \cup {"touchAction"} BY <3>1, LiteTouch
      <4> QED BY <1>3, <4>2, <4>3
    <3>2. CASE "touchAction" \notin DOMAIN Asked(r)
      <4>1. \A which : Did(t, which) /\ "touchAction" \notin which => Did(t, which)'
        BY <2>1, DidKept
      <4>2. Did(t, {"x", "y"})' BY <1>7, <4>1
      <4>3. DOMAIN Asked(r) = {"x", "y"} BY <3>2, LiteTouch
      <4> QED BY <1>3, <4>2, <4>3
    <3> QED BY <3>1, <3>2
  <2> QED BY <1>2, <2>1, <2>2 DEF TouchDone
<1>8. CASE run[t].writes = <<pointer>> /\ Did(t, DOMAIN Asked(r))
  <2>1. Head(run[t].writes) = pointer /\ Tail(run[t].writes) = <<>> BY <1>8
  <2>2. \A which : Did(t, which) /\ "pointer" \notin which => Did(t, which)' BY <2>1, DidKept
  <2>3. "pointer" \notin DOMAIN Asked(r) BY LiteTouch
  <2>4. Did(t, DOMAIN Asked(r))' BY <1>3, <1>8, <2>2, <2>3
  <2> QED BY <1>2, <2>1, <2>4 DEF TouchDone
<1> QED BY <1>1, <1>5, <1>6, <1>7, <1>8
\* The rich engine is given the members of the mock.
LEMMA RichTouchProgress ==
  ASSUME RunInv, UNCHANGED setting, NEW t \in Threads, Lands(t), run[t].writes # <<>>,
         NEW r, r = run[t].request, Acts(r, DOMAIN TouchTypes), ~setting.lite, TouchDone(t)
  PROVE  TouchDone(t)'
<1> DEFINE x == Put("x", X(r))
           y == Put("y", Y(r))
           action == Put("touchAction", TouchTypes[r.command])
           pointer == Put("pointer", AskedOf(r.command, r.args))
           engine == Put("engine", "pointer")
           values == Touched(r)
<1>1. \/ run[t].writes = <<x, y, action, pointer, engine>>
      \/ run[t].writes = <<y, action, pointer, engine>> /\ Holds(values, {"x"})
      \/ run[t].writes = <<action, pointer, engine>> /\ Holds(values, {"x", "y"})
      \/ run[t].writes = <<pointer, engine>> /\ Holds(values, {"x", "y", "touchAction"})
      \/ run[t].writes = <<engine>> /\ Holds(values, {"x", "y", "touchAction", "pointer"})
  BY DEF TouchDone
<1>2. run'[t].writes = Tail(run[t].writes) /\ run'[t].request = r BY DEF Lands
<1>3. /\ Landing(x) = values["x"] /\ Landing(y) = values["y"]
      /\ Landing(action) = values["touchAction"] /\ Landing(pointer) = values["pointer"]
  <2>1. TouchAction(TouchTypes[r.command], cells, setting) = TouchTypes[r.command]
    BY DEF TouchAction
  <2> QED BY <2>1, Landings DEF Touched
<1>4. {"x", "y", "touchAction", "pointer"} \subseteq Cells BY DEF Cells, Members
<1>5. ASSUME NEW c \in {"x", "y", "touchAction", "pointer"}, NEW w, Head(run[t].writes) = Put(c, w),
             Landing(Put(c, w)) = values[c]
      PROVE  \A which \in SUBSET {"x", "y", "touchAction", "pointer"} :
               Holds(values, which) => Holds(values, which \cup {c})'
  <2>1. cells' = [cells EXCEPT ![c] = values[c]] BY <1>5, Landed
  <2>2. DOMAIN cells = Cells BY DEF RunInv
  <2> QED BY <1>4, <2>1, <2>2 DEF Holds, Touched
<1> HIDE DEF values
<1>6. CASE run[t].writes = <<x, y, action, pointer, engine>>
  <2>1. Head(run[t].writes) = x /\ Tail(run[t].writes) = <<y, action, pointer, engine>> BY <1>6
  <2>2. Holds(values, {}) /\ {} \cup {"x"} = {"x"} BY DEF Holds
  <2>3. Holds(values, {} \cup {"x"})' BY <1>3, <1>5, <2>1, <2>2
  <2>4. Holds(values, {"x"})' BY <2>2, <2>3, Zenon
  <2> QED BY <1>2, <2>1, <2>4 DEF TouchDone, values
<1>7. CASE run[t].writes = <<y, action, pointer, engine>> /\ Holds(values, {"x"})
  <2>1. Head(run[t].writes) = y /\ Tail(run[t].writes) = <<action, pointer, engine>> BY <1>7
  <2>2. Holds(values, {"x"} \cup {"y"})' BY <1>3, <1>5, <1>7, <2>1
  <2>3. {"x"} \cup {"y"} = {"x", "y"} OBVIOUS
  <2>4. Holds(values, {"x", "y"})' BY <2>2, <2>3, Zenon
  <2> QED BY <1>2, <2>1, <2>4 DEF TouchDone, values
<1>8. CASE run[t].writes = <<action, pointer, engine>> /\ Holds(values, {"x", "y"})
  <2>1. Head(run[t].writes) = action /\ Tail(run[t].writes) = <<pointer, engine>> BY <1>8
  <2>2. Holds(values, {"x", "y"} \cup {"touchAction"})' BY <1>3, <1>5, <1>8, <2>1
  <2>3. {"x", "y"} \cup {"touchAction"} = {"x", "y", "touchAction"} OBVIOUS
  <2>4. Holds(values, {"x", "y", "touchAction"})' BY <2>2, <2>3, Zenon
  <2> QED BY <1>2, <2>1, <2>4 DEF TouchDone, values
<1>9. CASE run[t].writes = <<pointer, engine>> /\ Holds(values, {"x", "y", "touchAction"})
  <2>1. Head(run[t].writes) = pointer /\ Tail(run[t].writes) = <<engine>> BY <1>9
  <2>2. Holds(values, {"x", "y", "touchAction"} \cup {"pointer"})' BY <1>3, <1>5, <1>9, <2>1
  <2>3. {"x", "y", "touchAction"} \cup {"pointer"} = {"x", "y", "touchAction", "pointer"} OBVIOUS
  <2>4. Holds(values, {"x", "y", "touchAction", "pointer"})' BY <2>2, <2>3, Zenon
  <2> QED BY <1>2, <2>1, <2>4 DEF TouchDone, values
<1>10. CASE run[t].writes = <<engine>> /\ Holds(values, {"x", "y", "touchAction", "pointer"})
  <2>1. Head(run[t].writes) = engine /\ Tail(run[t].writes) = <<>> BY <1>10
  <2>2. /\ cells["x"] = X(r) /\ cells["y"] = Y(r) /\ cells["touchAction"] = TouchTypes[r.command]
        /\ cells["pointer"] = AskedOf(r.command, r.args)
    BY <1>10 DEF Holds, values, Touched
  <2>3. Event("pointer", cells) = Asked(r)["engine"]
    <3> DEFINE asks(point) == [point EXCEPT !.sourceTool = ConvertToOsTool(@)]
    <3>1. Asked(r) = AskedTouch(r) BY AskedValues
    <3>2. AskedTouch(r)
            = [engine |-> [kind |-> "pointer",
                           of |-> [x |-> X(r), y |-> Y(r), type |-> TouchTypes[r.command],
                                   pointer |-> PointerOf(r)]]]
      BY DEF AskedTouch
    <3>3. PointerOf(r) = asks(AskedOf(r.command, r.args)) BY Zenon DEF PointerOf, AskedOf
    <3>4. Event("pointer", cells)
            = [kind |-> "pointer",
               of |-> [x |-> cells["x"], y |-> cells["y"], type |-> cells["touchAction"],
                       pointer |-> asks(cells["pointer"])]]
      BY DEF Event
    <3> HIDE DEF asks
    <3>5. Asked(r)["engine"]
            = [kind |-> "pointer",
               of |-> [x |-> X(r), y |-> Y(r), type |-> TouchTypes[r.command],
                       pointer |-> PointerOf(r)]]
      BY <3>1, <3>2
    <3> QED BY <2>2, <3>3, <3>4, <3>5
  <2>4. Landing(engine) = Asked(r)["engine"] BY <2>3, Landings
  <2>5. \A which : Did(t, which) => Did(t, which \cup {"engine"})' BY <2>1, <2>4, DidMore
  <2>6. Did(t, {}) /\ {} \cup {"engine"} = {"engine"} BY DEF Did
  <2>7. Did(t, {"engine"})' BY <2>5, <2>6, Zenon
  <2> QED BY <1>2, <2>1, <2>7 DEF TouchDone
<1> QED BY <1>1, <1>6, <1>7, <1>8, <1>9, <1>10
LEMMA DoneProgress ==
  ASSUME RunInv, UNCHANGED setting, NEW t \in Threads, Lands(t), run[t].writes # <<>>, DoneBy(t)
  PROVE  DoneBy(t)'
<1>1. PICK r : r = run[t].request OBVIOUS
<1>2. run'[t].request = r BY <1>1 DEF Lands
<1>3. \A commands : Acts(r, commands)' = Acts(r, commands) BY DEF Acts
<1>4. Sets(r, DOMAIN Entries) => EntryDone(t)' BY <1>1, EntryProgress DEF DoneBy
<1>5. Sets(r, {"Location"}) => LocationDone(t)' BY <1>1, LocationProgress DEF DoneBy
<1>6. Acts(r, DOMAIN TouchTypes) => TouchDone(t)'
  BY <1>1, LiteTouchProgress, RichTouchProgress DEF DoneBy
<1>7. Acts(r, {"KeyPress"}) => KeyDone(t)' BY <1>1, KeyProgress DEF DoneBy
<1> QED BY <1>2, <1>3, <1>4, <1>5, <1>6, <1>7 DEF DoneBy

\* A command that is accepted begins with all its writes, of valid values.
LEMMA DoneBegins ==
  ASSUME RunInv, UNCHANGED <<setting, cells>>, NEW t \in Threads, NEW r, NEW answer,
         Begins(t, r, answer)
  PROVE  DoneBy(t)'
<1> DEFINE runs == RunOf(r.command, r.type, r.args, cells, setting)
           writes == runs.writes
<1>1. runs.valid /\ run'[t].request = r /\ run'[t].writes = writes
  BY DEF Begins, RunInv, Working
<1>2. ASSUME Sets(r, DOMAIN Entries) PROVE EntryDone(t)'
  <2>1. runs = RunSet(r.command, r.args, cells, setting) BY <1>2 DEF Sets, RunOf
  <2>2. /\ writes = <<Put(Entries[r.command], Meant(r.command, Member(r.args, r.command)))>>
        /\ IsValid(Entries[r.command], Meant(r.command, Member(r.args, r.command)))
    BY <1>1, <1>2, <2>1, EntryWrites DEF Sets
  <2> HIDE DEF runs, writes
  <2> QED BY <1>1, <2>2 DEF EntryDone
<1>3. ASSUME Sets(r, {"Location"}) PROVE LocationDone(t)'
  <2>1. runs = RunSet("Location", r.args, cells, setting) BY <1>3 DEF Sets, RunOf
  <2>2. /\ writes = <<Put("LONGITUDE", Degrees(r.args, "longitude")),
                      Put("LATITUDE", Degrees(r.args, "latitude"))>>
        /\ IsValid("LONGITUDE", Degrees(r.args, "longitude"))
        /\ IsValid("LATITUDE", Degrees(r.args, "latitude"))
    BY <1>1, <2>1, LocationWrites
  <2> HIDE DEF runs, writes
  <2> QED BY <1>1, <2>2 DEF LocationDone, Put
<1>4. ASSUME Acts(r, DOMAIN TouchTypes) PROVE TouchDone(t)'
  <2>1. runs = RunAction(r.command, r.args, cells, setting) BY <1>4 DEF Acts, RunOf
  <2>2. writes = IF setting.lite THEN TouchMembers(r.command, r.args)
                 ELSE TouchEvent(r.command, r.args)
    BY <1>4, <2>1, TouchWrites DEF Acts
  <2> HIDE DEF runs, writes
  <2> QED BY <1>1, <2>2 DEF TouchDone, TouchMembers, TouchEvent, X, Y
<1>5. ASSUME Acts(r, {"KeyPress"}) PROVE KeyDone(t)'
  <2>1. runs = RunAction("KeyPress", r.args, cells, setting) BY <1>5 DEF Acts, RunOf
  <2>2. /\ IsIme(r.args) => writes = <<Put("codePoint", AsInt(Member(r.args, "codePoint"))),
                                       Put("engine", "inputMethod")>>
        /\ ~IsIme(r.args) => writes = <<Put("key", SetKeyEvent(r.args)), Put("engine", "key")>>
    BY <1>5, <2>1, KeyWrites DEF Acts
  <2> HIDE DEF runs, writes
  <2> QED BY <1>1, <2>2 DEF KeyDone
<1>6. \A commands : Acts(r, commands)' = Acts(r, commands) BY DEF Acts
<1> QED BY <1>1, <1>2, <1>3, <1>4, <1>5, <1>6 DEF DoneBy

\* No setting writes a member of the input mocks.
LEMMA SettingsLeaveInput ==
  ASSUME NEW c, NEW a, NEW d, NEW s, RunOf(c, "set", a, d, s).valid
  PROVE  Writes(RunOf(c, "set", a, d, s).writes) \cap InputCells = {}
<1> DEFINE writes == RunOf(c, "set", a, d, s).writes
<1>1. PICK S : /\ Only(writes, S)
               /\ \/ c \in DOMAIN Entries /\ S = {Entries[c]}
                  \/ S \in {{"LONGITUDE", "LATITUDE"}, Colours, {"argsColor", "engine"}, ScreenCells, {}}
  BY CommandWrites
<1>2. S \cap InputCells = {} BY <1>1 DEF Entries, InputCells, TouchCells, KeyCells, Colours, ScreenCells
<1> QED BY <1>1, <1>2 DEF Only

LEMMA DoneKeeps == RunInv /\ DoneInv /\ [DeviceNext]_device_vars => DoneInv'
<1> SUFFICES ASSUME RunInv, DoneInv, [DeviceNext]_device_vars PROVE DoneInv'
  OBVIOUS
<1>1. InputCells \subseteq Cells /\ InputCells \cap (JsCells \cup MainCells \cup Own) = {}
  BY DEF InputCells, TouchCells, KeyCells, Cells, Members, JsCells, MainCells, Own
<1>2. ASSUME UNCHANGED <<setting, run>>, \A c \in InputCells : cells'[c] = cells[c]
      PROVE  DoneInv'
  BY <1>2, DoneElsewhere DEF DoneInv
<1>3. CASE MainNext
  <2>1. UNCHANGED <<setting, run>>
    BY <1>3 DEF MainNext, InitResolution, EndConfig, InitJsApp, CopyColorMode, SetColorMode,
                CreateInstance, AssignAbility, Rest
  <2>2. \A c \in InputCells : cells'[c] = cells[c] BY <1>1, <1>3, MainWrites
  <2> QED BY <1>2, <2>1, <2>2
<1>4. CASE Begun
  <2>1. UNCHANGED <<setting, cells>> BY <1>4 DEF Begun
  <2>2. ASSUME NEW t \in Threads, NEW r, NEW writes, NEW answer,
               run' = [run EXCEPT ![t] = Working(r, writes, answer)],
               answer = "true" => DoneBy(t)',
               ~setting.lite /\ t = "main" =>
                 answer # "true" /\ Writes(writes) \cap InputCells = {}
        PROVE  DoneInv'
    <3>1. /\ run'[t].writes = writes /\ run'[t].answer = answer
          /\ \A u \in Threads \ {t} : run'[u] = run[u]
      BY <2>2 DEF RunInv, Working
    <3>2. \A u \in Threads \ {t} : run'[u].answer = "true" => DoneBy(u)'
      BY <2>1, <3>1, DoneElsewhere
    <3>3. ~setting.lite => run'["main"].answer # "true"
                            /\ Writes(run'["main"].writes) \cap InputCells = {}
      BY <2>2, <3>1 DEF DoneInv, Threads
    <3> QED BY <2>1, <2>2, <3>1, <3>2, <3>3 DEF DoneInv
  <2>3. CASE Refused
    <3>1. CASE run' = run BY <1>2, <2>1, <3>1
    <3>2. CASE run' # run
      <4>1. PICK t \in Threads, answer \in {"false", "unsupported"} : \E r :
              run' = [run EXCEPT ![t] = Working(r, <<>>, answer)]
        BY <2>3, <3>2, Zenon DEF Refused
      <4>2. answer # "true" BY <4>1
      <4> QED BY <2>2, <4>1, <4>2, WritesOf
    <3> QED BY <3>1, <3>2
  <2>4. ASSUME NEW t \in Threads, NEW r, NEW answer, Begins(t, r, answer),
               ~setting.lite /\ t = "main" => r.type = "set" /\ answer # "true"
        PROVE  DoneInv'
    <3> DEFINE runs == RunOf(r.command, r.type, r.args, cells, setting)
    <3>1. DoneBy(t)' BY <2>1, <2>4, DoneBegins
    <3>2. ASSUME r.type = "set" PROVE Writes(runs.writes) \cap InputCells = {}
      <4>1. runs.valid BY <2>4 DEF Begins
      <4> QED BY <3>2, <4>1, SettingsLeaveInput
    <3>3. run' = [run EXCEPT ![t] = Working(r, runs.writes, answer)] BY <2>4 DEF Begins
    <3> HIDE DEF runs
    <3> QED BY <2>2, <2>4, <3>1, <3>2, <3>3
  <2> QED BY <1>4, <2>3, <2>4 DEF Begun
<1>5. ASSUME NEW t \in Threads, Write(t) PROVE DoneInv'
  <2>1. /\ setting' = setting
        /\ run[t].writes # <<>> /\ ~Rests(t)
        /\ DOMAIN run' = Threads /\ \A u \in Threads \ {t} : run'[u] = run[u]
        /\ Lands(t) \/ Fails(t)
    BY <1>5, WriteKinds
  <2>2. CASE Fails(t)
    <3>1. run' = run /\ \A c \in InputCells : cells'[c] = cells[c]
      BY <1>1, <2>2 DEF Fails, RunInv, Own
    <3> QED BY <1>2, <2>1, <3>1
  <2>3. CASE Lands(t)
    <3>1. run'[t].answer = run[t].answer BY <2>3 DEF Lands
    <3>2. run'[t].answer = "true" => DoneBy(t)' BY <2>1, <2>3, <3>1, DoneProgress DEF DoneInv
    <3>3. ASSUME NEW u \in Threads \ {t}, run'[u].answer = "true" PROVE DoneBy(u)'
      <4>1. run[u].answer = "true" /\ ~Rests(u) BY <2>1, <3>3 DEF Rests
      <4>2. ~setting.lite BY <2>1, <3>3, <4>1 DEF RunInv, Threads
      <4>3. t = "main" BY <3>3, <4>1, <4>2 DEF DoneInv, Threads
      <4>4. Writes(run[t].writes) \cap InputCells = {} BY <4>2, <4>3 DEF DoneInv
      <4>5. \A c \in InputCells : cells'[c] = cells[c] BY <1>1, <2>3, <4>4, OtherWrite
      <4> QED BY <2>1, <3>3, <4>1, <4>5, DoneElsewhere
    <3>4. ~setting.lite => run'["main"].answer # "true"
                            /\ Writes(run'["main"].writes) \cap InputCells = {}
      <4>1. Writes(run'["main"].writes) \subseteq Writes(run["main"].writes)
        BY <1>5, LessUnderWay DEF Threads
      <4>2. run'["main"].answer = run["main"].answer BY <2>1, <3>1 DEF Threads
      <4> QED BY <4>1, <4>2 DEF DoneInv
    <3> QED BY <2>1, <3>2, <3>3, <3>4 DEF DoneInv
  <2> QED BY <2>1, <2>2, <2>3
<1>6. ASSUME NEW t \in Threads, SendResult(t) PROVE DoneInv'
  <2>1. UNCHANGED <<setting, cells>> /\ run' = [run EXCEPT ![t] = Idle]
    BY <1>6 DEF SendResult
  <2>2. /\ run'[t].answer = "none" /\ run'[t].writes = <<>>
        /\ \A u \in Threads \ {t} : run'[u] = run[u]
    BY <2>1 DEF RunInv, Idle
  <2>3. \A u \in Threads : run'[u].answer = "true" => DoneBy(u)'
    BY <2>1, <2>2, DoneElsewhere
  <2>4. ~setting.lite => run'["main"].answer # "true"
                          /\ Writes(run'["main"].writes) \cap InputCells = {}
    BY <2>2, WritesOf DEF DoneInv, Threads
  <2> QED BY <2>1, <2>3, <2>4 DEF DoneInv
<1>7. CASE JsNext
  <2>1. UNCHANGED <<setting, run>> /\ \A c \in InputCells : cells'[c] = cells[c]
    BY <1>1, <1>7, JsSteps DEF RunInv
  <2> QED BY <1>2, <2>1
<1>8. CASE UNCHANGED device_vars
  BY <1>2, <1>8 DEF device_vars
<1> QED BY <1>3, <1>4, <1>5, <1>6, <1>7, <1>8, NextKinds

(* Whatever the commands, their arguments and their order, and whatever    *)
(* the other threads do meanwhile: what is answered with true was done     *)
(* (CheckAndRun, RunSet, SetEventParams, SharedData::SetData).             *)
THEOREM AnswersAreTrue == DeviceSpec => []AcceptedIsDone
<1>1. DeviceInit => RunInv /\ DoneInv
  <2> SUFFICES ASSUME DeviceInit PROVE DoneInv BY InitRunInv
  <2>1. \A t \in Threads : run[t].answer = "none" /\ run[t].writes = <<>>
    BY DEF DeviceInit, Idle
  <2> QED BY <2>1, WritesOf DEF DoneInv, Threads
<1>2. DoneInv => AcceptedIsDone
  <2> SUFFICES ASSUME DoneInv, NEW t \in Threads, run[t].answer = "true", run[t].writes = <<>>,
                      NEW r, r = run[t].request
               PROVE  Did(t, DOMAIN Asked(r))
    BY DEF AcceptedIsDone, Did
  <2>1. DoneBy(t) /\ \A p, q, x, y, z :
          <<p>> # <<>> /\ <<p, q>> # <<>> /\ <<p, q, x>> # <<>> /\ <<p, q, x, y>> # <<>>
            /\ <<p, q, x, y, z>> # <<>>
    BY DEF DoneInv
  <2>2. CASE Sets(r, DOMAIN Entries)
    <3>1. Did(t, {Entries[r.command]}) BY <2>1, <2>2, Zenon DEF DoneBy, EntryDone
    <3>2. DOMAIN Asked(r) = {Entries[r.command]} BY <2>2, AskedValues
    <3> QED BY <3>1, <3>2
  <2>3. CASE Sets(r, {"Location"})
    <3>1. Did(t, {"LONGITUDE", "LATITUDE"}) BY <2>1, <2>3, Zenon DEF DoneBy, LocationDone
    <3>2. DOMAIN Asked(r) = {"LONGITUDE", "LATITUDE"} BY <2>3, AskedValues
    <3> QED BY <3>1, <3>2
  <2>4. CASE Acts(r, DOMAIN TouchTypes)
    <3>1. TouchDone(t) BY <2>1, <2>4 DEF DoneBy
    <3>2. CASE setting.lite BY <2>1, <3>1, <3>2, Zenon DEF TouchDone
    <3>3. CASE ~setting.lite
      <4>1. Did(t, {"engine"}) BY <2>1, <3>1, <3>3, Zenon DEF TouchDone
      <4>2. DOMAIN Asked(r) = {"engine"} BY <2>4, <3>3, AskedValues DEF AskedTouch
      <4> QED BY <4>1, <4>2
    <3> QED BY <3>2, <3>3
  <2>5. CASE Acts(r, {"KeyPress"})
    <3>1. Did(t, {"engine"}) BY <2>1, <2>5, Zenon DEF DoneBy, KeyDone
    <3>2. DOMAIN Asked(r) = {"engine"} BY <2>5, AskedValues DEF AskedKey
    <3> QED BY <3>1, <3>2
  <2>6. CASE ~Sets(r, DOMAIN Entries) /\ ~Sets(r, {"Location"})
               /\ ~Acts(r, DOMAIN TouchTypes) /\ ~Acts(r, {"KeyPress"})
    BY <2>6, AskedValues DEF NoCells, Did
  <2> QED BY <2>2, <2>3, <2>4, <2>5, <2>6
<1> QED BY <1>1, <1>2, RunKeeps, DoneKeeps, PTL DEF DeviceSpec

(***************************************************************************)
(* The position.  Location sets the longitude and then the latitude; the   *)
(* JS thread reads the latitude first, or last where it only checks.       *)
(***************************************************************************)
Positions == {"LATITUDE", "LONGITUDE"}
Known == asked \cup Coordinates(Start.position)
IsPosition(f) == f = [c \in Positions |-> f[c]]
Moving == Writes(run["main"].writes) \cap Positions # {}

\* Every coordinate that holds was asked for, and a new latitude holds last.
MoveInv ==
  setting.lite =>
    /\ \A c \in Positions : Put(c, said[c]) \in Known /\ Put(c, cells[c]) \in Known
    /\ ~Moving => \A c \in Positions : cells[c] = said[c]
    /\ Moving =>
         LET long == Put("LONGITUDE", said["LONGITUDE"])
             lat == Put("LATITUDE", said["LATITUDE"]) IN
           /\ IsValid("LONGITUDE", said["LONGITUDE"]) /\ IsValid("LATITUDE", said["LATITUDE"])
           /\ ~repeated => cells["LATITUDE"] # said["LATITUDE"]
           /\ \/ run["main"].writes = <<long, lat>>
              \/ run["main"].writes = <<lat>> /\ cells["LONGITUDE"] = said["LONGITUDE"]

\* What the JS thread has read of the position so far.
JsFields == {"job", "todo", "got", "clean"}
Readers == {"location", "subscribe", "tell"}
JobInv ==
  /\ DOMAIN js = JsFields /\ DOMAIN location = {"checked", "told", "subscribed"}
  /\ ~setting.lite => ~location.subscribed
  /\ IsPosition(location.checked) /\ IsPosition(location.told)
  /\ setting.lite => \A c \in Positions : Put(c, location.checked[c]) \in Known
  /\ setting.lite => \A c \in Positions \cap DOMAIN js.got : Put(c, js.got[c]) \in Known
  /\ js.job \in Readers =>
       \/ js.todo = <<"LATITUDE", "LONGITUDE">> /\ DOMAIN js.got = {}
       \/ js.todo = <<"LONGITUDE">> /\ DOMAIN js.got = {"LATITUDE"}
       \/ js.todo = <<>> /\ IsPosition(js.got)
  /\ js.job = "check" =>
       \/ js.todo = <<"LONGITUDE", "LATITUDE">> /\ DOMAIN js.got = {}
       \/ js.todo = <<"LATITUDE">> /\ DOMAIN js.got = {"LONGITUDE"}
       \/ js.todo = <<>> /\ IsPosition(js.got)

\* Who has seen the new latitude comes after the command; a position that is
\* told, or was, is the one that was checked.
SeenInv ==
  setting.lite /\ ~repeated =>
    /\ location.checked["LATITUDE"] = said["LATITUDE"] => ~Moving
    /\ js.job \in Readers \cup {"check"} /\ "LATITUDE" \in DOMAIN js.got
       /\ js.got["LATITUDE"] = said["LATITUDE"] =>
         /\ ~Moving
         /\ js.job # "check" /\ "LONGITUDE" \in DOMAIN js.got =>
              js.got["LONGITUDE"] = said["LONGITUDE"]
    /\ location.checked["LATITUDE"] = said["LATITUDE"] /\ js.job \in {"tell", "subscribe"} =>
         \A c \in DOMAIN js.got : js.got[c] = said[c]
    /\ location.subscribed /\ js.job # "tell"
       /\ (\A c \in Positions : location.checked[c] = said[c]) =>
         \A c \in Positions : location.told[c] = said[c]
PlaceInv == MoveInv /\ JobInv /\ SeenInv

LEMMA OneMover ==
  ASSUME RunInv, setting.lite
  PROVE  UnderWay(Positions) <=> Moving
<1>1. run["command"].writes = <<>> BY DEF RunInv, Threads
<1> QED BY <1>1, WritesOf DEF UnderWay, Moving, Threads

LEMMA Remembered ==
  ASSUME NEW r, Remember(r)
  PROVE  /\ \A c \in ReadCells :
              said'[c] = IF c \in DOMAIN Asked(r) THEN Asked(r)[c] ELSE said[c]
         /\ Known' = Known \cup Coordinates(Asked(r))
         /\ ~repeated' => ~repeated /\ Coordinates(Asked(r)) \cap Known = {}
<1>1. \A c \in ReadCells :
        said'[c] = IF c \in DOMAIN Asked(r) THEN Asked(r)[c] ELSE said[c]
  BY DEF Remember
<1>2. asked' = asked \cup Coordinates(Asked(r)) BY Zenon DEF Remember
<1>3. repeated' = (repeated \/ Coordinates(Asked(r)) \cap Known # {})
  BY Zenon DEF Remember, Known
<1>4. Coordinates(Start.position)' = Coordinates(Start.position)
  BY DEF Coordinates, Start
<1>5. Known' = Known \cup Coordinates(Asked(r)) BY <1>2, <1>4 DEF Known
<1>6. ~repeated' => ~repeated /\ Coordinates(Asked(r)) \cap Known = {} BY <1>3, Zenon
<1> QED BY <1>1, <1>5, <1>6

\* Only Location asks for a position.
LEMMA OthersAsk ==
  ASSUME NEW r, ~Sets(r, {"Location"})
  PROVE  DOMAIN Asked(r) \cap Positions = {} /\ Coordinates(Asked(r)) = {}
<1>1. DOMAIN Asked(r) \cap Positions = {}
  <2>1. CASE Sets(r, DOMAIN Entries)
    <3>1. DOMAIN Asked(r) = {Entries[r.command]} BY <2>1, AskedValues
    <3>2. Entries[r.command] \notin Positions BY <2>1 DEF Sets, Entries, Positions
    <3> QED BY <3>1, <3>2
  <2>2. CASE Acts(r, DOMAIN TouchTypes)
    <3>1. Asked(r) = AskedTouch(r) BY <2>2, AskedValues
    <3> QED BY <3>1 DEF AskedTouch, Positions
  <2>3. CASE Acts(r, {"KeyPress"})
    <3>1. DOMAIN Asked(r) = {"engine"} BY <2>3, AskedValues DEF AskedKey
    <3> QED BY <3>1 DEF Positions
  <2>4. CASE ~Sets(r, DOMAIN Entries) /\ ~Acts(r, DOMAIN TouchTypes) /\ ~Acts(r, {"KeyPress"})
    <3>1. Asked(r) = NoCells BY <2>4, AskedValues
    <3> QED BY <3>1 DEF NoCells
  <2> QED BY <2>1, <2>2, <2>3, <2>4
<1> QED BY <1>1 DEF Coordinates, Positions

\* Only Location writes one.
LEMMA OthersMove ==
  ASSUME NEW r, ~Sets(r, {"Location"}), NEW d, NEW s,
         RunOf(r.command, r.type, r.args, d, s).valid
  PROVE  Writes(RunOf(r.command, r.type, r.args, d, s).writes) \cap Positions = {}
<1> DEFINE writes == RunOf(r.command, r.type, r.args, d, s).writes
<1>1. PICK S : /\ Only(writes, S)
               /\ \/ r.type = "set" /\ r.command \in DOMAIN Entries /\ S = {Entries[r.command]}
                  \/ r.type = "set" /\ r.command = "Location"
                  \/ S \in {Colours, {"argsColor", "engine"}, ScreenCells, TouchCells \cup {"engine"},
                            KeyCells \cup {"engine"}, ActionCells, {}}
  BY CommandWrites
<1>2. S \cap Positions = {}
  BY <1>1 DEF Entries, Positions, Colours, ScreenCells, TouchCells, KeyCells, ActionCells, Sets
<1> QED BY <1>1, <1>2 DEF Only

\* Steps that are not about the position.

LEMMA MoveKept ==
  ASSUME MoveInv, setting' = setting, Known' = Known, ~repeated' => ~repeated,
         \A c \in Positions : said'[c] = said[c] /\ cells'[c] = cells[c],
         run'["main"].writes = run["main"].writes \/ (~Moving /\ ~Moving')
  PROVE  MoveInv' /\ (Moving' <=> Moving)
<1>1. Moving' <=> Moving BY DEF Moving
<1>2. CASE setting.lite
  <2>1. \A c \in Positions : Put(c, said'[c]) \in Known' /\ Put(c, cells'[c]) \in Known'
    BY <1>2 DEF MoveInv
  <2>2. ~Moving' => \A c \in Positions : cells'[c] = said'[c] BY <1>1, <1>2 DEF MoveInv
  <2>3. CASE Moving
    <3>1. run'["main"].writes = run["main"].writes BY <2>3
    <3>2. /\ said'["LATITUDE"] = said["LATITUDE"] /\ said'["LONGITUDE"] = said["LONGITUDE"]
          /\ cells'["LATITUDE"] = cells["LATITUDE"] /\ cells'["LONGITUDE"] = cells["LONGITUDE"]
      BY DEF Positions
    <3> QED BY <1>1, <1>2, <2>1, <2>2, <2>3, <3>1, <3>2 DEF MoveInv
  <2>4. CASE ~Moving BY <1>1, <2>1, <2>2, <2>4 DEF MoveInv
  <2> QED BY <1>1, <2>3, <2>4
<1>3. CASE ~setting.lite BY <1>1, <1>3 DEF MoveInv
<1> QED BY <1>2, <1>3

LEMMA PlaceKept ==
  ASSUME PlaceInv, setting' = setting, Known' = Known, ~repeated' => ~repeated,
         \A c \in Positions : said'[c] = said[c] /\ cells'[c] = cells[c],
         run'["main"].writes = run["main"].writes \/ (~Moving /\ ~Moving'),
         location' = location,
         DOMAIN js' = JsFields, js'.job = js.job, js'.todo = js.todo, js'.got = js.got
  PROVE  PlaceInv'
<1>1. MoveInv' /\ (Moving' <=> Moving) BY MoveKept DEF PlaceInv
<1>2. JobInv' BY DEF PlaceInv, JobInv, IsPosition
<1>3. SeenInv'
  <2>1. /\ said'["LATITUDE"] = said["LATITUDE"] /\ said'["LONGITUDE"] = said["LONGITUDE"]
    BY DEF Positions
  <2>2. js.job \in {"tell", "subscribe"} => DOMAIN js.got \subseteq Positions
    BY DEF PlaceInv, JobInv, IsPosition, Readers, Positions
  <2> QED BY <1>1, <2>1, <2>2 DEF PlaceInv, SeenInv
<1> QED BY <1>1, <1>2, <1>3 DEF PlaceInv

\* A command begins: Location, or another.
LEMMA Disturbed ==
  ASSUME NEW written, Disturb(written), DOMAIN js = JsFields
  PROVE  DOMAIN js' = JsFields /\ js'.job = js.job /\ js'.todo = js.todo /\ js'.got = js.got
BY DEF Disturb, JsFields

LEMMA PlaceBegins ==
  ASSUME RunInv, PlaceInv, UNCHANGED <<setting, cells, location>>,
         NEW t \in Threads, NEW r, NEW answer, Begins(t, r, answer), setting.lite => t = "main"
  PROVE  PlaceInv'
<1> DEFINE runs == RunOf(r.command, r.type, r.args, cells, setting)
<1>1. /\ runs.valid /\ Rests(t) /\ Remember(r)
      /\ run' = [run EXCEPT ![t] = Working(r, runs.writes, answer)]
  BY DEF Begins
<1>2. DOMAIN js' = JsFields /\ js'.job = js.job /\ js'.todo = js.todo /\ js'.got = js.got
  BY Disturbed DEF Begins, PlaceInv, JobInv
<1>3. \A u \in Threads \ {t} : run'[u] = run[u] BY <1>1 DEF RunInv
<1>4. run'[t].writes = runs.writes /\ run[t].writes = <<>>
  BY <1>1 DEF RunInv, Working
<1>5. Positions \subseteq ReadCells BY DEF Positions, ReadCells
<1> HIDE DEF runs
<1>6. CASE ~setting.lite
  <2>1. JobInv' BY <1>2, <1>6 DEF PlaceInv, JobInv, IsPosition
  <2> QED BY <1>6, <2>1 DEF PlaceInv, MoveInv, SeenInv
<1>7. CASE setting.lite /\ ~Sets(r, {"Location"})
  <2>1. /\ \A c \in Positions : said'[c] = said[c]
        /\ Known' = Known
    BY <1>1, <1>5, <1>7, Remembered, OthersAsk
  <2>2. ~repeated' => ~repeated BY <1>1, Remembered
  <2>3. Writes(runs.writes) \cap Positions = {} BY <1>1, <1>7, OthersMove DEF runs
  <2>4. ~Moving /\ ~Moving' BY <1>4, <1>7, <2>3, WritesOf DEF Moving
  <2> QED BY <1>2, <2>1, <2>2, <2>4, PlaceKept
<1>8. CASE setting.lite /\ Sets(r, {"Location"})
  <2> DEFINE u == Degrees(r.args, "latitude")
             v == Degrees(r.args, "longitude")
  <2>1. runs = RunSet("Location", r.args, cells, setting) BY <1>8 DEF Sets, RunOf, runs
  <2>2. /\ runs.writes = <<Put("LONGITUDE", v), Put("LATITUDE", u)>>
        /\ IsValid("LONGITUDE", v) /\ IsValid("LATITUDE", u)
    BY <1>1, <2>1, LocationWrites
  <2>3. Asked(r) = [LATITUDE |-> u, LONGITUDE |-> v] BY <1>8, AskedValues, Zenon
  <2> HIDE DEF u, v
  <2>4. Coordinates(Asked(r)) = {Put("LATITUDE", u), Put("LONGITUDE", v)}
    BY <2>3 DEF Coordinates
  <2>5. said'["LATITUDE"] = u /\ said'["LONGITUDE"] = v
    BY <1>1, <1>5, <2>3, Remembered DEF Positions
  <2>6. /\ Known' = Known \cup {Put("LATITUDE", u), Put("LONGITUDE", v)}
        /\ ~repeated' => Put("LATITUDE", u) \notin Known
    BY <1>1, <2>4, Remembered
  <2>7. ~Moving BY <1>4, <1>8, WritesOf DEF Moving
  <2>8. Moving' /\ run'["main"].writes = <<Put("LONGITUDE", v), Put("LATITUDE", u)>>
    <3>1. run'["main"].writes = <<Put("LONGITUDE", v), Put("LATITUDE", u)>>
      BY <1>4, <1>8, <2>2, Zenon
    <3>2. Writes(run'["main"].writes) = {"LONGITUDE", "LATITUDE"} BY <3>1, WritesOf
    <3> QED BY <3>1, <3>2 DEF Moving, Positions
  <2>9. MoveInv'
    <3>1. \A c \in Positions : Put(c, said'[c]) \in Known' /\ Put(c, cells'[c]) \in Known'
      BY <1>8, <2>5, <2>6 DEF PlaceInv, MoveInv, Positions
    <3>2. ~repeated' => cells'["LATITUDE"] # said'["LATITUDE"]
      BY <1>8, <2>5, <2>6 DEF PlaceInv, MoveInv, Positions
    <3> QED BY <2>2, <2>5, <2>8, <3>1, <3>2 DEF MoveInv
  <2>10. JobInv' BY <1>2, <2>6 DEF PlaceInv, JobInv, IsPosition
  <2>11. SeenInv'
    <3> SUFFICES ASSUME ~repeated' PROVE SeenInv' BY DEF SeenInv
    <3>1. location.checked["LATITUDE"] # u
      BY <1>8, <2>6 DEF PlaceInv, JobInv, Positions
    <3>2. "LATITUDE" \in DOMAIN js.got => js.got["LATITUDE"] # u
      BY <1>8, <2>6 DEF PlaceInv, JobInv, Positions
    <3> QED BY <1>2, <2>5, <3>1, <3>2 DEF SeenInv, Positions
  <2> QED BY <2>9, <2>10, <2>11 DEF PlaceInv
<1> QED BY <1>6, <1>7, <1>8

LEMMA PlaceWrite ==
  ASSUME RunInv, PlaceInv, NEW t \in Threads, Write(t)
  PROVE  PlaceInv'
<1>1. /\ UNCHANGED <<setting, js, location, said, repeated, asked>>
      /\ run[t].writes # <<>> /\ ~Rests(t)
      /\ \A u \in Threads \ {t} : run'[u] = run[u]
      /\ Lands(t) \/ Fails(t)
  BY WriteKinds DEF ghosts
<1>2. Known' = Known BY <1>1 DEF Known, Coordinates
<1>3. DOMAIN js' = JsFields BY <1>1 DEF PlaceInv, JobInv
<1>4. CASE ~setting.lite
  <2>1. JobInv' BY <1>1, <1>4 DEF PlaceInv, JobInv, IsPosition
  <2> QED BY <1>1, <1>4, <2>1 DEF PlaceInv, MoveInv, SeenInv
<1>5. CASE setting.lite
  <2>1. t = "main" BY <1>1, <1>5 DEF RunInv, Threads
  <2>2. Lands("main") BY <1>1, <1>5, <2>1 DEF Fails, LosesAbility
  <2>3. Positions \subseteq Cells /\ Positions \subseteq DataItems
    BY DEF Positions, Cells, DataItems, InitSharedData
  <2>4. CASE ~Moving
    <3>1. \A c \in Positions : cells'[c] = cells[c]
      BY <2>1, <2>2, <2>3, <2>4, OtherWrite DEF Moving
    <3>2. ~Moving' BY <2>1, <2>4, LessUnderWay DEF Moving, Threads
    <3> QED BY <1>1, <1>2, <1>3, <2>4, <3>1, <3>2, PlaceKept
  <2>5. CASE Moving
    <3> DEFINE u == said["LATITUDE"]
               v == said["LONGITUDE"]
    <3>1. /\ IsValid("LONGITUDE", v) /\ IsValid("LATITUDE", u)
          /\ ~repeated => cells["LATITUDE"] # u
          /\ \/ run["main"].writes = <<Put("LONGITUDE", v), Put("LATITUDE", u)>>
             \/ run["main"].writes = <<Put("LATITUDE", u)>> /\ cells["LONGITUDE"] = v
      BY <1>5, <2>5 DEF PlaceInv, MoveInv
    <3>2. u' = u /\ v' = v BY <1>1
    <3> HIDE DEF u, v
    <3>3. Landing(Put("LONGITUDE", v)) = v /\ Landing(Put("LATITUDE", u)) = u
      BY <2>3, <3>1, Landings DEF Positions
    <3>4. DOMAIN cells = Cells BY DEF RunInv
    <3>5. run'["main"].writes = Tail(run["main"].writes) BY <2>2 DEF Lands
    <3>6. \A c \in Positions : Put(c, said[c]) \in Known /\ Put(c, cells[c]) \in Known
      BY <1>5 DEF PlaceInv, MoveInv
    <3>7. MoveInv'
      <4>1. CASE run["main"].writes = <<Put("LONGITUDE", v), Put("LATITUDE", u)>>
        <5>1. /\ Head(run["main"].writes) = Put("LONGITUDE", v)
              /\ Tail(run["main"].writes) = <<Put("LATITUDE", u)>>
          BY <4>1
        <5>2. cells' = [cells EXCEPT !["LONGITUDE"] = v] BY <2>1, <2>2, <3>3, <5>1, Landed
        <5>3. cells'["LONGITUDE"] = v /\ cells'["LATITUDE"] = cells["LATITUDE"]
          BY <2>3, <3>4, <5>2 DEF Positions
        <5>4. \A c \in Positions : Put(c, said'[c]) \in Known' /\ Put(c, cells'[c]) \in Known'
          BY <1>1, <1>2, <3>6, <5>3 DEF Positions, u, v
        <5>5. Moving'
          <6>1. Writes(run'["main"].writes) = {"LATITUDE"} BY <3>5, <5>1, WritesOf
          <6> QED BY <6>1 DEF Moving, Positions
        <5> QED BY <1>1, <3>1, <3>2, <3>5, <5>1, <5>3, <5>4, <5>5 DEF MoveInv, u, v
      <4>2. CASE run["main"].writes = <<Put("LATITUDE", u)>> /\ cells["LONGITUDE"] = v
        <5>1. /\ Head(run["main"].writes) = Put("LATITUDE", u)
              /\ Tail(run["main"].writes) = <<>>
          BY <4>2
        <5>2. cells' = [cells EXCEPT !["LATITUDE"] = u] BY <2>1, <2>2, <3>3, <5>1, Landed
        <5>3. cells'["LATITUDE"] = u /\ cells'["LONGITUDE"] = v
          BY <2>3, <3>4, <4>2, <5>2 DEF Positions
        <5>4. \A c \in Positions : Put(c, said'[c]) \in Known' /\ cells'[c] = said'[c]
          BY <1>1, <1>2, <3>6, <5>3 DEF Positions, u, v
        <5>5. ~Moving'
          <6>1. Writes(run'["main"].writes) = {} BY <3>5, <5>1, WritesOf
          <6> QED BY <6>1 DEF Moving
        <5> QED BY <5>4, <5>5 DEF MoveInv
      <4> QED BY <3>1, <4>1, <4>2
    <3>8. JobInv' BY <1>1, <1>2 DEF PlaceInv, JobInv, IsPosition
    <3>9. SeenInv' BY <1>1, <1>5, <2>5 DEF PlaceInv, SeenInv
    <3> QED BY <3>7, <3>8, <3>9 DEF PlaceInv
  <2> QED BY <2>4, <2>5
<1> QED BY <1>4, <1>5

\* The JS thread reads one more cell.
LEMMA PlaceRead ==
  ASSUME RunInv, PlaceInv, Read, MoveInv', UNCHANGED <<setting, location, said, repeated>>,
         Known' = Known, Moving' <=> Moving
  PROVE  PlaceInv'
<1> DEFINE c == Head(js.todo)
           got == With(js.got, c, Cut(c, cells[c]))
<1>1. /\ js.todo # <<>> /\ setting.lite /\ DOMAIN js = JsFields
      /\ js' = [js EXCEPT !.todo = Tail(@), !.got = got]
  BY Zenon DEF Read, JsRuns, PlaceInv, JobInv
<1> HIDE DEF got
<1>2. /\ DOMAIN js' = JsFields /\ js'.job = js.job /\ js'.todo = Tail(js.todo) /\ js'.got = got
  BY <1>1 DEF JsFields
<1>3. c \in Positions => /\ DOMAIN got = DOMAIN js.got \cup {c} /\ got[c] = cells[c]
                         /\ \A d \in DOMAIN js.got \ {c} : got[d] = js.got[d]
  BY DEF got, With, Cut, Positions
<1>4. \A d \in Positions \cap DOMAIN got : Put(d, got[d]) \in Known
  <2>1. CASE c \in Positions BY <1>1, <1>3, <2>1 DEF PlaceInv, MoveInv, JobInv
  <2>2. CASE c \notin Positions
    <3>1. \A d \in Positions \cap DOMAIN got : d \in DOMAIN js.got /\ got[d] = js.got[d]
      BY <2>2 DEF got, With
    <3> QED BY <1>1, <3>1 DEF PlaceInv, JobInv
  <2> QED BY <2>1, <2>2
<1>5. DOMAIN got = Positions => IsPosition(got) BY DEF got, With, IsPosition
<1>6. js.job \in Readers =>
        \/ /\ js.todo = <<"LATITUDE", "LONGITUDE">> /\ DOMAIN js.got = {}
           /\ c = "LATITUDE" /\ Tail(js.todo) = <<"LONGITUDE">> /\ DOMAIN got = {"LATITUDE"}
        \/ /\ js.todo = <<"LONGITUDE">> /\ DOMAIN js.got = {"LATITUDE"}
           /\ c = "LONGITUDE" /\ Tail(js.todo) = <<>> /\ DOMAIN got = Positions
  <2> SUFFICES ASSUME js.job \in Readers
               PROVE  \/ /\ js.todo = <<"LATITUDE", "LONGITUDE">> /\ DOMAIN js.got = {}
                         /\ c = "LATITUDE" /\ Tail(js.todo) = <<"LONGITUDE">>
                         /\ DOMAIN got = {"LATITUDE"}
                      \/ /\ js.todo = <<"LONGITUDE">> /\ DOMAIN js.got = {"LATITUDE"}
                         /\ c = "LONGITUDE" /\ Tail(js.todo) = <<>> /\ DOMAIN got = Positions
    OBVIOUS
  <2>1. \/ js.todo = <<"LATITUDE", "LONGITUDE">> /\ DOMAIN js.got = {}
        \/ js.todo = <<"LONGITUDE">> /\ DOMAIN js.got = {"LATITUDE"}
    BY <1>1 DEF PlaceInv, JobInv
  <2>2. CASE js.todo = <<"LATITUDE", "LONGITUDE">> /\ DOMAIN js.got = {}
    <3>1. c = "LATITUDE" /\ Tail(js.todo) = <<"LONGITUDE">> BY <2>2
    <3>2. DOMAIN got = {"LATITUDE"} BY <1>3, <2>2, <3>1 DEF Positions
    <3> QED BY <2>2, <3>1, <3>2
  <2>3. CASE js.todo = <<"LONGITUDE">> /\ DOMAIN js.got = {"LATITUDE"}
    <3>1. c = "LONGITUDE" /\ Tail(js.todo) = <<>> BY <2>3
    <3>2. DOMAIN got = Positions BY <1>3, <2>3, <3>1 DEF Positions
    <3> QED BY <2>3, <3>1, <3>2
  <2> QED BY <2>1, <2>2, <2>3
<1>7. js.job = "check" =>
        \/ /\ js.todo = <<"LONGITUDE", "LATITUDE">> /\ DOMAIN js.got = {}
           /\ c = "LONGITUDE" /\ Tail(js.todo) = <<"LATITUDE">> /\ DOMAIN got = {"LONGITUDE"}
        \/ /\ js.todo = <<"LATITUDE">> /\ DOMAIN js.got = {"LONGITUDE"}
           /\ c = "LATITUDE" /\ Tail(js.todo) = <<>> /\ DOMAIN got = Positions
  <2> SUFFICES ASSUME js.job = "check"
               PROVE  \/ /\ js.todo = <<"LONGITUDE", "LATITUDE">> /\ DOMAIN js.got = {}
                         /\ c = "LONGITUDE" /\ Tail(js.todo) = <<"LATITUDE">>
                         /\ DOMAIN got = {"LONGITUDE"}
                      \/ /\ js.todo = <<"LATITUDE">> /\ DOMAIN js.got = {"LONGITUDE"}
                         /\ c = "LATITUDE" /\ Tail(js.todo) = <<>> /\ DOMAIN got = Positions
    OBVIOUS
  <2>1. \/ js.todo = <<"LONGITUDE", "LATITUDE">> /\ DOMAIN js.got = {}
        \/ js.todo = <<"LATITUDE">> /\ DOMAIN js.got = {"LONGITUDE"}
    BY <1>1 DEF PlaceInv, JobInv
  <2>2. CASE js.todo = <<"LONGITUDE", "LATITUDE">> /\ DOMAIN js.got = {}
    <3>1. c = "LONGITUDE" /\ Tail(js.todo) = <<"LATITUDE">> BY <2>2
    <3>2. DOMAIN got = {"LONGITUDE"} BY <1>3, <2>2, <3>1 DEF Positions
    <3> QED BY <2>2, <3>1, <3>2
  <2>3. CASE js.todo = <<"LATITUDE">> /\ DOMAIN js.got = {"LONGITUDE"}
    <3>1. c = "LATITUDE" /\ Tail(js.todo) = <<>> BY <2>3
    <3>2. DOMAIN got = Positions BY <1>3, <2>3, <3>1 DEF Positions
    <3> QED BY <2>3, <3>1, <3>2
  <2> QED BY <2>1, <2>2, <2>3
<1>8. JobInv'
  <2>1. js'.job \in Readers =>
          \/ js'.todo = <<"LATITUDE", "LONGITUDE">> /\ DOMAIN js'.got = {}
          \/ js'.todo = <<"LONGITUDE">> /\ DOMAIN js'.got = {"LATITUDE"}
          \/ js'.todo = <<>> /\ IsPosition(js'.got)
    BY <1>2, <1>5, <1>6
  <2>2. js'.job = "check" =>
          \/ js'.todo = <<"LONGITUDE", "LATITUDE">> /\ DOMAIN js'.got = {}
          \/ js'.todo = <<"LATITUDE">> /\ DOMAIN js'.got = {"LONGITUDE"}
          \/ js'.todo = <<>> /\ IsPosition(js'.got)
    BY <1>2, <1>5, <1>7
  <2> QED BY <1>2, <1>4, <2>1, <2>2 DEF PlaceInv, JobInv, IsPosition
<1>9. SeenInv'
  <2> SUFFICES ASSUME ~repeated PROVE SeenInv' BY DEF SeenInv
  <2>1. SeenInv /\ (~Moving => \A d \in Positions : cells[d] = said[d])
          /\ (Moving => cells["LATITUDE"] # said["LATITUDE"])
    BY <1>1 DEF PlaceInv, MoveInv
  <2>2. js.job \in Readers \cup {"check"} /\ "LATITUDE" \in DOMAIN got
          /\ got["LATITUDE"] = said["LATITUDE"] =>
            /\ ~Moving
            /\ js.job # "check" /\ "LONGITUDE" \in DOMAIN got => got["LONGITUDE"] = said["LONGITUDE"]
    BY <1>1, <1>3, <1>6, <1>7, <2>1 DEF SeenInv, Positions
  <2>3. location.checked["LATITUDE"] = said["LATITUDE"] /\ js.job \in {"tell", "subscribe"} =>
          \A d \in DOMAIN got : got[d] = said[d]
    BY <1>1, <1>3, <1>6, <2>1 DEF SeenInv, Positions, Readers
  <2> QED BY <1>1, <1>2, <2>1, <2>2, <2>3 DEF SeenInv
<1> QED BY <1>8, <1>9 DEF PlaceInv

LEMMA PlaceJs ==
  ASSUME RunInv, PlaceInv, JsNext
  PROVE  PlaceInv'
<1>1. /\ UNCHANGED <<setting, run, said, repeated, asked>> /\ setting.lite
      /\ \A c \in Positions : cells'[c] = cells[c]
  <2>1. Positions \subseteq Cells \ JsCells
    BY DEF Positions, Cells, DataItems, InitSharedData, JsCells
  <2> QED BY <2>1, JsSteps DEF ghosts, RunInv
<1>2. Known' = Known BY <1>1 DEF Known, Coordinates
<1>3. MoveInv' /\ (Moving' <=> Moving) BY <1>1, <1>2, MoveKept DEF PlaceInv
<1>4. /\ DOMAIN JsIdle = JsFields /\ JsIdle.job = "none" /\ DOMAIN JsIdle.got = {}
  BY DEF JsIdle, JsFields, NoCells
<1>5. \A job : /\ DOMAIN Job(job) = JsFields /\ Job(job).job = job
               /\ Job(job).todo = JobCells[job] /\ DOMAIN Job(job).got = {}
  BY DEF Job, JsFields, NoCells
<1>6. CASE \/ \E item, v : AppSets(item, v)
           \/ \E registered : RegistBundle(registered)
  <2>1. js' = js /\ location' = location BY <1>6 DEF AppSets, RegistBundle
  <2>2. DOMAIN js' = JsFields BY <2>1 DEF PlaceInv, JobInv
  <2> QED BY <1>1, <1>2, <2>1, <2>2, PlaceKept
<1>7. CASE EndRead \/ EndWheel
  <2>1. js' = JsIdle /\ location' = location /\ js.job # "tell"
    BY <1>7 DEF EndRead, EndWheel, Done
  <2>2. JobInv' BY <1>1, <1>2, <1>4, <2>1 DEF PlaceInv, JobInv, IsPosition, Readers
  <2>3. SeenInv' BY <1>1, <1>3, <1>4, <2>1 DEF PlaceInv, SeenInv, Readers
  <2> QED BY <1>3, <2>2, <2>3 DEF PlaceInv
<1>8. ASSUME NEW job \in AppJobs \cup TimerJobs, StartJob(job) PROVE PlaceInv'
  <2>1. js = JsIdle /\ js' = Job(job) /\ location' = location BY <1>8 DEF StartJob
  <2>2. /\ job \in Readers => JobCells[job] = <<"LATITUDE", "LONGITUDE">>
        /\ job = "check" => JobCells[job] = <<"LONGITUDE", "LATITUDE">>
    BY DEF JobCells, Readers, LocationCells
  <2>3. JobInv' BY <1>1, <1>2, <1>5, <2>1, <2>2 DEF PlaceInv, JobInv, IsPosition
  <2>4. SeenInv' BY <1>1, <1>3, <1>4, <1>5, <2>1 DEF PlaceInv, SeenInv
  <2> QED BY <1>3, <2>3, <2>4 DEF PlaceInv
<1>9. CASE UnSubGeoLocation
  <2>1. js' = js /\ location' = [location EXCEPT !.subscribed = FALSE]
    BY <1>9 DEF UnSubGeoLocation
  <2>2. /\ location'.checked = location.checked /\ location'.told = location.told
        /\ location'.subscribed = FALSE /\ DOMAIN location' = DOMAIN location
    BY <2>1 DEF PlaceInv, JobInv
  <2>3. JobInv' BY <1>1, <1>2, <2>1, <2>2 DEF PlaceInv, JobInv, IsPosition
  <2>4. SeenInv' BY <1>1, <1>3, <2>1, <2>2 DEF PlaceInv, SeenInv
  <2> QED BY <1>3, <2>3, <2>4 DEF PlaceInv
<1>10. CASE CheckDevice
  <2>1. /\ js.job = "check" /\ js.todo = <<>>
        /\ location' = [location EXCEPT !.checked = js.got]
        /\ js' = IF js.got # location.checked /\ location.subscribed THEN Job("tell") ELSE JsIdle
    BY <1>10 DEF CheckDevice, Done
  <2>2. IsPosition(js.got) /\ DOMAIN js.got = Positions
    BY <2>1 DEF PlaceInv, JobInv, IsPosition
  <2>3. /\ location'.checked = js.got /\ location'.told = location.told
        /\ location'.subscribed = location.subscribed /\ DOMAIN location' = DOMAIN location
    BY <2>1 DEF PlaceInv, JobInv
  <2>4. JobCells["tell"] = <<"LATITUDE", "LONGITUDE">> BY DEF JobCells, LocationCells
  <2>5. \A c \in Positions : Put(c, js.got[c]) \in Known
    BY <1>1, <2>2 DEF PlaceInv, JobInv
  <2>6. CASE js.got # location.checked /\ location.subscribed
    <3>1. js' = Job("tell") BY <2>1, <2>6
    <3>2. JobInv'
      BY <1>1, <1>2, <1>5, <2>2, <2>3, <2>4, <2>5, <3>1 DEF PlaceInv, JobInv, IsPosition
    <3>3. SeenInv'
      BY <1>1, <1>3, <1>5, <2>1, <2>2, <2>3, <3>1 DEF PlaceInv, SeenInv, Positions
    <3> QED BY <1>3, <3>2, <3>3 DEF PlaceInv
  <2>7. CASE ~(js.got # location.checked /\ location.subscribed)
    <3>1. js' = JsIdle BY <2>1, <2>7
    <3>2. JobInv'
      BY <1>1, <1>2, <1>4, <2>2, <2>3, <2>5, <3>1 DEF PlaceInv, JobInv, IsPosition, Readers
    <3>3. SeenInv'
      BY <1>1, <1>3, <1>4, <2>1, <2>2, <2>3, <2>7, <3>1 DEF PlaceInv, SeenInv, Positions, Readers
    <3> QED BY <1>3, <3>2, <3>3 DEF PlaceInv
  <2> QED BY <2>6, <2>7
<1>11. CASE ExecCallBack \/ SubGeoLocation
  <2>1. /\ js.job \in {"tell", "subscribe"} /\ js.todo = <<>> /\ js' = JsIdle
        /\ \/ location' = [location EXCEPT !.told = js.got]
           \/ location' = [location EXCEPT !.told = js.got, !.subscribed = TRUE]
    BY <1>11 DEF ExecCallBack, SubGeoLocation, Done
  <2>2. IsPosition(js.got) /\ DOMAIN js.got = Positions
    <3>1. <<>> # <<"LONGITUDE">> /\ <<>> # <<"LATITUDE", "LONGITUDE">> OBVIOUS
    <3>2. IsPosition(js.got) BY <2>1, <3>1 DEF PlaceInv, JobInv, Readers
    <3> QED BY <3>2 DEF IsPosition
  <2>3. /\ location'.told = js.got /\ location'.checked = location.checked
        /\ DOMAIN location' = DOMAIN location
    BY <2>1 DEF PlaceInv, JobInv
  <2>4. JobInv'
    BY <1>1, <1>2, <1>4, <2>1, <2>2, <2>3 DEF PlaceInv, JobInv, IsPosition, Readers
  <2>5. SeenInv'
    BY <1>1, <1>3, <1>4, <2>1, <2>2, <2>3 DEF PlaceInv, SeenInv, Positions, Readers
  <2> QED BY <1>3, <2>4, <2>5 DEF PlaceInv
<1>12. CASE Read
  <2>1. location' = location BY <1>12 DEF Read
  <2> QED BY <1>1, <1>2, <1>3, <1>12, <2>1, PlaceRead
<1> QED BY <1>6, <1>7, <1>8, <1>9, <1>10, <1>11, <1>12 DEF JsNext

\* A command that is refused leaves nothing to write.
LEMMA RefusedKeeps ==
  ASSUME RunInv, Refused
  PROVE  run'["main"].writes = run["main"].writes
<1>1. CASE run' = run BY <1>1
<1>2. CASE run' # run
  <2>1. PICK t \in Threads, answer \in {"false", "unsupported"} : \E r :
          Rests(t) /\ run' = [run EXCEPT ![t] = Working(r, <<>>, answer)]
    BY <1>2, Zenon DEF Refused
  <2>2. run'[t].writes = <<>> /\ run[t].writes = <<>> BY <2>1 DEF RunInv, Working
  <2>3. \A u \in Threads \ {t} : run'[u] = run[u] BY <2>1 DEF RunInv
  <2> QED BY <2>2, <2>3 DEF Threads
<1> QED BY <1>1, <1>2

LEMMA PlaceKeeps == RunInv /\ PlaceInv /\ [DeviceNext]_device_vars => PlaceInv'
<1> SUFFICES ASSUME RunInv, PlaceInv, [DeviceNext]_device_vars PROVE PlaceInv'
  OBVIOUS
<1>1. asked' = asked => Known' = Known BY DEF Known, Coordinates
<1>2. DOMAIN js = JsFields BY DEF PlaceInv, JobInv
<1>3. CASE MainNext
  <2>1. UNCHANGED <<setting, run, js, location, said, repeated, asked>>
    BY <1>3 DEF MainNext, InitResolution, EndConfig, InitJsApp, CopyColorMode, SetColorMode,
                CreateInstance, AssignAbility, Rest
  <2>2. Positions \subseteq Cells \ MainCells
    BY DEF Positions, Cells, DataItems, InitSharedData, MainCells
  <2>3. \A c \in Positions : cells'[c] = cells[c] BY <1>3, <2>2, MainWrites
  <2> QED BY <1>1, <1>2, <2>1, <2>3, PlaceKept
<1>4. CASE Begun
  <2>1. UNCHANGED <<setting, cells, location>> BY <1>4 DEF Begun
  <2>2. CASE Refused
    <3>1. UNCHANGED <<js, said, repeated, asked>> BY <2>2 DEF Refused, ghosts
    <3>2. run'["main"].writes = run["main"].writes BY <2>2, RefusedKeeps
    <3> QED BY <1>1, <1>2, <2>1, <3>1, <3>2, PlaceKept
  <2>3. CASE \E t \in Threads : \E r, answer :
               Begins(t, r, answer) /\ (setting.lite => t = "main")
    BY <2>1, <2>3, PlaceBegins
  <2> QED BY <1>4, <2>2, <2>3, Zenon DEF Begun
<1>5. ASSUME NEW t \in Threads, Write(t) PROVE PlaceInv'
  BY <1>5, PlaceWrite
<1>6. ASSUME NEW t \in Threads, SendResult(t) PROVE PlaceInv'
  <2>1. /\ UNCHANGED <<setting, cells, js, location, said, repeated, asked>>
        /\ run' = [run EXCEPT ![t] = Idle] /\ run[t].writes = <<>>
    BY <1>6 DEF SendResult, ghosts
  <2>2. run'["main"].writes = run["main"].writes
    BY <2>1 DEF RunInv, Idle, Threads
  <2> QED BY <1>1, <1>2, <2>1, <2>2, PlaceKept
<1>7. CASE JsNext BY <1>7, PlaceJs
<1>8. CASE UNCHANGED device_vars
  <2>1. UNCHANGED <<setting, run, cells, js, location, said, repeated, asked>>
    BY <1>8 DEF device_vars
  <2> QED BY <1>1, <1>2, <2>1, PlaceKept
<1> QED BY <1>3, <1>4, <1>5, <1>6, <1>7, <1>8, NextKinds

LEMMA InitPlaceInv == DeviceInit => PlaceInv
<1> SUFFICES ASSUME DeviceInit PROVE PlaceInv OBVIOUS
<1>1. /\ cells = StartCells(setting) /\ said = [c \in ReadCells |-> cells[c]] /\ js = JsIdle
      /\ location = [checked |-> Start.position, told |-> Start.position, subscribed |-> FALSE]
      /\ run["main"] = Idle
  BY DEF DeviceInit, Threads
<1>2. /\ cells["LATITUDE"] = 0 /\ cells["LONGITUDE"] = 0
      /\ said["LATITUDE"] = 0 /\ said["LONGITUDE"] = 0
  <2>1. Positions \subseteq DataItems /\ Positions \subseteq ReadCells
          /\ Positions \cap (DOMAIN Members \cup {"LANGUAGE"}) = {}
    BY DEF Positions, DataItems, InitSharedData, ReadCells, Members
  <2>2. \A c \in Positions : cells[c] = InitSharedData[c].value /\ said[c] = cells[c]
    BY <1>1, <2>1 DEF StartCells, Cells
  <2>3. InitSharedData["LATITUDE"].value = 0 /\ InitSharedData["LONGITUDE"].value = 0
    BY DEF InitSharedData, Data
  <2> QED BY <2>2, <2>3 DEF Positions
<1>3. Start.position = [LATITUDE |-> 0, LONGITUDE |-> 0] BY DEF Start
<1>4. Put("LATITUDE", 0) \in Known /\ Put("LONGITUDE", 0) \in Known
  BY <1>3 DEF Known, Coordinates
<1>5. ~Moving BY <1>1, WritesOf DEF Moving, Idle
<1>6. MoveInv BY <1>2, <1>4, <1>5 DEF MoveInv, Positions
<1>7. IsPosition(Start.position) BY <1>3 DEF IsPosition, Positions
<1>8. DOMAIN js = JsFields /\ js.job = "none" /\ DOMAIN js.got = {}
  BY <1>1 DEF JsIdle, JsFields, NoCells
<1>9. JobInv BY <1>1, <1>3, <1>4, <1>7, <1>8 DEF JobInv, Readers, Positions
<1>10. SeenInv BY <1>1, <1>5, <1>8 DEF SeenInv, Readers
<1> QED BY <1>6, <1>9, <1>10 DEF PlaceInv

(* However long the JS thread takes between its two reads and whatever the *)
(* commands set meanwhile, with coordinates that do not come back the new  *)
(* latitude is never read with an old longitude (LocationCommand::RunSet,  *)
(* SerializeLocData).                                                      *)
THEOREM NewLatitudeComesLast == DeviceSpec => []NewLatitudeNewLongitude
<1>1. RunInv /\ PlaceInv => NewLatitudeNewLongitude
  <2> SUFFICES ASSUME PlaceInv, ~repeated, Done({"location", "tell", "subscribe"}),
                      js.got["LATITUDE"] = said["LATITUDE"]
               PROVE  js.got["LONGITUDE"] = said["LONGITUDE"]
    BY DEF NewLatitudeNewLongitude
  <2>1. setting.lite /\ js.job \in Readers /\ js.todo = <<>> BY DEF Done, JsRuns, Readers
  <2>2. <<>> # <<"LONGITUDE">> /\ <<>> # <<"LATITUDE", "LONGITUDE">> OBVIOUS
  <2>3. IsPosition(js.got) BY <2>1, <2>2 DEF PlaceInv, JobInv
  <2>4. DOMAIN js.got = Positions BY <2>3 DEF IsPosition
  <2> QED BY <2>1, <2>4 DEF PlaceInv, SeenInv, Positions, Readers
<1> QED BY <1>1, InitRunInv, InitPlaceInv, RunKeeps, PlaceKeeps, PTL DEF DeviceSpec

(* A torn or old position never stays with an application that subscribed, *)
(* whichever of the check, the callback and the subscription read it and   *)
(* whatever was set between their reads (CheckDevice, IsPostionChanged,    *)
(* ExecCallBack, SubGeoLocation).                                          *)
THEOREM CheckedPositionIsTold == DeviceSpec => []PositionIsTold
<1>1. RunInv /\ PlaceInv => PositionIsTold
  <2> DEFINE held_position == [c \in {"LATITUDE", "LONGITUDE"} |-> cells[c]]
  <2> SUFFICES ASSUME RunInv, PlaceInv, ~repeated, location.subscribed, js = JsIdle,
                      ~UnderWay({"LATITUDE", "LONGITUDE"}), location.checked = held_position
               PROVE  location.told = held_position
    BY DEF PositionIsTold
  <2>1. setting.lite BY DEF PlaceInv, JobInv
  <2>2. ~Moving BY <2>1, OneMover DEF Positions
  <2>3. \A c \in Positions : cells[c] = said[c] /\ location.checked[c] = said[c]
    BY <2>1, <2>2 DEF PlaceInv, MoveInv, Positions
  <2>4. js.job # "tell" BY DEF JsIdle
  <2>5. \A c \in Positions : location.told[c] = said[c]
    BY <2>1, <2>3, <2>4 DEF PlaceInv, SeenInv
  <2>6. location.told = [c \in Positions |-> location.told[c]]
    BY DEF PlaceInv, JobInv, IsPosition
  <2> QED BY <2>3, <2>5, <2>6 DEF Positions
<1> QED BY <1>1, InitRunInv, InitPlaceInv, RunKeeps, PlaceKeeps, PTL DEF DeviceSpec

(***************************************************************************)
(* What the JS thread reads undisturbed.  Between commands every cell      *)
(* holds what was asked of it; a write that is still to come will land on  *)
(* what its command asked for.                                             *)
(***************************************************************************)
Exact == {"battery", "location", "input"}
ValueInv ==
  setting.lite =>
    /\ \A c \in ReadCells \ Writes(run["main"].writes) : cells[c] = said[c]
    /\ \A p \in Elements(run["main"].writes) : p.cell \in ReadCells => Landing(p) = said[p.cell]
ExactInv ==
  setting.lite =>
    /\ DOMAIN js = JsFields
    /\ js.job # "none" => main = "loop"
    /\ js.job \in Exact /\ js.clean =>
         LET seen == Elements(js.todo) \cup DOMAIN js.got IN
           /\ IsWrites(js.todo) /\ seen \subseteq ReadCells
           /\ seen \cap Writes(run["main"].writes) = {}
           /\ \A c \in DOMAIN js.got : js.got[c] = Cut(c, said[c])
ReadInv == ValueInv /\ ExactInv

LEMMA LandingKept ==
  ASSUME setting' = setting, NEW p, p.cell \in ReadCells, Landing(p) = said[p.cell],
         cells'[p.cell] \in {cells[p.cell], said[p.cell]}
  PROVE  Landing(p)' = said[p.cell]
<1>1. p.cell \in DataItems \cup {"x", "y", "touchAction"}
  BY DEF ReadCells, DataItems, InitSharedData
<1>2. DataItems \cap {"x", "y", "touchAction", "engine", "message", "shownColor"} = {}
  BY DEF DataItems, InitSharedData
<1>3. CASE p.cell \in DataItems BY <1>2, <1>3 DEF Landing, SetData
<1>4. CASE p.cell \in {"x", "y"} BY <1>2, <1>4 DEF Landing
<1>5. CASE p.cell = "touchAction"
  <2>1. Landing(p) = TouchAction(p.value, cells, setting)
          /\ Landing(p)' = TouchAction(p.value, cells', setting')
    BY <1>2, <1>5 DEF Landing
  <2> QED BY <1>5, <2>1 DEF TouchAction
<1> QED BY <1>1, <1>3, <1>4, <1>5

LEMMA ValueKept ==
  ASSUME ValueInv, UNCHANGED <<setting, said>>, \A c \in ReadCells : cells'[c] = cells[c],
         run'["main"].writes = run["main"].writes
  PROVE  ValueInv'
<1> SUFFICES ASSUME setting.lite PROVE ValueInv' BY DEF ValueInv
<1>1. \A p \in Elements(run["main"].writes) : p.cell \in ReadCells => Landing(p)' = said[p.cell]
  BY LandingKept DEF ValueInv
<1> QED BY <1>1 DEF ValueInv

\* Steps of others leave the thread's job as it is.
LEMMA ExactKept ==
  ASSUME ExactInv, UNCHANGED <<setting, said, js>>, main = "loop" => main' = "loop",
         Writes(run'["main"].writes) \subseteq Writes(run["main"].writes)
  PROVE  ExactInv'
BY DEF ExactInv

\* What a command that is accepted writes of what the thread reads is what it
\* asks for, and all of it.
LEMMA WritesAsked ==
  ASSUME setting.lite, NEW r, RunOf(r.command, r.type, r.args, cells, setting).valid
  PROVE  LET writes == RunOf(r.command, r.type, r.args, cells, setting).writes IN
           /\ DOMAIN Asked(r) \cap ReadCells \subseteq Writes(writes)
           /\ \A p \in Elements(writes) : p.cell \in ReadCells =>
                Landing(p) = IF p.cell \in DOMAIN Asked(r) THEN Asked(r)[p.cell] ELSE cells[p.cell]
<1> DEFINE runs == RunOf(r.command, r.type, r.args, cells, setting)
           writes == runs.writes
           AsAsked(p) == Landing(p) = IF p.cell \in DOMAIN Asked(r) THEN Asked(r)[p.cell]
                                      ELSE cells[p.cell]
<1> HIDE DEF runs, AsAsked
<1> SUFFICES /\ DOMAIN Asked(r) \cap ReadCells \subseteq Writes(writes)
             /\ \A p \in Elements(writes) : p.cell \in ReadCells => AsAsked(p)
  BY DEF runs, AsAsked
<1>1. CASE Sets(r, DOMAIN Entries)
  <2> DEFINE item == Entries[r.command]
             value == Meant(r.command, Member(r.args, r.command))
  <2>1. runs = RunSet(r.command, r.args, cells, setting) BY <1>1 DEF Sets, RunOf, runs
  <2>2. writes = <<Put(item, value)>> /\ IsValid(item, value)
    BY <1>1, <2>1, EntryWrites DEF Sets, runs
  <2>3. item \in DataItems BY <1>1 DEF Sets, Entries, DataItems, InitSharedData
  <2>4. Asked(r) = [c \in {item} |-> value] BY <1>1, AskedValues
  <2> HIDE DEF item, value
  <2>5. Writes(writes) = {item} BY <2>2, WritesOf
  <2>6. AsAsked(Put(item, value))
    <3>1. Landing(Put(item, value)) = value BY <2>2, <2>3, Landings
    <3>2. Put(item, value).cell = item BY DEF Put
    <3> QED BY <2>4, <3>1, <3>2 DEF AsAsked
  <2>7. Elements(writes) = {Put(item, value)} BY <2>2 DEF Elements
  <2> QED BY <2>4, <2>5, <2>6, <2>7
<1>2. CASE Sets(r, {"Location"})
  <2> DEFINE u == Degrees(r.args, "latitude")
             v == Degrees(r.args, "longitude")
  <2>1. runs = RunSet("Location", r.args, cells, setting) BY <1>2 DEF Sets, RunOf, runs
  <2>2. /\ writes = <<Put("LONGITUDE", v), Put("LATITUDE", u)>>
        /\ IsValid("LONGITUDE", v) /\ IsValid("LATITUDE", u)
    BY <2>1, LocationWrites DEF runs
  <2>3. {"LONGITUDE", "LATITUDE"} \subseteq DataItems BY DEF DataItems, InitSharedData
  <2>4. Asked(r) = [LATITUDE |-> u, LONGITUDE |-> v] BY <1>2, AskedValues, Zenon
  <2> HIDE DEF u, v
  <2>5. Writes(writes) = {"LONGITUDE", "LATITUDE"} BY <2>2, WritesOf
  <2>6. AsAsked(Put("LONGITUDE", v)) /\ AsAsked(Put("LATITUDE", u))
    <3>1. Landing(Put("LONGITUDE", v)) = v /\ Landing(Put("LATITUDE", u)) = u
      BY <2>2, <2>3, Landings
    <3>2. Put("LONGITUDE", v).cell = "LONGITUDE" /\ Put("LATITUDE", u).cell = "LATITUDE" BY DEF Put
    <3> QED BY <2>4, <3>1, <3>2 DEF AsAsked
  <2>7. Elements(writes) = {Put("LONGITUDE", v), Put("LATITUDE", u)} BY <2>2 DEF Elements
  <2>8. DOMAIN Asked(r) = {"LONGITUDE", "LATITUDE"} BY <2>4
  <2> QED BY <2>5, <2>6, <2>7, <2>8
<1>3. CASE Acts(r, DOMAIN TouchTypes)
  <2> DEFINE x == Put("x", X(r))
             y == Put("y", Y(r))
             action == Put("touchAction", TouchTypes[r.command])
             pointer == Put("pointer", AskedOf(r.command, r.args))
  <2>1. runs = RunAction(r.command, r.args, cells, setting) BY <1>3 DEF Acts, RunOf, runs
  <2>2. writes = <<x, y, action, pointer>>
    BY <1>3, <2>1, TouchWrites DEF Acts, TouchMembers, X, Y
  <2>3. /\ Landing(x) = Asked(r)["x"] /\ Landing(y) = Asked(r)["y"]
        /\ Landing(action) = IF "touchAction" \in DOMAIN Asked(r) THEN Asked(r)["touchAction"]
                             ELSE cells["touchAction"]
    BY <1>3, LiteTouch, Landings
  <2>4. /\ x.cell = "x" /\ y.cell = "y" /\ action.cell = "touchAction" /\ pointer.cell = "pointer"
    BY DEF Put
  <2>5. {"x", "y"} \subseteq DOMAIN Asked(r) /\ DOMAIN Asked(r) \subseteq {"x", "y", "touchAction"}
    BY <1>3, LiteTouch
  <2> HIDE DEF x, y, action, pointer
  <2>6. Elements(writes) = {x, y, action, pointer} BY <2>2 DEF Elements
  <2>7. Writes(writes) = {"x", "y", "touchAction", "pointer"}
    <3>1. Writes(writes) = {p.cell : p \in Elements(writes)} BY DEF Writes, Elements
    <3> QED BY <2>4, <2>6, <3>1
  <2>8. AsAsked(x) /\ AsAsked(y) /\ AsAsked(action) BY <2>3, <2>4, <2>5 DEF AsAsked
  <2>9. "pointer" \notin ReadCells BY DEF ReadCells
  <2> QED BY <2>4, <2>5, <2>6, <2>7, <2>8, <2>9
<1>4. CASE ~Sets(r, DOMAIN Entries) /\ ~Sets(r, {"Location"}) /\ ~Acts(r, DOMAIN TouchTypes)
  <2>1. DOMAIN Asked(r) \cap ReadCells = {}
    <3>1. CASE Acts(r, {"KeyPress"})
      <4>1. DOMAIN Asked(r) = {"engine"} BY <3>1, AskedValues DEF AskedKey
      <4> QED BY <4>1 DEF ReadCells
    <3>2. CASE ~Acts(r, {"KeyPress"})
      <4>1. Asked(r) = NoCells BY <1>4, <3>2, AskedValues
      <4> QED BY <4>1 DEF NoCells
    <3> QED BY <3>1, <3>2
  <2>2. PICK S : /\ Only(writes, S)
                 /\ \/ r.type = "set" /\ r.command \in DOMAIN Entries /\ S = {Entries[r.command]}
                    \/ r.type = "set" /\ r.command = "Location"
                    \/ r.type = "action" /\ r.command \in DOMAIN TouchTypes /\ ~setting.static
                    \/ S \in {Colours, {"argsColor", "engine"}, ScreenCells, KeyCells \cup {"engine"},
                              ActionCells, {}}
    BY CommandWrites DEF runs
  <2>3. S \cap ReadCells = {}
    BY <1>4, <2>2 DEF Sets, Acts, ReadCells, Colours, ScreenCells, KeyCells, ActionCells
  <2>4. Writes(writes) \cap ReadCells = {} BY <2>2, <2>3 DEF Only
  <2>5. \A p \in Elements(writes) : p.cell \in Writes(writes) BY DEF Writes, Elements
  <2> QED BY <2>1, <2>4, <2>5
<1> QED BY <1>1, <1>2, <1>3, <1>4

LEMMA ReadBegins ==
  ASSUME RunInv, ReadInv, UNCHANGED <<setting, cells, main>>,
         NEW t \in Threads, NEW r, NEW answer, Begins(t, r, answer), setting.lite => t = "main"
  PROVE  ReadInv'
<1> SUFFICES ASSUME setting.lite PROVE ReadInv' BY DEF ReadInv, ValueInv, ExactInv
<1> DEFINE runs == RunOf(r.command, r.type, r.args, cells, setting)
           seen == Elements(js.todo) \cup DOMAIN js.got
<1>1. /\ runs.valid /\ Rests("main") /\ Remember(r)
      /\ run' = [run EXCEPT !["main"] = Working(r, runs.writes, answer)]
      /\ (main = "config" /\ js' = js) \/ Disturb(Writes(runs.writes))
  BY DEF Begins
<1>2. /\ DOMAIN Asked(r) \cap ReadCells \subseteq Writes(runs.writes)
      /\ \A p \in Elements(runs.writes) : p.cell \in ReadCells =>
           Landing(p) = IF p.cell \in DOMAIN Asked(r) THEN Asked(r)[p.cell] ELSE cells[p.cell]
  BY <1>1, WritesAsked
<1> HIDE DEF runs
<1>3. run'["main"].writes = runs.writes /\ run["main"].writes = <<>>
  BY <1>1 DEF RunInv, Working, Threads
<1>4. \A c \in ReadCells : said'[c] = IF c \in DOMAIN Asked(r) THEN Asked(r)[c] ELSE said[c]
  BY <1>1, Remembered
<1>5. \A c \in ReadCells : cells[c] = said[c] BY <1>3, WritesOf DEF ReadInv, ValueInv
<1>6. ValueInv'
  <2>1. \A c \in ReadCells \ Writes(runs.writes) : cells[c] = said'[c] BY <1>2, <1>4, <1>5
  <2>2. \A p \in Elements(runs.writes) : p.cell \in ReadCells => Landing(p) = said'[p.cell]
    BY <1>2, <1>4, <1>5
  <2>3. \A p : Landing(p)' = Landing(p) BY DEF Landing, SetData, Event, TouchAction
  <2> QED BY <1>3, <2>1, <2>2, <2>3 DEF ValueInv
<1>7. ExactInv'
  <2>1. CASE main = "config" /\ js' = js
    BY <2>1 DEF ReadInv, ExactInv, Exact
  <2>2. CASE Disturb(Writes(runs.writes))
    <3>1. /\ DOMAIN js' = JsFields /\ js'.job = js.job /\ js'.todo = js.todo /\ js'.got = js.got
      BY <2>2, Disturbed DEF ReadInv, ExactInv
    <3>2. Writes([j \in DOMAIN js.todo |-> Put(js.todo[j], 0)]) = Elements(js.todo)
      BY DEF Writes, Put, Elements
    <3>3. js'.clean = (js.clean /\ Writes(runs.writes) \cap seen = {})
      <4>1. js' = [js EXCEPT !.clean = @ /\ Writes(runs.writes)
                     \cap (Writes([j \in DOMAIN js.todo |-> Put(js.todo[j], 0)]) \cup DOMAIN js.got) = {}]
        BY <2>2 DEF Disturb
      <4>2. js' = [js EXCEPT !.clean = @ /\ Writes(runs.writes) \cap seen = {}] BY <3>2, <4>1, Zenon
      <4>3. "clean" \in DOMAIN js BY DEF ReadInv, ExactInv, JsFields
      <4> HIDE DEF seen
      <4> QED BY <4>2, <4>3, Zenon
    <3>4. js'.clean => js.clean /\ Writes(runs.writes) \cap seen = {} BY <3>3, Zenon
    <3>5. ASSUME js.job \in Exact, js'.clean
          PROVE  /\ IsWrites(js.todo) /\ seen \subseteq ReadCells
                 /\ seen \cap Writes(runs.writes) = {}
                 /\ \A c \in DOMAIN js.got : js.got[c] = Cut(c, said'[c])
      <4>1. /\ IsWrites(js.todo) /\ seen \subseteq ReadCells
            /\ \A c \in DOMAIN js.got : js.got[c] = Cut(c, said[c])
        BY <3>4, <3>5 DEF ReadInv, ExactInv
      <4>2. \A c \in DOMAIN js.got : c \in ReadCells /\ c \notin Writes(runs.writes)
        BY <3>4, <3>5, <4>1
      <4>3. \A c \in DOMAIN js.got : said'[c] = said[c] BY <1>2, <1>4, <4>2
      <4> QED BY <3>4, <3>5, <4>1, <4>3
    <3> QED BY <1>3, <3>1, <3>5 DEF ReadInv, ExactInv
  <2> QED BY <1>1, <2>1, <2>2
<1> QED BY <1>6, <1>7 DEF ReadInv

LEMMA ReadWrite ==
  ASSUME RunInv, ReadInv, NEW t \in Threads, Write(t)
  PROVE  ReadInv'
<1> SUFFICES ASSUME setting.lite PROVE ReadInv'
  BY WriteKinds DEF ReadInv, ValueInv, ExactInv
<1> DEFINE writes == run["main"].writes
<1>1. UNCHANGED <<setting, main, js, said>> /\ writes # <<>> /\ Lands("main") /\ t = "main"
  <2>1. t = "main" BY WriteKinds DEF RunInv, Threads
  <2> QED BY <2>1, WriteKinds DEF ghosts, Fails, LosesAbility
<1>2. ExactInv'
  <2>1. Writes(run'["main"].writes) \subseteq Writes(writes) BY LessUnderWay DEF Threads
  <2> QED BY <1>1, <2>1, ExactKept DEF ReadInv
<1>3. PICK w : w = Head(writes) OBVIOUS
<1>4. /\ w.cell \in Cells /\ w.cell \in Writes(writes)
      /\ cells' = [cells EXCEPT ![w.cell] = Landing(w)]
      /\ run'["main"].writes = Tail(writes)
  BY <1>1, <1>3 DEF Lands
<1>5. w \in Elements(writes) /\ Elements(Tail(writes)) \subseteq Elements(writes)
  BY <1>1, <1>3, FirstElement DEF RunInv, Only, Threads
<1>6. ReadCells \subseteq Cells BY DEF ReadCells, Cells, Members, DataItems, InitSharedData
<1>7. /\ w.cell \in ReadCells => cells'[w.cell] = said[w.cell]
      /\ \A c \in ReadCells \ {w.cell} : cells'[c] = cells[c]
  BY <1>4, <1>5, <1>6 DEF ReadInv, ValueInv, RunInv
<1>8. \A p : Writes(p) = {q.cell : q \in Elements(p)} BY DEF Writes, Elements
<1>9. IsWrites(writes) BY DEF RunInv, Only, Threads
<1>10. Elements(writes) \subseteq {w} \cup Elements(Tail(writes))
  BY <1>1, <1>3, <1>9, HeadAndTail
<1>11. ValueInv'
  <2>1. \A c \in ReadCells \ Writes(Tail(writes)) : cells'[c] = said[c]
    <3>1. \A c \in Writes(writes) : c = w.cell \/ c \in Writes(Tail(writes)) BY <1>8, <1>10
    <3> QED BY <1>7, <3>1 DEF ReadInv, ValueInv
  <2>2. ASSUME NEW p \in Elements(Tail(writes)), p.cell \in ReadCells
        PROVE  Landing(p)' = said[p.cell]
    <3>1. Landing(p) = said[p.cell] BY <1>5, <2>2 DEF ReadInv, ValueInv
    <3>2. cells'[p.cell] \in {cells[p.cell], said[p.cell]} BY <1>7, <2>2
    <3> QED BY <1>1, <2>2, <3>1, <3>2, LandingKept
  <2> QED BY <1>1, <1>4, <2>1, <2>2 DEF ValueInv
<1> QED BY <1>2, <1>11 DEF ReadInv
\* The thread reads one more cell.
LEMMA ReadRead ==
  ASSUME RunInv, ReadInv, Read
  PROVE  ExactInv'
<1> SUFFICES ASSUME setting.lite, js.job \in Exact, js.clean, main = "loop"
             PROVE  ExactInv'
  <2>1. UNCHANGED <<setting, main, run, said>> /\ setting.lite /\ main = "loop"
    BY DEF Read, JsRuns, Quiet, Unmoved, ghosts
  <2>2. DOMAIN js = JsFields BY <2>1 DEF ReadInv, ExactInv
  <2>3. DOMAIN js' = JsFields /\ js'.job = js.job /\ js'.clean = js.clean
    BY <2>2 DEF Read, JsFields
  <2> QED BY <2>1, <2>3 DEF ExactInv
<1> DEFINE c == Head(js.todo)
           got == With(js.got, c, Cut(c, cells[c]))
           seen == Elements(js.todo) \cup DOMAIN js.got
<1>1. /\ UNCHANGED <<setting, main, run, said>> /\ js.todo # <<>>
      /\ js' = [js EXCEPT !.todo = Tail(@), !.got = With(@, c, Cut(c, cells[c]))]
  BY DEF Read, Quiet, Unmoved, ghosts
<1>2. /\ DOMAIN js = JsFields /\ IsWrites(js.todo) /\ seen \subseteq ReadCells
      /\ seen \cap Writes(run["main"].writes) = {}
      /\ \A d \in DOMAIN js.got : js.got[d] = Cut(d, said[d])
  BY DEF ReadInv, ExactInv
<1>3. c \in Elements(js.todo) /\ IsWrites(Tail(js.todo))
        /\ Elements(Tail(js.todo)) \subseteq Elements(js.todo)
  BY <1>1, <1>2, FirstElement
<1>4. cells[c] = said[c]
  <2>1. c \in ReadCells \ Writes(run["main"].writes) BY <1>2, <1>3
  <2> QED BY <2>1 DEF ReadInv, ValueInv
<1>5. DOMAIN got = DOMAIN js.got \cup {c}
        /\ \A d \in DOMAIN got : got[d] = IF d = c THEN Cut(c, cells[c]) ELSE js.got[d]
  BY DEF With
<1> HIDE DEF c, got
<1>6. DOMAIN js' = JsFields /\ js'.job = js.job /\ js'.todo = Tail(js.todo) /\ js'.got = got
  BY <1>1, <1>2 DEF JsFields, got
<1>7. \A d \in DOMAIN got : got[d] = Cut(d, said[d]) BY <1>2, <1>4, <1>5
<1>8. Elements(Tail(js.todo)) \cup DOMAIN got \subseteq seen BY <1>3, <1>5
<1> HIDE DEF seen
<1> QED BY <1>1, <1>2, <1>3, <1>6, <1>7, <1>8 DEF ExactInv

\* A job begins, and knows whether a command is setting what it reads.
LEMMA JobIsExact ==
  ASSUME RunInv, setting.lite, NEW job \in Exact, Job(job).clean
  PROVE  /\ IsWrites(Job(job).todo) /\ Elements(Job(job).todo) \subseteq ReadCells
         /\ Elements(Job(job).todo) \cap Writes(run["main"].writes) = {}
<1>1. Job(job).todo = JobCells[job] BY DEF Job
<1>2. /\ JobCells["battery"] = <<"BATTERY_LEVEL", "BATTERY_STATUS">>
      /\ JobCells["location"] = <<"LATITUDE", "LONGITUDE">>
      /\ JobCells["input"] = <<"x", "y", "touchAction">>
  BY DEF JobCells, LocationCells, MouseCells
<1>3. IsWrites(JobCells[job]) BY <1>2, ShortWrites DEF Exact
<1>4. Elements(JobCells[job]) \subseteq ReadCells
  <2>1. CASE job = "battery" BY <1>2, <2>1 DEF Elements, ReadCells
  <2>2. CASE job = "location" BY <1>2, <2>2 DEF Elements, ReadCells
  <2>3. CASE job = "input" BY <1>2, <2>3 DEF Elements, ReadCells
  <2> QED BY <2>1, <2>2, <2>3 DEF Exact
<1>5. ~UnderWay(Elements(JobCells[job])) BY Zenon DEF Job, Elements
<1>6. Writes(run["main"].writes) \cap Elements(JobCells[job]) = {}
  BY <1>5 DEF UnderWay, Threads
<1> QED BY <1>1, <1>3, <1>4, <1>6

LEMMA ReadJs ==
  ASSUME RunInv, ReadInv, JsNext
  PROVE  ReadInv'
<1>1. /\ UNCHANGED <<setting, main, run, said>> /\ setting.lite /\ main = "loop"
      /\ \A c \in ReadCells : cells'[c] = cells[c]
  <2>1. ReadCells \subseteq Cells \ JsCells
    BY DEF ReadCells, Cells, DataItems, InitSharedData, Members, JsCells
  <2> QED BY <2>1, JsSteps DEF ghosts, RunInv
<1>2. ValueInv' BY <1>1, ValueKept DEF ReadInv
<1>3. CASE js' = JsIdle BY <1>1, <1>2, <1>3 DEF ReadInv, ExactInv, JsIdle, JsFields, Exact
<1>4. CASE js' = js BY <1>1, <1>2, <1>4, ExactKept DEF ReadInv
<1>5. ASSUME NEW job, js' = Job(job) PROVE ReadInv'
  <2>1. /\ DOMAIN js' = JsFields /\ js'.job = job /\ js'.todo = Job(job).todo
        /\ DOMAIN js'.got = {} /\ js'.clean = Job(job).clean
    BY <1>5 DEF Job, JsFields, NoCells
  <2>2. ASSUME job \in Exact, Job(job).clean
        PROVE  /\ IsWrites(js'.todo) /\ Elements(js'.todo) \subseteq ReadCells
               /\ Elements(js'.todo) \cap Writes(run["main"].writes) = {}
    BY <1>1, <2>1, <2>2, JobIsExact
  <2>3. ExactInv' BY <1>1, <2>1, <2>2 DEF ExactInv
  <2> QED BY <1>2, <2>3 DEF ReadInv
<1>6. CASE Read BY <1>2, <1>6, ReadRead DEF ReadInv
<1>7. Read \/ js' = JsIdle \/ js' = js \/ \E job : js' = Job(job)
  <2>1. ASSUME NEW job, StartJob(job) PROVE js' = Job(job) BY <2>1 DEF StartJob
  <2>2. ASSUME NEW item, NEW v, AppSets(item, v) PROVE js' = js BY <2>2 DEF AppSets
  <2>3. ASSUME NEW registered, RegistBundle(registered) PROVE js' = js
    BY <2>3 DEF RegistBundle
  <2>4. CASE EndRead \/ EndWheel \/ CheckDevice \/ ExecCallBack \/ SubGeoLocation \/ UnSubGeoLocation
    BY <2>4 DEF EndRead, EndWheel, CheckDevice, ExecCallBack, SubGeoLocation, UnSubGeoLocation
  <2> QED BY <2>1, <2>2, <2>3, <2>4 DEF JsNext
<1> QED BY <1>2, <1>3, <1>4, <1>5, <1>6, <1>7 DEF ReadInv

LEMMA ReadKept ==
  ASSUME ReadInv, UNCHANGED <<setting, said, js>>, main = "loop" => main' = "loop",
         run'["main"].writes = run["main"].writes, \A c \in ReadCells : cells'[c] = cells[c]
  PROVE  ReadInv'
BY ValueKept, ExactKept DEF ReadInv

LEMMA ReadKeeps == RunInv /\ ReadInv /\ [DeviceNext]_device_vars => ReadInv'
<1> SUFFICES ASSUME RunInv, ReadInv, [DeviceNext]_device_vars PROVE ReadInv'
  OBVIOUS
<1>1. CASE MainNext
  <2>1. UNCHANGED <<setting, run, js, said>> /\ main # "loop"
    BY <1>1 DEF MainNext, InitResolution, EndConfig, InitJsApp, CopyColorMode, SetColorMode,
                CreateInstance, AssignAbility, Goes, Rest
  <2>2. ReadCells \subseteq Cells \ MainCells
    BY DEF ReadCells, Cells, Members, DataItems, InitSharedData, MainCells
  <2>3. \A c \in ReadCells : cells'[c] = cells[c] BY <1>1, <2>2, MainWrites
  <2> QED BY <2>1, <2>3, ReadKept
<1>2. CASE Begun
  <2>1. UNCHANGED <<setting, cells, main>> BY <1>2 DEF Begun
  <2>2. CASE Refused
    <3>1. UNCHANGED <<js, said>> BY <2>2 DEF Refused, ghosts
    <3> QED BY <2>1, <2>2, <3>1, RefusedKeeps, ReadKept
  <2>3. CASE \E t \in Threads : \E r, answer :
               Begins(t, r, answer) /\ (setting.lite => t = "main")
    BY <2>1, <2>3, ReadBegins
  <2> QED BY <1>2, <2>2, <2>3, Zenon DEF Begun
<1>3. ASSUME NEW t \in Threads, Write(t) PROVE ReadInv'
  BY <1>3, ReadWrite
<1>4. ASSUME NEW t \in Threads, SendResult(t) PROVE ReadInv'
  <2>1. /\ UNCHANGED <<setting, cells, main, js, said>>
        /\ run' = [run EXCEPT ![t] = Idle] /\ run[t].writes = <<>>
    BY <1>4 DEF SendResult, ghosts
  <2>2. run'["main"].writes = run["main"].writes
    BY <2>1 DEF RunInv, Idle, Threads
  <2> QED BY <2>1, <2>2, ReadKept
<1>5. CASE JsNext BY <1>5, ReadJs
<1>6. CASE UNCHANGED device_vars
  <2>1. UNCHANGED <<setting, run, cells, main, js, said>> BY <1>6 DEF device_vars
  <2> QED BY <2>1, ReadKept
<1> QED BY <1>1, <1>2, <1>3, <1>4, <1>5, <1>6, NextKinds

LEMMA InitReadInv == DeviceInit => ReadInv
<1> SUFFICES ASSUME DeviceInit PROVE ReadInv OBVIOUS
<1>1. said = [c \in ReadCells |-> cells[c]] /\ js = JsIdle /\ run["main"] = Idle
  BY DEF DeviceInit, Threads
<1>2. run["main"].writes = <<>> BY <1>1 DEF Idle
<1>3. Elements(<<>>) = {} BY DEF Elements
<1>4. ValueInv BY <1>1, <1>2, <1>3 DEF ValueInv
<1>5. ExactInv BY <1>1 DEF ExactInv, JsIdle, JsFields, Exact
<1> QED BY <1>4, <1>5 DEF ReadInv

(* Cell after cell, while commands come and go between the reads: as long  *)
(* as none of them sets what the JS thread is reading, it has read exactly *)
(* what the last accepted commands asked for (BatteryModuleImpl,           *)
(* SerializeLocData, lite MouseInputImpl Read).                            *)
THEOREM ReadsAreExact == DeviceSpec => []UndisturbedReadIsExact
<1>1. ReadInv => UndisturbedReadIsExact
  BY DEF ReadInv, ExactInv, UndisturbedReadIsExact, Done, JsRuns, Exact
<1> QED BY <1>1, InitRunInv, InitReadInv, RunKeeps, ReadKeeps, PTL DEF DeviceSpec
==============================================================================
