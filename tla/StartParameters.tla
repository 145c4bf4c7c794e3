---------------------------- MODULE StartParameters ----------------------------
(***************************************************************************)
(* The command line of the two previewers: CommandParser reads the         *)
(* arguments into a table of options, validates them one option after the  *)
(* other, and main hands what was accepted to the application.  A text is  *)
(* a string that is never taken apart: the classes of texts the code tells *)
(* apart by regular expressions, by length or in the file system, and the  *)
(* number atoi reads in one, are constants.                                *)
(***************************************************************************)
EXTENDS Integers, Sequences

CONSTANTS
  CommandLines,          \* the argument vectors main may get
  Dashed,                \* texts that begin with '-'
  Numerals, Words, HexTexts, PipeNames, SocketNames,  \* texts the patterns match
  Number,                \* what atoi makes of a text
  TooLong, LongNames,    \* beyond maxMainArgLength, beyond MAX_NAME_LENGTH
  Directories, Files     \* what exists when the previewer starts

Flags == {"-d", "-v", "-h"}
Pairs == {"-or", "-cr", "-fr"}
\* The options the constructor registers, with how many arguments each takes.
Options == Flags \cup Pairs \cup
  {"-j", "-n", "-p", "-s", "-f", "-hs", "-hf", "-shape", "-device", "-url",
   "-refresh", "-card", "-projectID", "-bn", "-pjId", "-ts", "-cm", "-o", "-lws",
   "-av", "-l", "-sd", "-sm", "-cc", "-arp", "-fs", "-pm", "-pages", "-hsp", "-cpm",
   "-abp", "-abn", "-staticCard", "-foldable", "-foldStatus", "-ljPath", "-sid",
   "-ilt", "-srmPath"}
ArgCount == [o \in Options |-> IF o \in Flags THEN 0 ELSE IF o \in Pairs THEN 2 ELSE 1]

ASSUME ParserAssumption ==
  /\ \A line \in CommandLines : line \in Seq(STRING)
  /\ Options \subseteq Dashed
  /\ Number[""] = 0

VARIABLES
  previewer,  \* "rich" or "thin": which main runs
  argv,       \* its arguments
  i,          \* the argument ProcessingCommand looks at
  argsMap,    \* option |-> the arguments it was given
  phase,      \* "lengths", "parsing", "checking", "starting", "running" or "exit"
  code,       \* what ParseArgs returns
  fields,     \* the parser's members
  app         \* what InitJsApp hands to the application

start_vars == <<previewer, argv, i, argsMap, phase, code, fields, app>>

(***************************************************************************)
(* Reading the table                                                       *)
(***************************************************************************)
IsSet(a, o) == o \in DOMAIN a
Value(a, o) == IF IsSet(a, o) /\ a[o] # <<>> THEN a[o][1] ELSE ""
Values(a, o) == IF IsSet(a, o) THEN a[o] ELSE <<>>
\* Value uses operator[], so asking for an option that was not given leaves it
\* in the table without arguments: what validation asks for unconditionally.
AskedByValidation == {"-p", "-lws", "-device", "-url"}
AfterLookups(a) ==
  [o \in DOMAIN a \cup AskedByValidation |-> IF o \in DOMAIN a THEN a[o] ELSE <<>>]

(***************************************************************************)
(* One validator per option                                                *)
(***************************************************************************)
CheckParamInvalidity(text, isNum) == text \notin IF isNum THEN Numerals ELSE Words
IfSet(a, o, allowed) == IsSet(a, o) => Value(a, o) \in allowed
Switch == {"true", "false"}
MaxPort == 65535
Ports == 1024..MaxPort
KB == 1024
MaxHeap == 512 * KB
HeapSizes == (48 * KB)..MaxHeap
Lite == {"liteWearable", "smartVision"}
CardDevices == {"phone", "tablet", "wearable", "car", "tv", "2in1", "default"}
FoldStates == {"fold", "unfold", "unknown", "half_fold"}
DeviceType(a) == Value(a, "-device")

PortGiven(a, o) ==
  IsSet(a, o) => /\ ~CheckParamInvalidity(Value(a, o), TRUE)
                 /\ Number[Value(a, o)] \in Ports
IsDebugPortValid(a) == PortGiven(a, "-p")
IsWebSocketPortValid(a) == PortGiven(a, "-lws")
IsAppPathValid(a) == IsSet(a, "-j") /\ Value(a, "-j") \in Directories
IsAppNameValid(a) == IfSet(a, "-n", Words \ LongNames)
IsResolutionInRange(number) == number \in 1..3840
IsResolutionRangeValid(text) ==
  ~CheckParamInvalidity(text, TRUE) /\ IsResolutionInRange(Number[text])
IsResolutionArgValid(a, o) ==
  /\ Len(Values(a, o)) = ArgCount[o]
  /\ IsResolutionRangeValid(Values(a, o)[1]) /\ IsResolutionRangeValid(Values(a, o)[2])
IsResolutionValid(a) ==
  \A o \in {"-or", "-cr"} : IsSet(a, o) /\ IsResolutionArgValid(a, o)
IsConfigPathValid(a) == IfSet(a, "-f", Files)
IsJsHeapValid(a) ==
  IsSet(a, "-hs") => /\ ~CheckParamInvalidity(Value(a, "-hs"), TRUE)
                     /\ Number[Value(a, "-hs")] \in HeapSizes
IsJsHeapFlagValid(a) == IfSet(a, "-hf", Switch)
IsScreenShapeValid(a) == IfSet(a, "-shape", {"rect", "circle"})
IsDeviceValid(a) == IfSet(a, "-device", Lite \cup CardDevices)
IsUrlValid(a) == Value(a, "-url") # ""
IsRefreshValid(a) == IfSet(a, "-refresh", {"region", "full"})
IsCardValid(a) == IfSet(a, "-card", Switch)
IsProjectIDValid(a) == IfSet(a, "-projectID", Words)
IsColorModeValid(a) == IfSet(a, "-cm", {"dark", "light"})
IsOrientationValid(a) == IfSet(a, "-o", {"portrait", "landscape"})
IsAceVersionValid(a) == IfSet(a, "-av", {"ACE_1_0", "ACE_2_0"})
IsScreenModeValid(a) == IfSet(a, "-sm", {"dynamic", "static"})
IsAppResourcePathValid(a) == IfSet(a, "-arp", Directories)
IsLoaderJsonPathValid(a) == IfSet(a, "-ljPath", Files)
IsProjectModelValid(a) == IfSet(a, "-pm", {"FA", "Stage"})
IsPagesValid(a) == IfSet(a, "-pages", Words)
IsContainerSdkPathValid(a) == IfSet(a, "-hsp", Directories)
IsComponentModeValid(a) == IfSet(a, "-cpm", Switch)
DebugsAbility(a) == IsSet(a, "-d") /\ DeviceType(a) \notin Lite
AbilityPathGiven(a) == DebugsAbility(a) => IsSet(a, "-abp")
IsAbilityPathValid(a) == DebugsAbility(a) => Value(a, "-abp") # ""
IsAbilityNameValid(a) == DebugsAbility(a) /\ IsSet(a, "-abn") => Value(a, "-abn") # ""
IsStaticCardValid(a) == IfSet(a, "-staticCard", Switch)
IsFoldableValid(a) == IfSet(a, "-foldable", Switch)
Folds(a) == Value(a, "-foldable") = "true"
IsFoldStatusValid(a) == Folds(a) => Value(a, "-foldStatus") \in FoldStates
IsFoldResolutionValid(a) == Folds(a) => IsSet(a, "-fr") /\ IsResolutionArgValid(a, "-fr")
IsLanguageValid(a) == IfSet(a, "-l", Words)
IsTracePipeNameValid(a) == IfSet(a, "-ts", PipeNames)
IsLocalSocketNameValid(a) == IfSet(a, "-s", SocketNames)
IsConfigChangesValid(a) == IfSet(a, "-cc", Words)
IsScreenDensityValid(a) == IfSet(a, "-sd", Numerals)
IsSidValid(a) == IfSet(a, "-sid", HexTexts)
EnableFileOperationValid(a) == IfSet(a, "-ilt", Switch)
IsSrmPathValid(a) == IfSet(a, "-srmPath", Files)
IsBundleNameValid(a) == IfSet(a, "-bn", Words)
IsProjIdValid(a) == IfSet(a, "-pjId", HexTexts)

IsCommandValid(a) ==
  /\ IsDebugPortValid(a) /\ IsAppPathValid(a) /\ IsAppNameValid(a) /\ IsResolutionValid(a)
  /\ IsConfigPathValid(a) /\ IsJsHeapValid(a) /\ IsJsHeapFlagValid(a)
  /\ IsScreenShapeValid(a) /\ IsDeviceValid(a) /\ IsUrlValid(a) /\ IsRefreshValid(a)
  /\ IsCardValid(a) /\ IsProjectIDValid(a) /\ IsColorModeValid(a) /\ IsOrientationValid(a)
  /\ IsWebSocketPortValid(a) /\ IsAceVersionValid(a) /\ IsScreenModeValid(a)
  /\ IsAppResourcePathValid(a) /\ IsLoaderJsonPathValid(a) /\ IsProjectModelValid(a)
  /\ IsPagesValid(a) /\ IsContainerSdkPathValid(a) /\ IsComponentModeValid(a)
  /\ IsAbilityPathValid(a) /\ IsStaticCardValid(a) /\ IsFoldableValid(a)
  /\ IsFoldStatusValid(a) /\ IsFoldResolutionValid(a) /\ IsAbilityNameValid(a)
  /\ IsLanguageValid(a) /\ IsTracePipeNameValid(a) /\ IsLocalSocketNameValid(a)
  /\ IsConfigChangesValid(a) /\ IsScreenDensityValid(a) /\ IsSidValid(a)
  /\ EnableFileOperationValid(a) /\ IsSrmPathValid(a) /\ IsBundleNameValid(a)
  /\ IsProjIdValid(a)

(***************************************************************************)
(* The members after validation: what was given, or what the constructor   *)
(* set.  The instance is static, so members the constructor does not name  *)
(* (foldable, the fold resolution) start as FALSE and 0.                   *)
(***************************************************************************)
Given(a, o, default) == IF IsSet(a, o) THEN Value(a, o) ELSE default
GivenNumber(a, o, default) == IF IsSet(a, o) THEN Number[Value(a, o)] ELSE default
Resolution(a, o) == [w |-> Number[Values(a, o)[1]], h |-> Number[Values(a, o)[2]]]
IsCardDisplay(a) == DeviceType(a) \in CardDevices /\ Value(a, "-card") = "true"
Members(a) ==
  [appName |-> Given(a, "-n", "undefined"), jsHeapSize |-> GivenNumber(a, "-hs", MaxHeap),
   isSendJSHeap |-> Given(a, "-hf", "true") = "true",
   orignal |-> Resolution(a, "-or"), compression |-> Resolution(a, "-cr"),
   screenShape |-> Given(a, "-shape", "circle"), deviceType |-> DeviceType(a),
   configPath |-> Given(a, "-f", ""), isRegionRefresh |-> Value(a, "-refresh") = "region",
   isCardDisplay |-> IsCardDisplay(a), projectID |-> Given(a, "-projectID", ""),
   bundleName |-> Given(a, "-bn", ""), projId |-> Given(a, "-pjId", ""),
   screenMode |-> Given(a, "-sm", "dynamic"), sid |-> Given(a, "-sid", ""),
   projectModel |-> Given(a, "-pm", "FA"), pages |-> Given(a, "-pages", "main_pages"),
   appResourcePath |-> Given(a, "-arp", ""), containerSdkPath |-> Given(a, "-hsp", ""),
   loaderJsonPath |-> Given(a, "-ljPath", ""), srmPath |-> Given(a, "-srmPath", ""),
   isComponentMode |-> Value(a, "-cpm") = "true", staticCard |-> Value(a, "-staticCard") = "true",
   enableFileOperation |-> Value(a, "-ilt") = "true",
   abilityPath |-> IF DebugsAbility(a) THEN Value(a, "-abp") ELSE "",
   abilityName |-> IF DebugsAbility(a) THEN Value(a, "-abn") ELSE "",
   foldable |-> Folds(a), foldStatus |-> IF Folds(a) THEN Value(a, "-foldStatus") ELSE "",
   foldResolution |-> IF Folds(a) THEN Resolution(a, "-fr") ELSE [w |-> 0, h |-> 0]]

(***************************************************************************)
(* main                                                                    *)
(***************************************************************************)
Nothing == [none |-> TRUE]
StartInit ==
  /\ previewer \in {"rich", "thin"} /\ argv \in CommandLines
  /\ i = 1 /\ argsMap = [o \in {} |-> <<>>]
  /\ phase = "lengths" /\ code = -1
  /\ fields = Nothing /\ app = Nothing

Return(value) == phase' = "exit" /\ code' = value

\* ParseArgs, the loop over argv: one text too long and nothing is parsed.
CheckLengths ==
  /\ phase = "lengths"
  /\ IF \E p \in 1..Len(argv) : argv[p] \in TooLong
       THEN Return(11)
       ELSE phase' = "parsing" /\ UNCHANGED code
  /\ UNCHANGED <<previewer, argv, i, argsMap, fields, app>>

\* The inner loop of ProcessingCommand after the option at p: it stops, with an
\* empty text, at the end of the line or before a text that begins with '-'.
StopsAtEnd(p) == p = Len(argv)
StopsAt(p) == p = Len(argv) \/ argv[p + 1] \in Dashed
Taken(p, n) ==
  CHOOSE t \in 0..n : /\ \A q \in p .. (p + t - 1) : ~StopsAt(q)
                      /\ t = n \/ StopsAt(p + t)
Arguments(p, n) ==
  IF Taken(p, n) = n THEN [j \in 1..n |-> argv[p + j]]
  ELSE [j \in 1 .. (Taken(p, n) + 1) |-> IF j <= Taken(p, n) THEN argv[p + j] ELSE ""]

\* One turn of the outer loop of ProcessingCommand.
ProcessOptionsOnly ==
  /\ phase = "parsing" /\ i <= Len(argv)
  /\ IF argv[i] \in Options
       THEN /\ argsMap' = [o \in DOMAIN argsMap \cup {argv[i]} |->
                             IF o = argv[i] THEN Arguments(i, ArgCount[o]) ELSE argsMap[o]]
            /\ i' = i + 1 + Taken(i, ArgCount[argv[i]])
       ELSE UNCHANGED <<i, argsMap>>
  /\ UNCHANGED <<previewer, argv, phase, code, fields, app>>
ProcessArgument ==
  /\ phase = "parsing" /\ i <= Len(argv)
  /\ IF argv[i] \in Options
       THEN /\ argsMap' = [o \in DOMAIN argsMap \cup {argv[i]} |->
                             IF o = argv[i] THEN Arguments(i, ArgCount[o]) ELSE argsMap[o]]
            /\ i' = i + 1 + Taken(i, ArgCount[argv[i]])
       ELSE i' = i + 1 /\ UNCHANGED argsMap
  /\ UNCHANGED <<previewer, argv, phase, code, fields, app>>

\* The end of ProcessCommand: version and help need no valid parameters.
ProcessCommand ==
  /\ phase = "parsing" /\ i > Len(argv)
  /\ IF IsSet(argsMap, "-v") \/ IsSet(argsMap, "-h")
       THEN Return(0)
       ELSE phase' = "checking" /\ UNCHANGED code
  /\ UNCHANGED <<previewer, argv, i, argsMap, fields, app>>

\* The end of ParseArgs.
Validate ==
  /\ phase = "checking"
  /\ IF IsCommandValid(argsMap)
       THEN /\ phase' = "starting" /\ UNCHANGED code
            /\ fields' = Members(argsMap)
            /\ argsMap' = AfterLookups(argsMap)
       ELSE Return(11) /\ UNCHANGED <<fields, argsMap>>
  /\ UNCHANGED <<previewer, argv, i, app>>

\* What both applications take; "-p" only counts together with "-d", and is
\* found there even if it was not given (AfterLookups): atoi then makes 0 of "".
ToUint16(number) == IF number \in 0..MaxPort THEN number ELSE number % (MaxPort + 1)
DebugServerPort ==
  IF IsSet(argsMap, "-d") THEN ToUint16(GivenNumber(argsMap, "-p", 0)) ELSE 0
CommonApp ==
  [pipeName |-> Given(argsMap, "-s", ""), pipePort |-> Given(argsMap, "-lws", ""),
   jsAppPath |-> Value(argsMap, "-j"), urlPath |-> Given(argsMap, "-url", ""),
   isDebug |-> IsSet(argsMap, "-d"),
   debugServerPort |-> DebugServerPort]

GetCommandInfo ==
  [k \in {"deviceType", "pages", "appResourcePath", "isCardDisplay", "containerSdkPath",
          "isComponentMode", "loaderJsonPath", "abilityPath", "abilityName", "configPath",
          "screenShape", "orignal", "compression", "enableFileOperation", "srmPath"} |-> fields[k]]
\* InitFoldParams: each part if its option is there, checked or not.
InitFoldParams ==
  [foldable |-> fields.foldable,
   foldStatus |-> IF IsSet(argsMap, "-foldStatus") THEN fields.foldStatus ELSE "unfold",
   foldResolution |-> fields.foldResolution]
RichApp ==
  [common |-> CommonApp, command |-> GetCommandInfo, fold |-> InitFoldParams,
   colorMode |-> Given(argsMap, "-cm", ""), aceVersion |-> Given(argsMap, "-av", ""),
   screenDensity |-> Given(argsMap, "-sd", ""), configChanges |-> Given(argsMap, "-cc", ""),
   orientation |-> IF fields.compression.w <= fields.compression.h
                     THEN "portrait" ELSE "landscape",
   language |-> Given(argsMap, "-l", "zh_CN")]
ThinApp ==
  [common |-> CommonApp, bundleName |-> fields.appName, jsHeapSize |-> fields.jsHeapSize,
   sendsHeap |-> fields.isSendJSHeap, language |-> "zh-CN"]

InitJsApp ==
  /\ phase = "starting" /\ phase' = "running"
  /\ app' = IF previewer = "rich" THEN RichApp ELSE ThinApp
  /\ UNCHANGED <<previewer, argv, i, argsMap, code, fields>>

StartNext == CheckLengths \/ ProcessArgument \/ ProcessCommand \/ Validate \/ InitJsApp
StartDone == phase \in {"running", "exit"} /\ UNCHANGED start_vars
StartSpec == StartInit /\ [][StartNext \/ StartDone]_start_vars /\ WF_start_vars(StartNext)

(***************************************************************************)
(* Properties                                                              *)
(***************************************************************************)
Reaches(p, j) == \A q \in (p + 1) .. (p + j) : q <= Len(argv) /\ argv[q] \notin Dashed

\* The last time among the arguments read that an option was given.
LastGiven(p) ==
  p < i /\ argv[p] \in Options /\ \A q \in (p + 1) .. (i - 1) : argv[q] # argv[p]
TextsAfter(p) ==
  \A j \in 1 .. Len(argsMap[argv[p]]) :
    argsMap[argv[p]][j] = IF Reaches(p, j) THEN argv[p + j] ELSE ""
\* Of an option given several times the last one counts, and its arguments are
\* the texts that follow it up to the next that begins with '-': an option is
\* never hidden in the arguments of the one before (ProcessingCommand).
LastOptionWins ==
  \A p \in 1 .. Len(argv) :
    LastGiven(p) => argv[p] \in DOMAIN argsMap /\ TextsAfter(p)

InRange(size) == IsResolutionInRange(size.w) /\ IsResolutionInRange(size.h)

CheckedRich(started) ==
  /\ InRange(started.command.orignal) /\ InRange(started.command.compression)
  /\ started.common.isDebug /\ started.command.deviceType \notin Lite
       => started.command.abilityPath # ""
  /\ started.command.isCardDisplay => started.command.deviceType \in CardDevices
  /\ started.fold.foldable =>
       started.fold.foldStatus \in FoldStates /\ InRange(started.fold.foldResolution)
\* What the application is started with has passed validation, whatever the
\* order of the options: its sizes, ports and heap are in range, a debug run of
\* a rich device has an ability to start, only a device that shows cards shows
\* one, and a foldable has a state and a size (IsCommandValid, InitJsApp).
StartsOnCheckedValues ==
  phase = "running" =>
    /\ app.common.debugServerPort \in Ports \cup {0}
    /\ previewer = "thin" => app.jsHeapSize \in HeapSizes
    /\ previewer = "rich" => CheckedRich(app)

\* Whatever the command line, the previewer ends or runs: the inner loop of
\* ProcessingCommand always leaves the outer one further on.
Decides == <>(phase \in {"running", "exit"})
==============================================================================
