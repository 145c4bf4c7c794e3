------------------------- MODULE StartParametersProofs -------------------------
(***************************************************************************)
(* For every set of command lines: of an option given several times the    *)
(* last one counts and no option is hidden in another's arguments, and     *)
(* what the application starts with has passed validation.                 *)
(***************************************************************************)
EXTENDS StartParameters, TLAPS

ParserTypeOK ==
  /\ argv \in Seq(STRING) /\ i \in Nat \ {0}
  /\ phase \in {"lengths", "parsing", "checking", "starting", "running", "exit"}

\* After validation the table holds what was asked for besides what was given.
Accepted ==
  phase = "starting" =>
    \E a : IsCommandValid(a) /\ fields = Members(a) /\ argsMap = AfterLookups(a)

ParserInv == ParserTypeOK /\ LastOptionWins
CheckedInv == Accepted /\ StartsOnCheckedValues

\* ArgCount of an option is 0, 1 or 2 (the constructor of CommandParser).
LEMMA ArgCountRange ==
  ASSUME NEW o \in Options PROVE ArgCount[o] \in 0..2
BY DEF ArgCount

\* The inner loop of ProcessingCommand takes some number of texts, none of which
\* begins with '-', and stops before the first that does.
LEMMA TakenProperty ==
  ASSUME NEW p \in Nat \ {0}, NEW n \in 0..2
  PROVE  /\ Taken(p, n) \in 0..n
         /\ \A q \in p .. (p + Taken(p, n) - 1) : ~StopsAt(q)
         /\ Taken(p, n) = n \/ StopsAt(p + Taken(p, n))
<1> DEFINE Fits(t) == /\ \A q \in p .. (p + t - 1) : ~StopsAt(q)
                      /\ t = n \/ StopsAt(p + t)
<1>1. \E t \in 0..n : Fits(t)
  <2>1. CASE n = 0 \/ StopsAt(p)
    <3>1. Fits(0)
      BY <2>1, SMT
    <3> QED BY <3>1, SMT
  <2>2. CASE n # 0 /\ ~StopsAt(p) /\ (n = 1 \/ StopsAt(p + 1))
    <3>1. \A q \in p .. (p + 1 - 1) : q = p
      BY SMT
    <3>2. Fits(1)
      BY <2>2, <3>1, SMT
    <3> QED BY <3>2, <2>2, SMT
  <2>3. CASE n = 2 /\ ~StopsAt(p) /\ ~StopsAt(p + 1)
    <3>1. \A q \in p .. (p + 2 - 1) : q = p \/ q = p + 1
      BY SMT
    <3>2. Fits(2)
      BY <2>3, <3>1, SMT
    <3> QED BY <3>2, <2>3, SMT
  <2> QED BY <2>1, <2>2, <2>3, SMT
<1>2. Taken(p, n) = CHOOSE t \in 0..n : Fits(t)
  BY DEF Taken
<1>3. Taken(p, n) \in 0..n /\ Fits(Taken(p, n))
  BY <1>1, <1>2, Zenon
<1> QED BY <1>3

\* The arguments an option gets are the texts up to the next that begins with
\* '-', and an empty one where they end too early.
LEMMA ArgumentsProperty ==
  ASSUME ParserTypeOK, NEW p \in 1 .. Len(argv), NEW n \in 0..2,
         NEW j \in 1 .. Len(Arguments(p, n))
  PROVE  Arguments(p, n)[j] = IF Reaches(p, j) THEN argv[p + j] ELSE ""
<1> DEFINE t == Taken(p, n)
<1>2. Len(argv) \in Nat
  BY DEF ParserTypeOK
<1>0. p \in Nat \ {0}
  BY <1>2, SMT
<1>1. /\ t \in 0..n
      /\ \A q \in p .. (p + t - 1) : ~StopsAt(q)
      /\ t = n \/ StopsAt(p + t)
  BY TakenProperty, <1>0
<1> HIDE DEF t
<1>7. t \in Nat
  BY <1>1, SMT
<1>3. ASSUME j <= t PROVE Reaches(p, j)
  <2> SUFFICES ASSUME NEW q \in (p + 1) .. (p + j) PROVE q <= Len(argv) /\ argv[q] \notin Dashed
    BY DEF Reaches
  <2>1. q - 1 \in p .. (p + t - 1)
    BY <1>1, <1>3, <1>2, SMT
  <2>2. ~StopsAt(q - 1)
    BY <2>1, <1>1
  <2>3. \A r \in p .. (p + t - 1) : r # Len(argv)
    BY <1>1 DEF StopsAt
  <2>4. q - 1 + 1 = q
    BY <1>2, SMT
  <2>5. argv[q] \notin Dashed
    BY <2>2, <2>4 DEF StopsAt
  <2>6. Len(argv) \notin p .. (p + t - 1)
    BY <2>3
  <2>7. q <= Len(argv)
    BY <2>6, <2>1, <1>1, <1>2, SMT
  <2> QED BY <2>5, <2>7
<1>4. ASSUME t # n, j = t + 1 PROVE ~Reaches(p, j)
  <2>1. StopsAt(p + t)
    BY <1>4, <1>1
  <2>2. p + j \in (p + 1) .. (p + j) /\ p + j = p + t + 1
    BY <1>4, <1>1, <1>2, SMT
  <2>3. CASE p + t = Len(argv)
    <3>1. ~(p + j <= Len(argv))
      BY <2>3, <2>2, <1>0, <1>1, <1>2, SMT
    <3> QED BY <3>1, <2>2 DEF Reaches
  <2>4. CASE argv[p + t + 1] \in Dashed
    BY <2>4, <2>2 DEF Reaches
  <2> QED BY <2>1, <2>3, <2>4 DEF StopsAt
<1>5. CASE t = n
  <2>1. Arguments(p, n) = [k \in 1..n |-> argv[p + k]]
    BY <1>5 DEF Arguments, t
  <2>2. Len(Arguments(p, n)) = n
    BY <2>1, SMT
  <2>3. j \in 1..n
    BY <2>2
  <2>4. j <= t
    BY <2>3, <1>5, SMT
  <2> QED BY <2>1, <2>3, <2>4, <1>3
<1>6. CASE t # n
  <2>1. PICK m \in Nat : m = t + 1
    BY <1>7, SMT
  <2> DEFINE g(k) == IF k <= t THEN argv[p + k] ELSE ""
  <2>2. Arguments(p, n) = [k \in 1..m |-> g(k)]
    BY <1>6, <2>1 DEF Arguments, t
  <2> HIDE DEF g
  <2>3. Len(Arguments(p, n)) = m
    BY <2>2, SMT
  <2>4. j \in 1..m
    BY <2>3
  <2>5. Arguments(p, n)[j] = IF j <= t THEN argv[p + j] ELSE ""
    BY <2>2, <2>4 DEF g
  <2>6. CASE j <= t
    <3>1. Reaches(p, j)
      BY <1>3, <2>6
    <3> QED BY <2>5, <2>6, <3>1
  <2>7. CASE j = t + 1
    <3>1. ~(j <= t)
      BY <2>7, <1>7, SMT
    <3>2. ~Reaches(p, j)
      BY <1>4, <1>6, <2>7
    <3> QED BY <2>5, <3>1, <3>2
  <2>8. j <= t \/ j = t + 1
    BY <2>4, <2>1, <1>7, SMT
  <2> QED BY <2>6, <2>7, <2>8
<1> QED BY <1>5, <1>6

\* Every turn of ProcessingCommand keeps the table to what the line says.
LEMMA ProcessArgumentKeeps ==
  ASSUME ParserInv, ProcessArgument PROVE ParserInv'
<1> USE DEF ParserInv
<1>0. Len(argv) \in Nat /\ i \in Nat \ {0} /\ argv' = argv /\ i \in 1 .. Len(argv)
  <2>1. Len(argv) \in Nat /\ i \in Nat \ {0}
    BY DEF ParserTypeOK
  <2>2. i <= Len(argv) /\ argv' = argv
    BY DEF ProcessArgument
  <2> QED BY <2>1, <2>2, SMT
<1>1. CASE argv[i] \notin Options
  <2>1. i' = i + 1 /\ argsMap' = argsMap /\ phase' = phase
    BY <1>1 DEF ProcessArgument
  <2>2. ParserTypeOK'
    BY <2>1, <1>0, SMT DEF ParserTypeOK
  <2>3. LastOptionWins'
    <3> SUFFICES ASSUME NEW p \in 1 .. Len(argv), LastGiven(p)'
                 PROVE  argv[p] \in DOMAIN argsMap /\ TextsAfter(p)
      BY <1>0, <2>1 DEF LastOptionWins, TextsAfter, Reaches
    <3>0. /\ p < i' /\ argv[p] \in Options
          /\ \A q \in (p + 1) .. (i' - 1) : argv[q] # argv[p]
      BY <1>0 DEF LastGiven
    <3>1. p # i
      BY <1>1, <3>0
    <3>2. p < i
      BY <3>0, <3>1, <2>1, <1>0, SMT
    <3>3. \A q \in (p + 1) .. (i - 1) : q \in (p + 1) .. (i' - 1)
      BY <2>1, <1>0, SMT
    <3>4. LastGiven(p)
      BY <3>0, <3>2, <3>3 DEF LastGiven
    <3> QED BY <3>4 DEF LastOptionWins
  <2> QED BY <2>2, <2>3
<1>2. CASE argv[i] \in Options
  <2> DEFINE o == argv[i]  n == ArgCount[o]  t == Taken(i, n)
  <2>1. n \in 0..2
    BY <1>2, ArgCountRange
  <2>2. /\ t \in 0..n
        /\ \A q \in i .. (i + t - 1) : ~StopsAt(q)
    BY <2>1, <1>0, TakenProperty
  <2>3. /\ argsMap' = [x \in DOMAIN argsMap \cup {o} |->
                         IF x = o THEN Arguments(i, ArgCount[x]) ELSE argsMap[x]]
        /\ i' = i + 1 + t /\ phase' = phase
    BY <1>2 DEF ProcessArgument
  <2>4. argsMap'[o] = Arguments(i, n) /\ o \in DOMAIN argsMap'
    BY <2>3
  <2>5. ASSUME NEW q \in (i + 1) .. (i' - 1) PROVE argv[q] \notin Options
    <3>1. q - 1 \in i .. (i + t - 1) /\ q - 1 + 1 = q
      BY <2>2, <2>3, <2>1, <1>0, SMT
    <3>2. ~StopsAt(q - 1)
      BY <3>1, <2>2
    <3>3. argv[q] \notin Dashed
      BY <3>1, <3>2 DEF StopsAt
    <3> QED BY <3>3, ParserAssumption DEF ParserAssumption
  <2> HIDE DEF o, n, t
  <2>6. ParserTypeOK'
    <3>1. i' \in Nat \ {0}
      BY <2>3, <2>2, <2>1, <1>0, SMT
    <3> QED BY <3>1, <2>3, <1>0 DEF ParserTypeOK
  <2>7. LastOptionWins'
    <3> SUFFICES ASSUME NEW p \in 1 .. Len(argv), LastGiven(p)'
                 PROVE  argv[p] \in DOMAIN argsMap' /\ TextsAfter(p)'
      BY <1>0 DEF LastOptionWins
    <3>0. /\ p < i' /\ argv[p] \in Options
          /\ \A q \in (p + 1) .. (i' - 1) : argv[q] # argv[p]
      BY <1>0 DEF LastGiven
    <3>1. CASE p = i
      <4>1. argv[p] = o
        BY <3>1 DEF o
      <4>2. \A j \in 1 .. Len(Arguments(i, n)) :
              Arguments(i, n)[j] = IF Reaches(i, j) THEN argv[i + j] ELSE ""
        BY <2>1, <1>0, ArgumentsProperty
      <4> QED BY <4>1, <4>2, <3>1, <2>4, <1>0 DEF TextsAfter, Reaches
    <3>2. CASE p # i
      <4>1. p <= i
        <5>1. CASE p > i
          <6>1. p \in (i + 1) .. (i' - 1)
            BY <5>1, <3>0, <2>3, <2>2, <2>1, <1>0, SMT
          <6> QED BY <6>1, <2>5, <3>0
        <5> QED BY <5>1, <1>0, SMT
      <4>2. p < i /\ i \in (p + 1) .. (i' - 1)
        BY <4>1, <3>2, <2>3, <2>2, <2>1, <1>0, SMT
      <4>3. argv[p] # o
        BY <4>2, <3>0 DEF o
      <4>4. \A q \in (p + 1) .. (i - 1) : q \in (p + 1) .. (i' - 1)
        BY <2>3, <2>2, <2>1, <1>0, SMT
      <4>5. LastGiven(p)
        BY <3>0, <4>2, <4>4 DEF LastGiven
      <4>7. argv[p] \in DOMAIN argsMap /\ TextsAfter(p)
        BY <4>5 DEF LastOptionWins
      <4>6. argv[p] \in DOMAIN argsMap' /\ argsMap'[argv[p]] = argsMap[argv[p]]
        BY <4>3, <4>7, <2>3
      <4> QED BY <4>7, <4>6, <1>0 DEF TextsAfter, Reaches
    <3> QED BY <3>1, <3>2
  <2> QED BY <2>6, <2>7
<1> QED BY <1>1, <1>2

\* Looking options up adds options without arguments and changes no other.
LEMMA ValidateKeeps ==
  ASSUME ParserInv, Validate PROVE ParserInv'
<1>1. argv' = argv /\ i' = i
  BY DEF Validate
<1>2. ParserTypeOK'
  BY <1>1 DEF ParserInv, ParserTypeOK, Validate, Return
<1>3. CASE argsMap' = argsMap
  BY <1>1, <1>2, <1>3 DEF ParserInv, LastOptionWins, LastGiven, TextsAfter, Reaches
<1>4. CASE argsMap' = AfterLookups(argsMap)
  <2>1. \A o \in DOMAIN argsMap : o \in DOMAIN argsMap' /\ argsMap'[o] = argsMap[o]
    BY <1>4 DEF AfterLookups
  <2>2. LastOptionWins'
    <3> SUFFICES ASSUME NEW p \in 1 .. Len(argv), LastGiven(p)'
                 PROVE  argv[p] \in DOMAIN argsMap' /\ TextsAfter(p)'
      BY <1>1 DEF LastOptionWins
    <3>1. LastGiven(p)
      BY <1>1 DEF LastGiven
    <3>2. argv[p] \in DOMAIN argsMap /\ TextsAfter(p)
      BY <3>1 DEF ParserInv, LastOptionWins
    <3> QED BY <3>2, <2>1, <1>1 DEF TextsAfter, Reaches
  <2> QED BY <1>2, <2>2 DEF ParserInv
<1> QED BY <1>3, <1>4 DEF Validate

\* Of an option given several times the last one counts, and no option is taken
\* for an argument (ProcessingCommand), for every set of command lines.
THEOREM OptionsAreRead == StartSpec => []LastOptionWins
<1>1. StartInit => ParserInv
  <2> SUFFICES ASSUME StartInit PROVE ParserInv
    OBVIOUS
  <2>1. ParserTypeOK
    <3>1. argv \in Seq(STRING)
      BY ParserAssumption, Zenon DEF StartInit, ParserAssumption
    <3>2. i \in Nat \ {0} /\ phase = "lengths"
      BY DEF StartInit
    <3> QED BY <3>1, <3>2 DEF ParserTypeOK
  <2>2. i = 1
    BY DEF StartInit
  <2>3. Len(argv) \in Nat
    BY <2>1 DEF ParserTypeOK
  <2>4. \A p \in 1 .. Len(argv) : ~(p < i)
    BY <2>2, <2>3, SMT
  <2> QED BY <2>1, <2>4 DEF ParserInv, LastOptionWins, LastGiven
<1>2. ParserInv /\ [StartNext \/ StartDone]_start_vars => ParserInv'
  <2> SUFFICES ASSUME ParserInv, [StartNext \/ StartDone]_start_vars PROVE ParserInv'
    OBVIOUS
  <2>1. ASSUME argv' = argv, i' = i, argsMap' = argsMap,
               phase' \in {phase, "parsing", "checking", "running", "exit"}
        PROVE  ParserInv'
    BY <2>1 DEF ParserInv, ParserTypeOK, LastOptionWins, LastGiven, TextsAfter, Reaches
  <2>2. CASE CheckLengths
    BY <2>1, <2>2 DEF CheckLengths, Return
  <2>3. CASE ProcessArgument
    BY <2>3, ProcessArgumentKeeps
  <2>4. CASE ProcessCommand
    BY <2>1, <2>4 DEF ProcessCommand, Return
  <2>5. CASE Validate
    BY <2>5, ValidateKeeps
  <2>6. CASE InitJsApp
    BY <2>1, <2>6 DEF InitJsApp
  <2>7. CASE StartDone \/ UNCHANGED start_vars
    BY <2>1, <2>7 DEF StartDone, start_vars
  <2> QED BY <2>2, <2>3, <2>4, <2>5, <2>6, <2>7 DEF StartNext
<1>3. ParserInv => LastOptionWins
  BY DEF ParserInv
<1> QED BY <1>1, <1>2, <1>3, PTL DEF StartSpec

\* A pair of numbers that passed IsResolutionArgValid is in range.
LEMMA CheckedResolution ==
  ASSUME NEW a, NEW o, IsResolutionArgValid(a, o) PROVE InRange(Resolution(a, o))
<1>1. /\ IsResolutionInRange(Number[Values(a, o)[1]])
      /\ IsResolutionInRange(Number[Values(a, o)[2]])
  <2>1. IsResolutionRangeValid(Values(a, o)[1]) /\ IsResolutionRangeValid(Values(a, o)[2])
    BY DEF IsResolutionArgValid
  <2> QED BY <2>1 DEF IsResolutionRangeValid
<1>2. /\ Resolution(a, o).w = Number[Values(a, o)[1]]
      /\ Resolution(a, o).h = Number[Values(a, o)[2]]
  BY Zenon DEF Resolution
<1> QED BY <1>1, <1>2 DEF InRange

\* Looking options up changes no value and adds only options without arguments.
LEMMA LookupsKeepValues ==
  ASSUME NEW a, NEW o
  PROVE  /\ Value(AfterLookups(a), o) = Value(a, o)
         /\ o \notin AskedByValidation => (IsSet(AfterLookups(a), o) <=> IsSet(a, o))
<1>1. CASE o \in DOMAIN a
  BY <1>1 DEF AfterLookups, Value, IsSet
<1>2. CASE o \notin DOMAIN a /\ o \in AskedByValidation
  <2>1. o \in DOMAIN AfterLookups(a) /\ AfterLookups(a)[o] = <<>>
    BY <1>2 DEF AfterLookups
  <2> QED BY <1>2, <2>1 DEF Value, IsSet
<1>3. CASE o \notin DOMAIN a /\ o \notin AskedByValidation
  <2>1. o \notin DOMAIN AfterLookups(a)
    BY <1>3 DEF AfterLookups
  <2> QED BY <1>3, <2>1 DEF Value, IsSet
<1> QED BY <1>1, <1>2, <1>3

\* What validation accepts makes checked members (IsCommandValid).
LEMMA AcceptedMembers ==
  ASSUME NEW a, IsCommandValid(a)
  PROVE  /\ InRange(Members(a).orignal) /\ InRange(Members(a).compression)
         /\ Members(a).jsHeapSize \in HeapSizes
         /\ IsSet(a, "-d") /\ Members(a).deviceType \notin Lite => Members(a).abilityPath # ""
         /\ Members(a).isCardDisplay => Members(a).deviceType \in CardDevices
         /\ Members(a).foldable =>
              /\ Members(a).foldStatus \in FoldStates /\ IsSet(a, "-foldStatus")
              /\ InRange(Members(a).foldResolution)
<1>1. /\ Members(a).orignal = Resolution(a, "-or")
      /\ Members(a).compression = Resolution(a, "-cr")
  BY DEF Members
<1>2. Members(a).jsHeapSize = GivenNumber(a, "-hs", MaxHeap)
  BY DEF Members
<1>3. /\ Members(a).deviceType = DeviceType(a)
      /\ Members(a).isCardDisplay = IsCardDisplay(a)
  BY DEF Members
<1>4. Members(a).abilityPath = IF DebugsAbility(a) THEN Value(a, "-abp") ELSE ""
  BY DEF Members
<1>5. /\ Members(a).foldable = Folds(a)
      /\ Members(a).foldStatus = IF Folds(a) THEN Value(a, "-foldStatus") ELSE ""
      /\ Members(a).foldResolution = IF Folds(a) THEN Resolution(a, "-fr") ELSE [w |-> 0, h |-> 0]
  BY DEF Members
<1>6. /\ IsResolutionValid(a) /\ IsJsHeapValid(a) /\ IsAbilityPathValid(a)
      /\ IsFoldStatusValid(a) /\ IsFoldResolutionValid(a)
  BY DEF IsCommandValid
<1>7. InRange(Members(a).orignal) /\ InRange(Members(a).compression)
  BY <1>1, <1>6, CheckedResolution DEF IsResolutionValid
<1>8. Members(a).jsHeapSize \in HeapSizes
  <2>1. CASE IsSet(a, "-hs")
    BY <2>1, <1>2, <1>6 DEF IsJsHeapValid, GivenNumber
  <2>2. CASE ~IsSet(a, "-hs")
    <3>1. Members(a).jsHeapSize = MaxHeap
      BY <2>2, <1>2 DEF GivenNumber
    <3>2. KB \in Nat
      BY SMT DEF KB
    <3>3. MaxHeap \in HeapSizes
      BY <3>2, SMT DEF MaxHeap, HeapSizes
    <3> QED BY <3>1, <3>3
  <2> QED BY <2>1, <2>2
<1>9. IsSet(a, "-d") /\ Members(a).deviceType \notin Lite => Members(a).abilityPath # ""
  BY <1>3, <1>4, <1>6 DEF DebugsAbility, IsAbilityPathValid
<1>10. Members(a).isCardDisplay => Members(a).deviceType \in CardDevices
  BY <1>3 DEF IsCardDisplay
<1>11. Members(a).foldable =>
         /\ Members(a).foldStatus \in FoldStates /\ IsSet(a, "-foldStatus")
         /\ InRange(Members(a).foldResolution)
  <2> SUFFICES ASSUME Folds(a)
               PROVE  /\ Value(a, "-foldStatus") \in FoldStates /\ IsSet(a, "-foldStatus")
                      /\ InRange(Resolution(a, "-fr"))
    BY <1>5
  <2>1. Value(a, "-foldStatus") \in FoldStates /\ IsResolutionArgValid(a, "-fr")
    BY <1>6 DEF IsFoldStatusValid, IsFoldResolutionValid
  <2>2. IsSet(a, "-foldStatus")
    BY <2>1 DEF Value, FoldStates
  <2> QED BY <2>1, <2>2, CheckedResolution
<1> QED BY <1>7, <1>8, <1>9, <1>10, <1>11

\* What InitJsApp hands over are the members, so it was checked.
LEMMA InitJsAppKeeps ==
  ASSUME CheckedInv, InitJsApp PROVE CheckedInv'
<1>1. PICK a : IsCommandValid(a) /\ fields = Members(a) /\ argsMap = AfterLookups(a)
  BY DEF CheckedInv, Accepted, InitJsApp
<1>2. /\ phase' = "running"
      /\ app' = IF previewer = "rich" THEN RichApp ELSE ThinApp
      /\ previewer' = previewer
  BY Zenon DEF InitJsApp
<1>3. CommonApp.isDebug <=> IsSet(a, "-d")
  <2>1. IsSet(argsMap, "-d") <=> IsSet(a, "-d")
    BY <1>1, LookupsKeepValues DEF AskedByValidation
  <2>2. CommonApp.isDebug = IsSet(argsMap, "-d")
    BY Zenon DEF CommonApp
  <2> QED BY <2>1, <2>2
<1>6. CommonApp.debugServerPort \in Ports \cup {0}
  <2>1. CommonApp.debugServerPort = DebugServerPort
    BY DEF CommonApp
  <2>2. GivenNumber(argsMap, "-p", 0) \in Ports \cup {0}
    <3>1. PortGiven(a, "-p")
      BY <1>1 DEF IsCommandValid, IsDebugPortValid
    <3>2. Value(argsMap, "-p") = Value(a, "-p")
      BY <1>1, LookupsKeepValues
    <3>3. CASE IsSet(a, "-p")
      <4>1. Number[Value(argsMap, "-p")] \in Ports
        BY <3>1, <3>2, <3>3, Zenon DEF PortGiven
      <4> QED BY <4>1, Zenon DEF GivenNumber
    <3>4. CASE ~IsSet(a, "-p")
      <4>1. Value(argsMap, "-p") = ""
        BY <3>2, <3>4, Zenon DEF Value
      <4>2. Number[Value(argsMap, "-p")] = 0
        BY <4>1, ParserAssumption, Zenon DEF ParserAssumption
      <4> QED BY <4>2, Zenon DEF GivenNumber
    <3> QED BY <3>3, <3>4
  <2>4. MaxPort \in Nat
    BY SMT DEF MaxPort
  <2>3. \A x \in Ports \cup {0} : ToUint16(x) = x
    BY <2>4, SMT DEF Ports, ToUint16
  <2> QED BY <2>1, <2>2, <2>3 DEF DebugServerPort
<1>4. CASE previewer = "rich"
  <2>1. app' = RichApp
    BY <1>2, <1>4
  <2>2. /\ RichApp.common = CommonApp /\ RichApp.command = GetCommandInfo
        /\ RichApp.fold = InitFoldParams
    BY DEF RichApp
  <2>3. /\ GetCommandInfo.orignal = fields.orignal
        /\ GetCommandInfo.compression = fields.compression
        /\ GetCommandInfo.deviceType = fields.deviceType
        /\ GetCommandInfo.abilityPath = fields.abilityPath
        /\ GetCommandInfo.isCardDisplay = fields.isCardDisplay
    BY DEF GetCommandInfo
  <2>4. /\ InitFoldParams.foldable = fields.foldable
        /\ InitFoldParams.foldResolution = fields.foldResolution
        /\ IsSet(a, "-foldStatus") => InitFoldParams.foldStatus = fields.foldStatus
    <3>1. IsSet(argsMap, "-foldStatus") <=> IsSet(a, "-foldStatus")
      BY <1>1, LookupsKeepValues DEF AskedByValidation
    <3> QED BY <3>1 DEF InitFoldParams
  <2>5. StartsOnCheckedValues'
    <3>1. CheckedRich(RichApp)
      BY <1>1, <1>3, <2>2, <2>3, <2>4, AcceptedMembers, Zenon DEF CheckedRich
    <3>2. RichApp.common.debugServerPort \in Ports \cup {0}
      BY <2>2, <1>6, Zenon
    <3> QED BY <3>1, <3>2, <2>1, <1>2, <1>4, Zenon DEF StartsOnCheckedValues
  <2> QED BY <2>5, <1>2 DEF CheckedInv, Accepted
<1>5. CASE previewer # "rich"
  <2>1. app' = ThinApp
    BY <1>2, <1>5, Zenon
  <2>3. ThinApp.common = CommonApp /\ ThinApp.jsHeapSize = fields.jsHeapSize
    BY Zenon DEF ThinApp
  <2>4. ThinApp.jsHeapSize \in HeapSizes
    BY <1>1, <2>3, AcceptedMembers, Zenon
  <2>2. StartsOnCheckedValues'
    BY <1>2, <1>6, <1>5, <2>1, <2>3, <2>4, Zenon DEF StartsOnCheckedValues
  <2> QED BY <2>2, <1>2 DEF CheckedInv, Accepted
<1> QED BY <1>4, <1>5

\* What the application starts with has passed validation (IsCommandValid and
\* InitJsApp), for every set of command lines and whatever atoi makes of a text.
THEOREM StartIsChecked == StartSpec => []StartsOnCheckedValues
<1>1. StartInit => CheckedInv
  BY DEF StartInit, CheckedInv, Accepted, StartsOnCheckedValues
<1>2. CheckedInv /\ [StartNext \/ StartDone]_start_vars => CheckedInv'
  <2> SUFFICES ASSUME CheckedInv, [StartNext \/ StartDone]_start_vars PROVE CheckedInv'
    OBVIOUS
  <2>1. ASSUME phase' \notin {"starting", "running"} PROVE CheckedInv'
    BY <2>1 DEF CheckedInv, Accepted, StartsOnCheckedValues
  <2>2. CASE CheckLengths \/ ProcessArgument \/ ProcessCommand
    <3>1. CASE CheckLengths
      BY <2>1, <3>1 DEF CheckLengths, Return
    <3>2. CASE ProcessArgument
      <4>1. phase' = "parsing"
        BY <3>2, Zenon DEF ProcessArgument
      <4> QED BY <2>1, <4>1
    <3>3. CASE ProcessCommand
      BY <2>1, <3>3 DEF ProcessCommand, Return
    <3> QED BY <2>2, <3>1, <3>2, <3>3
  <2>3. CASE Validate
    <3>1. CASE IsCommandValid(argsMap)
      <4>1. phase' = "starting" /\ fields' = Members(argsMap)
            /\ argsMap' = AfterLookups(argsMap)
        BY <2>3, <3>1 DEF Validate
      <4>2. Accepted'
        BY <4>1, <3>1 DEF Accepted
      <4> QED BY <4>1, <4>2 DEF CheckedInv, StartsOnCheckedValues
    <3>2. CASE ~IsCommandValid(argsMap)
      BY <2>1, <2>3, <3>2 DEF Validate, Return
    <3> QED BY <3>1, <3>2
  <2>4. CASE InitJsApp
    BY <2>4, InitJsAppKeeps
  <2>5. CASE StartDone \/ UNCHANGED start_vars
    BY <2>5 DEF StartDone, start_vars, CheckedInv, Accepted, StartsOnCheckedValues
  <2> QED BY <2>2, <2>3, <2>4, <2>5 DEF StartNext
<1>3. CheckedInv => StartsOnCheckedValues
  BY DEF CheckedInv
<1> QED BY <1>1, <1>2, <1>3, PTL DEF StartSpec
==============================================================================
