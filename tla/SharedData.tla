----------------------------- MODULE SharedData -----------------------------
(***************************************************************************)
(* The device data of the lite previewer (SharedData<T>, for one T, and    *)
(* SharedDataManager): brightness, battery and the like.  The main thread  *)
(* constructs the entries, starts the JS thread and registers what it      *)
(* wants to be notified of; from then on both threads set data and, from a *)
(* timer of their own, check for changes.  The table is guarded by a       *)
(* mutex, but callbacks run after it was released, with the value seen     *)
(* under it.                                                               *)
(***************************************************************************)
EXTENDS Naturals, FiniteSets

CONSTANTS
  Threads,     \* threads that check and set data
  Main,        \* the one that constructs the entries
  Types,       \* SharedDataType, in the order of dataMap
  Values,      \* values of T
  Default,     \* per type: value, minValue, maxValue; min = max: no range
  Period,      \* per type: the period each subscribed thread asks for
  TickModulus, \* 2^32 in the code
  MaxSets      \* bound: accepted SetData calls per type

ASSUME DataAssumption ==
  /\ Main \in Threads
  /\ Types \subseteq Nat /\ Values \subseteq Nat
  /\ Default \in [Types -> [value : Values, min : Values, max : Values]]
  /\ \A d \in Types : Default[d].min # Default[d].max =>
                        Default[d].value \in Default[d].min..Default[d].max
  /\ \A d \in Types : /\ DOMAIN Period[d] \subseteq Threads
                      /\ \A th \in DOMAIN Period[d] : Period[d][th] \in Nat \ {0}
  /\ TickModulus \in Nat \ {0} /\ MaxSets \in Nat

VARIABLES
  dataMap,    \* SharedData<T>::dataMap
  jsStarted,  \* the JS thread runs
  pairs,      \* per thread: the callbacks CheckAll still has to run
  version,    \* history: accepted SetData calls per type
  delivered   \* history: per thread and type, the version of the last callback

vars == <<dataMap, jsStarted, pairs, version, delivered>>

Known == DOMAIN dataMap
InRange(e, v) == e.min # e.max => v \in e.min..e.max
NoCallbacks == [th \in {} |-> 0]
Entry(d) == [value |-> Default[d].value, min |-> Default[d].min,
             max |-> Default[d].max, isChanged |-> FALSE,
             callBacks |-> NoCallbacks, ticks |-> [th \in Threads |-> 0]]

Init ==
  /\ dataMap = [d \in {} |-> 0]
  /\ jsStarted = FALSE
  /\ pairs = [th \in Threads |-> {}]
  /\ version = [d \in Types |-> 0]
  /\ delivered = [th \in Threads |-> [d \in Types |-> 0]]

Running == IF jsStarted THEN Threads ELSE {Main}

\* InitSharedData, one entry after the other.
Construct(d) ==
  /\ ~jsStarted
  /\ d \notin Known
  /\ \A c \in Types : c < d => c \in Known
  /\ dataMap' = [c \in Known \cup {d} |-> IF c = d THEN Entry(d) ELSE dataMap[c]]
  /\ UNCHANGED <<jsStarted, pairs, version, delivered>>

InitJsApp ==
  /\ ~jsStarted
  /\ Known = Types
  /\ jsStarted' = TRUE
  /\ UNCHANGED <<dataMap, pairs, version, delivered>>

\* Mutant of AppendNotify: registering resets the change.
AppendNotifyReset(th, d) ==
  /\ jsStarted
  /\ th \in DOMAIN Period[d] \ DOMAIN dataMap[d].callBacks
  /\ dataMap' = [dataMap EXCEPT ![d].isChanged = FALSE, ![d].callBacks =
                   [u \in {th} \cup DOMAIN @ |-> Period[d][u]]]
  /\ UNCHANGED <<jsStarted, pairs, version, delivered>>

AppendNotify(th, d) ==
  /\ jsStarted
  /\ th \in DOMAIN Period[d] \ DOMAIN dataMap[d].callBacks
  /\ dataMap' = [dataMap EXCEPT ![d].callBacks =
                   [u \in {th} \cup DOMAIN @ |-> Period[d][u]]]
  /\ UNCHANGED <<jsStarted, pairs, version, delivered>>

\* Mutant of SetData: the range is not checked.
SetDataAny(th, d, v) ==
  /\ th \in Running /\ d \in Known
  /\ version[d] < MaxSets
  /\ dataMap' = [dataMap EXCEPT ![d].value = v, ![d].isChanged = TRUE]
  /\ version' = [version EXCEPT ![d] = @ + 1]
  /\ UNCHANGED <<jsStarted, pairs, delivered>>

\* SetData, from a command, from the application or from a callback.  A
\* value out of range, or of a type that is not known, changes nothing.
SetData(th, d, v) ==
  /\ th \in Running /\ d \in Known
  /\ InRange(dataMap[d], v)
  /\ version[d] < MaxSets
  /\ dataMap' = [dataMap EXCEPT ![d].value = v, ![d].isChanged = TRUE]
  /\ version' = [version EXCEPT ![d] = @ + 1]
  /\ UNCHANGED <<jsStarted, pairs, delivered>>

\* Check: an entry seen by thread th in its next tick, and whether it notifies.
Ticked(e, th) == (e.ticks[th] + 1) % TickModulus
Notifies(e, th) ==
  /\ e.isChanged
  /\ th \in DOMAIN e.callBacks
  /\ Ticked(e, th) % e.callBacks[th] = 0

\* Mutant of Check: the change is taken in every tick, not only in a period's.
CheckEveryTick(e, th) ==
  [e EXCEPT !.ticks[th] = Ticked(e, th),
            !.isChanged = @ /\ th \notin DOMAIN e.callBacks]

\* Mutant of Check: the change stays marked after it was told.
CheckNotReset(e, th) == [e EXCEPT !.ticks[th] = Ticked(e, th)]

Check(e, th) ==
  [e EXCEPT !.ticks[th] = Ticked(e, th),
            !.isChanged = @ /\ ~Notifies(e, th)]

\* CheckAll under the mutex; the callbacks follow in the order of the types.
CheckAll(th) ==
  /\ jsStarted
  /\ pairs[th] = {}
  /\ dataMap' = [d \in Known |-> Check(dataMap[d], th)]
  /\ pairs' = [pairs EXCEPT ![th] =
                 {[type |-> d, value |-> dataMap[d].value, version |-> version[d]] :
                    d \in {c \in Known : Notifies(dataMap[c], th)}}]
  /\ UNCHANGED <<jsStarted, version, delivered>>

RunCallback(th) ==
  \E p \in pairs[th] :
    /\ \A q \in pairs[th] : p.type <= q.type
    /\ pairs' = [pairs EXCEPT ![th] = @ \ {p}]
    /\ delivered' = [delivered EXCEPT ![th][p.type] = p.version]
    /\ UNCHANGED <<dataMap, jsStarted, version>>

Next ==
  \/ \E d \in Types : Construct(d)
  \/ InitJsApp
  \/ \E th \in Threads :
       \/ \E d \in Types : AppendNotify(th, d) \/ \E v \in Values : SetData(th, d, v)
       \/ CheckAll(th)
       \/ RunCallback(th)

Spec == Init /\ [][Next]_vars

(* The main thread gets through its start, and each thread's timer goes on *)
(* firing.                                                                 *)
FairSpec ==
  /\ Spec
  /\ \A d \in Types : WF_vars(Construct(d))
  /\ WF_vars(InitJsApp)
  /\ \A th \in Threads :
       /\ \A d \in Types : WF_vars(AppendNotify(th, d))
       /\ WF_vars(CheckAll(th))
       /\ WF_vars(RunCallback(th))

----------------------------------------------------------------------------
(* Type invariant; values are in the range they were constructed with. *)
TypeOK ==
  /\ Known \subseteq Types
  /\ \A d \in Known :
       /\ dataMap[d].value \in Values /\ InRange(dataMap[d], dataMap[d].value)
       /\ dataMap[d].isChanged \in BOOLEAN
       /\ DOMAIN dataMap[d].callBacks \subseteq Threads
       /\ dataMap[d].ticks \in [Threads -> 0..(TickModulus - 1)]
  /\ jsStarted \in BOOLEAN
  /\ pairs \in [Threads -> SUBSET [type : Types, value : Values, version : 0..MaxSets]]
  /\ version \in [Types -> 0..MaxSets]
  /\ delivered \in [Threads -> [Types -> 0..MaxSets]]

Subscribed(th, d) == d \in Known /\ DOMAIN dataMap[d].callBacks = {th}

(* A change is never lost for a thread that is the only one subscribed to  *)
(* the data: if none is marked or on its way to the callback, the callback *)
(* got the last one, be it set before the registration, during the check   *)
(* or while the callbacks run without the mutex.                           *)
NoChangeLost ==
  \A th \in Threads, d \in Types :
    (/\ Subscribed(th, d) /\ ~dataMap[d].isChanged
     /\ \A p \in pairs[th] : p.type # d)
      => delivered[th][d] = version[d]

(* No change is told twice, and none after a newer one: what a callback    *)
(* gets is newer than all it got before, although the value was read before*)
(* the mutex was released and other threads go on setting.                 *)
ChangesToldOnce ==
  [][\A th \in Threads : \A p \in pairs[th] \ pairs'[th] :
       p.version > delivered[th][p.type]]_vars

(* A change is told in the end to the only thread subscribed to it,        *)
(* whatever its period, even though several changes may be told as one.    *)
ChangeIsTold ==
  \A th \in Threads, d \in Types :
    (Subscribed(th, d) /\ dataMap[d].isChanged)
      ~> (~Subscribed(th, d) \/ delivered[th][d] = version[d])

=============================================================================
