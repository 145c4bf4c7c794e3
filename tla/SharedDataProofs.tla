-------------------------- MODULE SharedDataProofs --------------------------
(***************************************************************************)
(* For any set of threads, types and values, any ranges and periods: data  *)
(* keep their types and ranges, and a change is neither lost for an only   *)
(* subscriber nor told twice.                                              *)
(***************************************************************************)
EXTENDS SharedData, TLAPS

CallBacks == UNION {[S -> Nat \ {0}] : S \in SUBSET Threads}
EntryType == [value : Values, min : Values, max : Values, isChanged : BOOLEAN,
              callBacks : CallBacks, ticks : [Threads -> 0..(TickModulus - 1)]]
Pair == [type : Types, value : Values, version : 0..MaxSets]

TypeInv ==
  /\ TypeOK
  /\ dataMap \in [Known -> EntryType]
  /\ \A d \in Known : DOMAIN dataMap[d].callBacks \subseteq DOMAIN Period[d]
  /\ jsStarted => Known = Types

(* What a thread was told is older than what it is about to be told, and   *)
(* that is older than a change still marked.                               *)
OrderInv ==
  /\ \A th \in Threads, d \in Types : delivered[th][d] <= version[d]
  /\ \A th \in Threads : \A p \in pairs[th] :
       delivered[th][p.type] < p.version /\ p.version <= version[p.type]
  /\ \A d \in Known : dataMap[d].isChanged =>
       \A th \in Threads :
         /\ delivered[th][d] < version[d]
         /\ \A p \in pairs[th] : p.type = d => p.version < version[d]
  /\ \A th \in Threads : \A p, q \in pairs[th] : p.type = q.type => p = q

(* Nothing was told of data nobody subscribed to, and nothing was set if it *)
(* is not marked.                                                          *)
Untold(d) == d \in Known => DOMAIN dataMap[d].callBacks = {}
UntoldInv ==
  \A d \in Types : Untold(d) =>
    /\ \A th \in Threads : delivered[th][d] = 0 /\ \A p \in pairs[th] : p.type # d
    /\ (d \in Known => ~dataMap[d].isChanged) => version[d] = 0

(* What an only subscriber is about to be told of unmarked data is the last*)
(* change.                                                                 *)
LastInv ==
  \A th \in Threads, d \in Types :
    (Subscribed(th, d) /\ ~dataMap[d].isChanged) =>
      \A p \in pairs[th] : p.type = d => p.version = version[d]

IInv == TypeInv /\ OrderInv /\ UntoldInv /\ LastInv /\ NoChangeLost

----------------------------------------------------------------------------
LEMMA CallBacksOf ==
  ASSUME NEW f \in CallBacks
  PROVE  /\ DOMAIN f \subseteq Threads
         /\ f \in [DOMAIN f -> Nat \ {0}]
BY DEF CallBacks

LEMMA CallBacksAre ==
  ASSUME NEW S \in SUBSET Threads, NEW f \in [S -> Nat \ {0}]
  PROVE  f \in CallBacks
BY DEF CallBacks

LEMMA EntryFacts ==
  ASSUME NEW d \in Types
  PROVE  /\ Entry(d) \in EntryType
         /\ InRange(Entry(d), Entry(d).value)
         /\ DOMAIN Entry(d).callBacks = {}
         /\ Entry(d).isChanged = FALSE
<1> DEFINE none == [th \in {} |-> 0]
<1>1. none \in CallBacks
  <2>1. none \in [{} -> Nat \ {0}] /\ {} \in SUBSET Threads
    OBVIOUS
  <2> QED
    BY <2>1, CallBacksAre
<1>3. DOMAIN none = {}
  OBVIOUS
<1>2. [th \in Threads |-> 0] \in [Threads -> 0..(TickModulus - 1)]
  BY DataAssumption
<1> HIDE DEF none
<1>4. Entry(d) = [value |-> Default[d].value, min |-> Default[d].min,
                  max |-> Default[d].max, isChanged |-> FALSE, callBacks |-> none,
                  ticks |-> [th \in Threads |-> 0]]
  BY DEF Entry, NoCallbacks, none
<1> QED
  BY <1>1, <1>2, <1>3, <1>4, DataAssumption DEF EntryType, InRange

LEMMA CheckFacts ==
  ASSUME NEW e \in EntryType, NEW th \in Threads
  PROVE  /\ Check(e, th) \in EntryType
         /\ Check(e, th).value = e.value
         /\ Check(e, th).min = e.min
         /\ Check(e, th).max = e.max
         /\ Check(e, th).callBacks = e.callBacks
         /\ Check(e, th).isChanged = (e.isChanged /\ ~Notifies(e, th))
<1>1. Ticked(e, th) \in 0..(TickModulus - 1)
  BY DataAssumption DEF Ticked, EntryType
<1>2. PICK at \in 0..(TickModulus - 1) : at = Ticked(e, th)
  BY <1>1
<1>3. PICK left \in BOOLEAN : left = (e.isChanged /\ ~Notifies(e, th))
  OBVIOUS
<1>4. PICK tk \in [Threads -> 0..(TickModulus - 1)] : tk = [e.ticks EXCEPT ![th] = at]
  BY DEF EntryType
<1>5. Check(e, th) = [e EXCEPT !.ticks = tk, !.isChanged = left]
  BY <1>2, <1>3, <1>4, Zenon DEF Check
<1> QED
  BY <1>3, <1>4, <1>5 DEF EntryType

----------------------------------------------------------------------------
LEMMA InitIInv == Init => IInv
<1> SUFFICES ASSUME Init PROVE IInv
  OBVIOUS
<1>1. Known = {} /\ dataMap \in [Known -> EntryType]
  BY DEF Init, Known
<1>2. /\ pairs \in [Threads -> SUBSET Pair]
      /\ version \in [Types -> 0..MaxSets]
      /\ delivered \in [Threads -> [Types -> 0..MaxSets]]
  <2> DEFINE zero == [d \in Types |-> 0]
  <2>1. zero \in [Types -> 0..MaxSets]
    BY DataAssumption
  <2> HIDE DEF zero
  <2>2. [th \in Threads |-> zero] \in [Threads -> [Types -> 0..MaxSets]]
    BY <2>1
  <2>3. [th \in Threads |-> {}] \in [Threads -> SUBSET Pair]
    OBVIOUS
  <2> QED
    BY <2>1, <2>2, <2>3 DEF Init, zero
<1>3. TypeInv
  BY <1>1, <1>2 DEF TypeInv, TypeOK, Init, Pair
<1>4. /\ Known = {}
      /\ \A th \in Threads : pairs[th] = {}
      /\ \A th \in Threads, d \in Types : delivered[th][d] = 0
      /\ \A d \in Types : version[d] = 0
  BY <1>1 DEF Init
<1>5. OrderInv
  BY <1>4 DEF OrderInv
<1>6. UntoldInv
  BY <1>4 DEF UntoldInv, Untold
<1>7. LastInv /\ NoChangeLost
  BY <1>4 DEF LastInv, NoChangeLost, Subscribed
<1> QED
  BY <1>3, <1>5, <1>6, <1>7 DEF IInv

(* Before the JS thread starts the entries are constructed, one by one.    *)
LEMMA ConstructKeeps ==
  ASSUME IInv, NEW d \in Types, Construct(d)
  PROVE  IInv'
<1> USE DEF Known
<1>1. /\ d \notin Known /\ Known' = Known \cup {d} /\ Known' \subseteq Types
      /\ UNCHANGED <<jsStarted, pairs, version, delivered>>
  BY DEF Construct, IInv, TypeInv, TypeOK
<1>2. /\ dataMap'[d] = Entry(d)
      /\ \A c \in Known : dataMap'[c] = dataMap[c]
  BY <1>1 DEF Construct
<1>3. TypeInv'
  <2>1. dataMap' \in [Known' -> EntryType]
    BY <1>1, <1>2, EntryFacts DEF IInv, TypeInv, Construct
  <2>4. \A c \in Known' : DOMAIN dataMap'[c].callBacks \subseteq DOMAIN Period[c]
    BY <1>1, <1>2, EntryFacts DEF IInv, TypeInv
  <2>2. \A c \in Known' : InRange(dataMap'[c], dataMap'[c].value)
    BY <1>1, <1>2, EntryFacts DEF IInv, TypeInv, TypeOK
  <2>3. \A c \in Known' : /\ dataMap'[c].value \in Values
                         /\ dataMap'[c].isChanged \in BOOLEAN
                         /\ dataMap'[c].ticks \in [Threads -> 0..(TickModulus - 1)]
                         /\ DOMAIN dataMap'[c].callBacks \subseteq Threads
    BY <2>1, CallBacksOf DEF EntryType
  <2> QED
    BY <1>1, <2>1, <2>2, <2>3, <2>4 DEF IInv, TypeInv, TypeOK
<1>4. ~dataMap'[d].isChanged /\ DOMAIN dataMap'[d].callBacks = {}
  BY <1>2, EntryFacts
<1>5. OrderInv'
  BY <1>1, <1>2, <1>4 DEF IInv, OrderInv
<1>6. UntoldInv'
  BY <1>1, <1>2, <1>4 DEF IInv, UntoldInv, Untold
<1>7. LastInv' /\ NoChangeLost'
  BY <1>1, <1>2, <1>4 DEF IInv, LastInv, NoChangeLost, Subscribed
<1> QED
  BY <1>3, <1>5, <1>6, <1>7 DEF IInv

(* A new subscriber of unmarked data has nothing to be told.               *)
LEMMA AppendNotifyKeeps ==
  ASSUME IInv, NEW th \in Threads, NEW d \in Types, AppendNotify(th, d)
  PROVE  IInv'
<1> USE DEF Known
<1>1. PICK cb : cb = [u \in {th} \cup DOMAIN dataMap[d].callBacks |-> Period[d][u]]
  OBVIOUS
<1>2. /\ dataMap' = [dataMap EXCEPT ![d].callBacks = cb]
      /\ UNCHANGED <<jsStarted, pairs, version, delivered>>
      /\ th \notin DOMAIN dataMap[d].callBacks
  BY <1>1 DEF AppendNotify
<1>3. d \in Known /\ dataMap \in [Known -> EntryType] /\ dataMap[d] \in EntryType
  BY DEF IInv, TypeInv, AppendNotify
<1>4. DOMAIN cb = {th} \cup DOMAIN dataMap[d].callBacks
  BY <1>1
<1>5. cb \in CallBacks
  <2>1. {th} \cup DOMAIN dataMap[d].callBacks \in SUBSET Threads
    BY <1>3, CallBacksOf DEF EntryType
  <2>2. {th} \cup DOMAIN dataMap[d].callBacks \subseteq DOMAIN Period[d]
    BY DEF IInv, TypeInv, AppendNotify
  <2>3. cb \in [{th} \cup DOMAIN dataMap[d].callBacks -> Nat \ {0}]
    BY <1>1, <2>2, DataAssumption
  <2> QED
    BY <2>1, <2>3, CallBacksAre
<1>6. /\ Known' = Known
      /\ dataMap' \in [Known -> EntryType]
      /\ \A c \in Known : /\ dataMap'[c].isChanged = dataMap[c].isChanged
                          /\ dataMap'[c].value = dataMap[c].value
                          /\ dataMap'[c].min = dataMap[c].min
                          /\ dataMap'[c].max = dataMap[c].max
                          /\ dataMap'[c].callBacks =
                               IF c = d THEN cb ELSE dataMap[c].callBacks
  BY <1>2, <1>3, <1>5 DEF EntryType
<1>7. TypeInv'
  <2>1. \A c \in Known : DOMAIN dataMap'[c].callBacks \subseteq DOMAIN Period[c]
    BY <1>4, <1>6 DEF AppendNotify, IInv, TypeInv
  <2>2. \A c \in Known : InRange(dataMap'[c], dataMap'[c].value)
    BY <1>6 DEF IInv, TypeInv, TypeOK, InRange
  <2>3. \A c \in Known : /\ dataMap'[c].value \in Values
                        /\ dataMap'[c].isChanged \in BOOLEAN
                        /\ dataMap'[c].ticks \in [Threads -> 0..(TickModulus - 1)]
                        /\ DOMAIN dataMap'[c].callBacks \subseteq Threads
    BY <1>6, CallBacksOf DEF EntryType
  <2> QED
    BY <1>2, <1>6, <2>1, <2>2, <2>3 DEF IInv, TypeInv, TypeOK
<1>8. OrderInv'
  BY <1>2, <1>6 DEF IInv, OrderInv
<1>9. UntoldInv'
  BY <1>2, <1>4, <1>6 DEF IInv, UntoldInv, Untold
<1>10. ASSUME NEW u \in Threads, NEW c \in Types, Subscribed(u, c)',
              ~dataMap'[c].isChanged
       PROVE  \/ Subscribed(u, c) /\ ~dataMap[c].isChanged
              \/ version[c] = 0 /\ delivered[u][c] = 0 /\ \A p \in pairs[u] : p.type # c
  <2>1. c \in Known /\ ~dataMap[c].isChanged /\ DOMAIN dataMap'[c].callBacks = {u}
    BY <1>6, <1>10 DEF Subscribed
  <2>2. CASE c # d
    BY <1>6, <2>1, <2>2 DEF Subscribed
  <2>3. CASE c = d
    <3>1. {th} \cup DOMAIN dataMap[d].callBacks = {u}
      BY <1>4, <1>6, <2>1, <2>3, Zenon
    <3>2. DOMAIN dataMap[d].callBacks = {}
      BY <1>2, <3>1, Zenon
    <3> QED
      BY <2>1, <2>3, <3>2 DEF IInv, UntoldInv, Untold
  <2> QED
    BY <2>2, <2>3
<1>11. LastInv' /\ NoChangeLost'
  BY <1>2, <1>10 DEF IInv, LastInv, NoChangeLost
<1> QED
  BY <1>7, <1>8, <1>9, <1>11 DEF IInv

(* A change that is set is newer than all that was told.                   *)
LEMMA SetDataKeeps ==
  ASSUME IInv, NEW th \in Threads, NEW d \in Types, NEW v \in Values, SetData(th, d, v)
  PROVE  IInv'
<1> USE DEF Known
<1>1. /\ dataMap \in [Known -> EntryType] /\ d \in Known
      /\ version \in [Types -> 0..MaxSets] /\ version[d] < MaxSets
      /\ delivered \in [Threads -> [Types -> 0..MaxSets]]
      /\ \A u \in Threads : pairs[u] \subseteq Pair
      /\ InRange(dataMap[d], v)
  BY DEF IInv, TypeInv, TypeOK, SetData, Pair
<1>2. /\ dataMap' = [dataMap EXCEPT ![d].value = v, ![d].isChanged = TRUE]
      /\ version' = [version EXCEPT ![d] = version[d] + 1]
      /\ UNCHANGED <<jsStarted, pairs, delivered>>
  BY DEF SetData
<1>3. PICK e \in EntryType :
        /\ e = [dataMap[d] EXCEPT !.value = v, !.isChanged = TRUE]
        /\ e.value = v /\ e.isChanged = TRUE
        /\ e.min = dataMap[d].min /\ e.max = dataMap[d].max
        /\ e.callBacks = dataMap[d].callBacks
        /\ e.ticks = dataMap[d].ticks
  <2>1. PICK f \in EntryType : f = [dataMap[d] EXCEPT !.value = v]
    BY <1>1 DEF EntryType
  <2>2. PICK e \in EntryType : e = [f EXCEPT !.isChanged = TRUE]
    BY DEF EntryType
  <2>3. e = [dataMap[d] EXCEPT !.value = v, !.isChanged = TRUE]
    BY <2>1, <2>2, Zenon
  <2>4. /\ f.value = v /\ f.min = dataMap[d].min /\ f.max = dataMap[d].max
        /\ f.callBacks = dataMap[d].callBacks /\ f.ticks = dataMap[d].ticks
    BY <1>1, <2>1 DEF EntryType
  <2>5. /\ e.value = f.value /\ e.min = f.min /\ e.max = f.max /\ e.isChanged = TRUE
        /\ e.callBacks = f.callBacks /\ e.ticks = f.ticks
    BY <2>2 DEF EntryType
  <2> QED
    BY <2>3, <2>4, <2>5
<1>4. dataMap' = [dataMap EXCEPT ![d] = e]
  BY <1>1, <1>2, <1>3
<1>5. /\ Known' = Known /\ dataMap' \in [Known -> EntryType]
      /\ dataMap'[d] = e
      /\ \A c \in Known : c # d => dataMap'[c] = dataMap[c]
      /\ \A c \in Known : dataMap'[c].callBacks = dataMap[c].callBacks
  BY <1>1, <1>3, <1>4
<1>6. /\ version' \in [Types -> 0..MaxSets]
      /\ version'[d] = version[d] + 1
      /\ \A c \in Types : c # d => version'[c] = version[c]
  BY <1>1, <1>2, DataAssumption
<1>7. TypeInv'
  <2>1. \A c \in Known : InRange(dataMap'[c], dataMap'[c].value)
    <3>1. InRange(e, e.value)
      BY <1>1, <1>3 DEF InRange
    <3>2. \A c \in Known : c # d => InRange(dataMap[c], dataMap[c].value)
      BY DEF IInv, TypeInv, TypeOK
    <3> QED
      BY <1>5, <3>1, <3>2
  <2>2. \A c \in Known : /\ dataMap'[c].value \in Values
                        /\ dataMap'[c].isChanged \in BOOLEAN
                        /\ dataMap'[c].ticks \in [Threads -> 0..(TickModulus - 1)]
                        /\ DOMAIN dataMap'[c].callBacks \subseteq Threads
    BY <1>5, CallBacksOf DEF EntryType
  <2> QED
    BY <1>2, <1>5, <1>6, <2>1, <2>2 DEF IInv, TypeInv, TypeOK
<1>8. OrderInv'
  <2>1. \A u \in Threads, c \in Types : delivered[u][c] <= version'[c]
    BY <1>1, <1>6 DEF IInv, OrderInv
  <2>2. \A u \in Threads : \A p \in pairs[u] :
          delivered[u][p.type] < p.version /\ p.version <= version'[p.type]
    BY <1>1, <1>6 DEF IInv, OrderInv, Pair
  <2>3. \A u \in Threads : /\ delivered[u][d] < version'[d]
                          /\ \A p \in pairs[u] : p.type = d => p.version < version'[d]
    BY <1>1, <1>6 DEF IInv, OrderInv, Pair
  <2>4. \A c \in Known : dataMap'[c].isChanged =>
          \A u \in Threads :
            /\ delivered[u][c] < version'[c]
            /\ \A p \in pairs[u] : p.type = c => p.version < version'[c]
    BY <1>5, <1>6, <2>3 DEF IInv, TypeInv, TypeOK, OrderInv
  <2> QED
    BY <1>2, <1>5, <2>1, <2>2, <2>4 DEF IInv, OrderInv
<1>9. UntoldInv'
  <2> SUFFICES ASSUME NEW c \in Types, Untold(c)'
               PROVE  /\ \A u \in Threads : delivered[u][c] = 0
                                            /\ \A p \in pairs[u] : p.type # c
                      /\ (c \in Known => ~dataMap'[c].isChanged) => version'[c] = 0
    BY <1>2, <1>5 DEF UntoldInv
  <2>1. Untold(c)
    BY <1>5 DEF Untold
  <2> QED
    BY <1>1, <1>3, <1>5, <1>6, <2>1 DEF IInv, UntoldInv
<1>10. ASSUME NEW u \in Threads, NEW c \in Types, Subscribed(u, c)', ~dataMap'[c].isChanged
       PROVE  c # d /\ Subscribed(u, c) /\ ~dataMap[c].isChanged
  BY <1>3, <1>5, <1>10 DEF Subscribed
<1>11. ASSUME NEW u \in Threads, NEW c \in Types, Subscribed(u, c)', ~dataMap'[c].isChanged
       PROVE  /\ \A p \in pairs[u] : p.type = c => p.version = version'[c]
              /\ (\A p \in pairs[u] : p.type # c) => delivered[u][c] = version'[c]
  <2>1. c # d /\ Subscribed(u, c) /\ ~dataMap[c].isChanged
    BY <1>10, <1>11
  <2> QED
    BY <1>6, <2>1 DEF IInv, LastInv, NoChangeLost
<1>12. LastInv' /\ NoChangeLost'
  BY <1>2, <1>11 DEF LastInv, NoChangeLost
<1> QED
  BY <1>7, <1>8, <1>9, <1>12 DEF IInv

(* A check takes the changes it is due to tell, as they are.               *)
LEMMA CheckAllKeeps ==
  ASSUME IInv, NEW th \in Threads, CheckAll(th)
  PROVE  IInv'
<1> DEFINE told == {c \in Known : Notifies(dataMap[c], th)}
           new == {[type |-> d, value |-> dataMap[d].value, version |-> version[d]] :
                     d \in told}
<1>1. /\ dataMap \in [Known -> EntryType] /\ Known \subseteq Types
      /\ version \in [Types -> 0..MaxSets]
      /\ pairs \in [Threads -> SUBSET Pair]
      /\ delivered \in [Threads -> [Types -> 0..MaxSets]]
  BY DEF IInv, TypeInv, TypeOK, Pair
<1>2. /\ pairs[th] = {}
      /\ dataMap' = [d \in Known |-> Check(dataMap[d], th)]
      /\ pairs' = [pairs EXCEPT ![th] = new]
      /\ UNCHANGED <<jsStarted, version, delivered>>
  BY DEF CheckAll
<1>3. /\ Known' = Known /\ dataMap' \in [Known -> EntryType]
      /\ \A d \in Known :
           /\ dataMap'[d].value = dataMap[d].value
           /\ dataMap'[d].min = dataMap[d].min /\ dataMap'[d].max = dataMap[d].max
           /\ dataMap'[d].callBacks = dataMap[d].callBacks
           /\ dataMap'[d].isChanged = (dataMap[d].isChanged /\ d \notin told)
  BY <1>1, <1>2, CheckFacts DEF Known
<1>4. \A d \in told : d \in Types /\ dataMap[d].isChanged
                     /\ dataMap[d].value \in Values
                     /\ th \in DOMAIN dataMap[d].callBacks
  BY <1>1 DEF Notifies, EntryType
<1>5. /\ new \subseteq Pair
      /\ \A p \in new : p.type \in told /\ p.version = version[p.type]
      /\ \A p, q \in new : p.type = q.type => p = q
  <2>1. \A d \in told : /\ d \in Types /\ dataMap[d].value \in Values
                       /\ version[d] \in 0..MaxSets
    BY <1>1, <1>4
  <2> QED
    BY <2>1 DEF Pair
<1> HIDE DEF told, new
<1>6. /\ pairs' \in [Threads -> SUBSET Pair] /\ pairs'[th] = new
      /\ \A u \in Threads : u # th => pairs'[u] = pairs[u]
  BY <1>1, <1>2, <1>5
<1>7. TypeInv'
  <2>1. \A c \in Known : InRange(dataMap'[c], dataMap'[c].value)
    BY <1>3 DEF IInv, TypeInv, TypeOK, InRange
  <2>2. \A c \in Known : /\ dataMap'[c].value \in Values
                        /\ dataMap'[c].isChanged \in BOOLEAN
                        /\ dataMap'[c].ticks \in [Threads -> 0..(TickModulus - 1)]
                        /\ DOMAIN dataMap'[c].callBacks \subseteq Threads
    BY <1>3, CallBacksOf DEF EntryType
  <2> QED
    BY <1>2, <1>3, <1>6, <2>1, <2>2 DEF IInv, TypeInv, TypeOK, Pair
<1>8. OrderInv'
  <2>1. \A u \in Threads : \A p \in pairs'[u] :
          delivered[u][p.type] < p.version /\ p.version <= version[p.type]
    <3>1. \A p \in new : delivered[th][p.type] < version[p.type] /\ p.type \in Types
      BY <1>4, <1>5 DEF IInv, OrderInv, told
    <3>2. \A p \in new : version[p.type] \in Nat
      BY <1>1, <3>1
    <3> QED
      BY <1>5, <1>6, <3>1, <3>2 DEF IInv, OrderInv
  <2>2. \A d \in Known : dataMap'[d].isChanged =>
          \A u \in Threads :
            /\ delivered[u][d] < version[d]
            /\ \A p \in pairs'[u] : p.type = d => p.version < version[d]
    BY <1>3, <1>5, <1>6 DEF IInv, OrderInv
  <2>3. \A u \in Threads : \A p, q \in pairs'[u] : p.type = q.type => p = q
    BY <1>5, <1>6 DEF IInv, OrderInv
  <2> QED
    BY <1>2, <1>3, <2>1, <2>2, <2>3 DEF IInv, OrderInv
<1>9. UntoldInv'
  <2> SUFFICES ASSUME NEW d \in Types, Untold(d)'
               PROVE  /\ \A u \in Threads : delivered[u][d] = 0
                                            /\ \A p \in pairs'[u] : p.type # d
                      /\ (d \in Known => ~dataMap'[d].isChanged) => version[d] = 0
    BY <1>2, <1>3 DEF UntoldInv
  <2>1. Untold(d) /\ d \notin told
    BY <1>3, <1>4 DEF Untold, told
  <2>2. \A u \in Threads : delivered[u][d] = 0 /\ \A p \in pairs'[u] : p.type # d
    BY <1>5, <1>6, <2>1 DEF IInv, UntoldInv
  <2>3. (d \in Known => ~dataMap'[d].isChanged) => version[d] = 0
    BY <1>3, <2>1 DEF IInv, UntoldInv
  <2> QED
    BY <2>2, <2>3
<1>10. ASSUME NEW u \in Threads, NEW d \in Types, Subscribed(u, d)', ~dataMap'[d].isChanged
       PROVE  /\ \A p \in pairs'[u] : p.type = d => p.version = version[d]
              /\ (\A p \in pairs'[u] : p.type # d) => delivered[u][d] = version[d]
  <2>1. d \in Known /\ Subscribed(u, d)
    BY <1>3, <1>10 DEF Subscribed
  <2>2. CASE dataMap[d].isChanged
    <3>1. d \in told
      BY <1>3, <1>10, <2>1, <2>2
    <3>2. u = th
      BY <1>4, <2>1, <3>1 DEF Subscribed
    <3>3. [type |-> d, value |-> dataMap[d].value, version |-> version[d]] \in new
      BY <3>1 DEF new
    <3> QED
      BY <1>5, <1>6, <3>2, <3>3
  <2>3. CASE ~dataMap[d].isChanged
    <3>1. d \notin told
      BY <1>4, <2>3
    <3>2. \A p \in new : p.type # d
      BY <1>5, <3>1
    <3>3. /\ \A p \in pairs[u] : p.type = d => p.version = version[d]
          /\ (\A p \in pairs[u] : p.type # d) => delivered[u][d] = version[d]
      BY <2>1, <2>3 DEF IInv, LastInv, NoChangeLost
    <3>4. CASE u = th
      BY <1>2, <1>6, <3>2, <3>3, <3>4
    <3>5. CASE u # th
      BY <1>6, <3>3, <3>5
    <3> QED
      BY <3>4, <3>5
  <2> QED
    BY <2>2, <2>3
<1>11. LastInv' /\ NoChangeLost'
  BY <1>2, <1>10 DEF LastInv, NoChangeLost
<1> QED
  BY <1>7, <1>8, <1>9, <1>11 DEF IInv

(* A callback gets what was to be told, which is the only one of its type. *)
LEMMA RunCallbackKeeps ==
  ASSUME IInv, NEW th \in Threads, RunCallback(th)
  PROVE  IInv'
<1>1. PICK p \in pairs[th] :
        /\ pairs' = [pairs EXCEPT ![th] = @ \ {p}]
        /\ delivered' = [delivered EXCEPT ![th][p.type] = p.version]
        /\ UNCHANGED <<dataMap, jsStarted, version>>
  BY DEF RunCallback
<1>2. /\ pairs \in [Threads -> SUBSET Pair] /\ p \in Pair
      /\ version \in [Types -> 0..MaxSets]
      /\ delivered \in [Threads -> [Types -> 0..MaxSets]]
  BY DEF IInv, TypeInv, TypeOK, Pair
<1>3. p.type \in Types /\ p.version \in 0..MaxSets
  BY <1>2 DEF Pair
<1>4. /\ pairs' \in [Threads -> SUBSET Pair]
      /\ pairs'[th] = pairs[th] \ {p}
      /\ \A u \in Threads : u # th => pairs'[u] = pairs[u]
      /\ \A u \in Threads : pairs'[u] \subseteq pairs[u]
  BY <1>1, <1>2
<1>5. /\ delivered' \in [Threads -> [Types -> 0..MaxSets]]
      /\ delivered'[th][p.type] = p.version
      /\ \A u \in Threads, d \in Types :
           (u # th \/ d # p.type) => delivered'[u][d] = delivered[u][d]
  <2>1. PICK row \in [Types -> 0..MaxSets] :
          row = [delivered[th] EXCEPT ![p.type] = p.version]
    BY <1>2, <1>3
  <2>2. delivered' = [delivered EXCEPT ![th] = row]
    BY <1>1, <1>2, <2>1
  <2> QED
    BY <1>2, <1>3, <2>1, <2>2
<1>6. Known' = Known
  BY <1>1 DEF Known
<1>7. TypeInv'
  BY <1>1, <1>4, <1>5, <1>6 DEF IInv, TypeInv, TypeOK, Pair, InRange
<1>8. \A q \in pairs[th] : q # p => q.type # p.type
  BY DEF IInv, OrderInv
<1>9. OrderInv'
  <2>1. \A u \in Threads, d \in Types : delivered'[u][d] <= version[d]
    BY <1>5 DEF IInv, OrderInv
  <2>2. ASSUME NEW u \in Threads, NEW q \in pairs'[u]
        PROVE  delivered'[u][q.type] < q.version /\ q.version <= version[q.type]
    <3>1. q \in pairs[u] /\ q.type \in Types /\ (u = th => q.type # p.type)
      BY <1>2, <1>4, <1>8 DEF Pair
    <3> QED
      BY <1>5, <3>1 DEF IInv, OrderInv
  <2>3. ASSUME NEW d \in Known, dataMap[d].isChanged, NEW u \in Threads
        PROVE  /\ delivered'[u][d] < version[d]
               /\ \A q \in pairs'[u] : q.type = d => q.version < version[d]
    <3>1. /\ delivered[u][d] < version[d] /\ d \in Types
          /\ \A q \in pairs[u] : q.type = d => q.version < version[d]
      BY <2>3 DEF IInv, OrderInv, TypeInv, TypeOK
    <3> QED
      BY <1>4, <1>5, <3>1
  <2>4. \A u \in Threads : \A q, r \in pairs'[u] : q.type = r.type => q = r
    BY <1>4 DEF IInv, OrderInv
  <2> QED
    BY <1>1, <1>6, <2>1, <2>2, <2>3, <2>4 DEF OrderInv
<1>10. UntoldInv'
  <2>1. ~Untold(p.type)
    BY <1>3 DEF IInv, UntoldInv
  <2>2. \A d \in Types : Untold(d)' <=> Untold(d)
    BY <1>1, <1>6 DEF Untold
  <2> QED
    BY <1>1, <1>4, <1>5, <1>6, <2>1, <2>2 DEF IInv, UntoldInv
<1>11. ASSUME NEW u \in Threads, NEW d \in Types, Subscribed(u, d)', ~dataMap'[d].isChanged
       PROVE  /\ \A q \in pairs'[u] : q.type = d => q.version = version[d]
              /\ (\A q \in pairs'[u] : q.type # d) => delivered'[u][d] = version[d]
  <2>1. Subscribed(u, d) /\ ~dataMap[d].isChanged
    BY <1>1, <1>6, <1>11 DEF Subscribed
  <2>2. /\ \A q \in pairs[u] : q.type = d => q.version = version[d]
        /\ (\A q \in pairs[u] : q.type # d) => delivered[u][d] = version[d]
    BY <2>1 DEF IInv, LastInv, NoChangeLost
  <2>3. CASE u = th /\ d = p.type
    BY <1>4, <1>5, <2>2, <2>3
  <2>4. CASE u # th \/ d # p.type
    BY <1>4, <1>5, <2>2, <2>4
  <2> QED
    BY <2>3, <2>4
<1>12. LastInv' /\ NoChangeLost'
  BY <1>1, <1>11 DEF LastInv, NoChangeLost
<1> QED
  BY <1>7, <1>9, <1>10, <1>12 DEF IInv

LEMMA QuietKeeps ==
  ASSUME IInv, UNCHANGED <<dataMap, pairs, version, delivered>>, jsStarted' \in BOOLEAN,
         jsStarted' => Known = Types
  PROVE  IInv'
<1>1. /\ dataMap' = dataMap /\ pairs' = pairs /\ version' = version
      /\ delivered' = delivered /\ Known' = Known
  BY DEF Known
<1>2. TypeOK'
  BY <1>1 DEF IInv, TypeInv, TypeOK, InRange
<1>3. TypeInv'
  BY <1>1, <1>2 DEF IInv, TypeInv
<1>4. OrderInv'
  BY <1>1 DEF IInv, OrderInv
<1>5. UntoldInv'
  BY <1>1 DEF IInv, UntoldInv, Untold
<1>6. LastInv' /\ NoChangeLost'
  BY <1>1 DEF IInv, LastInv, NoChangeLost, Subscribed
<1> QED
  BY <1>3, <1>4, <1>5, <1>6 DEF IInv

LEMMA StepIInv == IInv /\ [Next]_vars => IInv'
<1> SUFFICES ASSUME IInv, [Next]_vars PROVE IInv'
  OBVIOUS
<1>1. ASSUME NEW d \in Types, Construct(d) PROVE IInv'
  BY <1>1, ConstructKeeps
<1>2. CASE InitJsApp
  BY <1>2, QuietKeeps DEF InitJsApp
<1>3. ASSUME NEW th \in Threads, NEW d \in Types, AppendNotify(th, d) PROVE IInv'
  BY <1>3, AppendNotifyKeeps
<1>4. ASSUME NEW th \in Threads, NEW d \in Types, NEW v \in Values, SetData(th, d, v)
      PROVE IInv'
  BY <1>4, SetDataKeeps
<1>5. ASSUME NEW th \in Threads, CheckAll(th) PROVE IInv'
  BY <1>5, CheckAllKeeps
<1>6. ASSUME NEW th \in Threads, RunCallback(th) PROVE IInv'
  BY <1>6, RunCallbackKeeps
<1>7. CASE UNCHANGED vars
  <2>1. jsStarted \in BOOLEAN /\ (jsStarted => Known = Types)
    BY DEF IInv, TypeInv, TypeOK
  <2> QED
    BY <1>7, <2>1, QuietKeeps DEF vars
<1> QED
  BY <1>1, <1>2, <1>3, <1>4, <1>5, <1>6, <1>7 DEF Next

(* The inductive invariant holds of the table and what is on its way.      *)
THEOREM Invariance == Spec => []IInv
BY InitIInv, StepIInv, PTL DEF Spec

(* Data keep their types, and values the range they were constructed with. *)
THEOREM TypeCorrect == Spec => []TypeOK
<1>1. IInv => TypeOK
  BY DEF IInv, TypeInv
<1> QED
  BY <1>1, Invariance, PTL

(* No change is lost for an only subscriber, however the threads' sets,    *)
(* checks, callbacks and registrations interleave.                         *)
THEOREM ChangesKept == Spec => []NoChangeLost
<1>1. IInv => NoChangeLost
  BY DEF IInv
<1> QED
  BY <1>1, Invariance, PTL

(* A callback is never given a change it got before, nor one older.        *)
THEOREM ToldOnce == Spec => ChangesToldOnce
<1>1. IInv /\ [Next]_vars =>
        [\A th \in Threads : \A p \in pairs[th] \ pairs'[th] :
           p.version > delivered[th][p.type]]_vars
  <2> SUFFICES ASSUME IInv, NEW th \in Threads, NEW p \in pairs[th]
               PROVE  p.version > delivered[th][p.type]
    OBVIOUS
  <2>1. p \in Pair /\ p.type \in Types /\ delivered[th][p.type] \in Nat
    BY DEF IInv, TypeInv, TypeOK, Pair
  <2> QED
    BY <2>1 DEF IInv, OrderInv, Pair
<1> QED
  BY <1>1, Invariance, PTL DEF Spec, ChangesToldOnce
=============================================================================
