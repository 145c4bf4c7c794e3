-------------------------- MODULE LitePreviewerProofs --------------------------
(***************************************************************************)
(* For any timers, any delays and any amount of work: asynchronous work    *)
(* runs in the order it was dispatched, whatever the main thread clears;   *)
(* no freed timer is looked at; a one-shot timer fires once.               *)
(***************************************************************************)
EXTENDS LitePreviewer, SequenceTheorems, FiniteSetTheorems, TLAPS

Sorted(s) == \A i, j \in 1 .. Len(s) : i < j => s[i] < s[j]
Below(s, u) == \A i \in 1 .. Len(s), j \in 1 .. Len(u) : s[i] < u[j]
UpTo(s, n) == \A i \in 1 .. Len(s) : s[i] <= n

(***************************************************************************)
(* What was run comes before what is being run, and that before what       *)
(* waits; nothing is newer than the last work dispatched.                  *)
(***************************************************************************)
WorkInv ==
  /\ dispatched \in Nat
  /\ worked \in Seq(Nat) /\ tempList \in Seq(Nat) /\ workList \in Seq(Nat)
  /\ Sorted(worked) /\ Sorted(tempList) /\ Sorted(workList)
  /\ Below(worked, tempList) /\ Below(worked, workList) /\ Below(tempList, workList)
  /\ UpTo(worked, dispatched) /\ UpTo(tempList, dispatched) /\ UpTo(workList, dispatched)

LEMMA WorkInit == LiteInit => WorkInv
<1> SUFFICES ASSUME LiteInit PROVE WorkInv
  OBVIOUS
<1>1. workList = <<>> /\ tempList = <<>> /\ worked = <<>> /\ dispatched = 0
  BY DEF LiteInit, TimersInit
<1>2. Len(<<>>) = 0 /\ 1 .. 0 = {} /\ <<>> \in Seq(Nat) /\ 0 \in Nat
  BY EmptySeq
<1> QED BY <1>1, <1>2 DEF WorkInv, Sorted, Below, UpTo

\* Work that is dispatched is newer than all there is.
LEMMA DispatchKeeps ==
  ASSUME WorkInv, DispatchAsyncWork PROVE WorkInv'
<1>1. /\ dispatched' = dispatched + 1 /\ workList' = Append(workList, dispatched + 1)
      /\ UNCHANGED <<tempList, worked>>
  BY DEF DispatchAsyncWork
<1>2. dispatched \in Nat /\ workList \in Seq(Nat) /\ dispatched + 1 \in Nat
  BY DEF WorkInv
<1>3. /\ workList' \in Seq(Nat) /\ Len(workList) \in Nat /\ Len(workList') = Len(workList) + 1
      /\ workList'[Len(workList) + 1] = dispatched + 1
      /\ \A i \in 1 .. Len(workList) : workList'[i] = workList[i]
  BY <1>1, <1>2, AppendProperties, LenProperties
<1>4. \A i \in 1 .. Len(workList') : i \in 1 .. Len(workList) \/ i = Len(workList) + 1
  BY <1>3, SMT
<1>5. \A i \in 1 .. Len(workList) : workList[i] \in Nat /\ workList[i] <= dispatched
  BY <1>2, ElementOfSeq DEF WorkInv, UpTo
<1>6. /\ \A i \in 1 .. Len(worked) : worked[i] \in Nat /\ worked[i] <= dispatched
      /\ \A i \in 1 .. Len(tempList) : tempList[i] \in Nat /\ tempList[i] <= dispatched
  BY ElementOfSeq DEF WorkInv, UpTo
<1>7. Sorted(workList')
  <2> SUFFICES ASSUME NEW i \in 1 .. Len(workList'), NEW j \in 1 .. Len(workList'), i < j
               PROVE  workList'[i] < workList'[j]
    BY DEF Sorted
  <2>1. i \in 1 .. Len(workList) /\ workList'[i] = workList[i]
    BY <1>3, SMT
  <2>2. CASE j = Len(workList) + 1
    BY <2>1, <2>2, <1>2, <1>3, <1>5, SMT
  <2>3. CASE j # Len(workList) + 1
    <3>1. j \in 1 .. Len(workList) /\ workList'[j] = workList[j]
      BY <2>3, <1>3, <1>4
    <3> QED BY <2>1, <3>1 DEF WorkInv, Sorted
  <2> QED BY <2>2, <2>3
<1>8. Below(worked, workList')
  <2> SUFFICES ASSUME NEW i \in 1 .. Len(worked), NEW j \in 1 .. Len(workList')
               PROVE  worked[i] < workList'[j]
    BY DEF Below
  <2>1. CASE j = Len(workList) + 1
    BY <2>1, <1>2, <1>3, <1>6, SMT
  <2>2. CASE j # Len(workList) + 1
    <3>1. j \in 1 .. Len(workList) /\ workList'[j] = workList[j]
      BY <2>2, <1>3, <1>4
    <3> QED BY <3>1 DEF WorkInv, Below
  <2> QED BY <2>1, <2>2
<1>9. Below(tempList, workList')
  <2> SUFFICES ASSUME NEW i \in 1 .. Len(tempList), NEW j \in 1 .. Len(workList')
               PROVE  tempList[i] < workList'[j]
    BY DEF Below
  <2>1. CASE j = Len(workList) + 1
    BY <2>1, <1>2, <1>3, <1>6, SMT
  <2>2. CASE j # Len(workList) + 1
    <3>1. j \in 1 .. Len(workList) /\ workList'[j] = workList[j]
      BY <2>2, <1>3, <1>4
    <3> QED BY <3>1 DEF WorkInv, Below
  <2> QED BY <2>1, <2>2
<1>10. UpTo(worked, dispatched') /\ UpTo(tempList, dispatched')
  BY <1>1, <1>2, <1>6, SMT DEF UpTo
<1>11. UpTo(workList', dispatched')
  <2> SUFFICES ASSUME NEW i \in 1 .. Len(workList') PROVE workList'[i] <= dispatched'
    BY DEF UpTo
  <2>1. CASE i = Len(workList) + 1
    BY <2>1, <1>1, <1>2, <1>3, SMT
  <2>2. CASE i # Len(workList) + 1
    <3>1. i \in 1 .. Len(workList) /\ workList'[i] = workList[i]
      BY <2>2, <1>3, <1>4
    <3> QED BY <3>1, <1>1, <1>2, <1>5, SMT
  <2> QED BY <2>1, <2>2
<1> QED BY <1>1, <1>2, <1>3, <1>7, <1>8, <1>9, <1>10, <1>11 DEF WorkInv

LEMMA ExecKeeps ==
  ASSUME WorkInv, ExecAllAsyncWork \/ ClearAllAsyncWork PROVE WorkInv'
<1>1. /\ workList' = <<>> /\ tempList' \in {workList, tempList}
      /\ UNCHANGED <<dispatched, worked>>
  BY DEF ExecAllAsyncWork, ClearAllAsyncWork
<1>2. Len(workList') = 0 /\ 1 .. 0 = {} /\ workList' \in Seq(Nat)
  BY <1>1, EmptySeq
<1>3. Sorted(workList') /\ Below(worked, workList') /\ Below(tempList', workList')
      /\ UpTo(workList', dispatched)
  BY <1>2 DEF Sorted, Below, UpTo
<1> QED BY <1>1, <1>2, <1>3 DEF WorkInv

\* The oldest work that is being run becomes the newest that was.
LEMMA RunWorkKeeps ==
  ASSUME WorkInv, RunWork PROVE WorkInv'
<1> DEFINE n == tempList[1]
<1>1. /\ tempList # <<>> /\ worked' = Append(worked, Head(tempList)) /\ tempList' = Tail(tempList)
      /\ UNCHANGED <<workList, dispatched>>
  BY DEF RunWork
<1>2. worked \in Seq(Nat) /\ tempList \in Seq(Nat)
  BY DEF WorkInv
<1>3. /\ tempList' \in Seq(Nat) /\ Len(tempList') = Len(tempList) - 1
      /\ Len(tempList) \in Nat \ {0}
      /\ \A i \in 1 .. Len(tempList') : tempList'[i] = tempList[i + 1]
  BY <1>1, <1>2, HeadTailProperties, EmptySeq
<1>4. n \in Nat /\ Head(tempList) = n /\ 1 \in 1 .. Len(tempList)
  BY <1>2, <1>3, ElementOfSeq
<1> HIDE DEF n
<1>5. /\ worked' \in Seq(Nat) /\ Len(worked) \in Nat /\ Len(worked') = Len(worked) + 1
      /\ worked'[Len(worked) + 1] = n /\ \A i \in 1 .. Len(worked) : worked'[i] = worked[i]
  BY <1>1, <1>2, <1>4, AppendProperties, LenProperties
<1>6. \A i \in 1 .. Len(worked') : i \in 1 .. Len(worked) \/ i = Len(worked) + 1
  BY <1>5, SMT
<1>7. \A i \in 1 .. Len(tempList') : i + 1 \in 1 .. Len(tempList) /\ 1 < i + 1
  BY <1>3, SMT
\* n is above what was run and below all the rest.
<1>8. /\ \A i \in 1 .. Len(worked) : worked[i] < n
      /\ \A j \in 1 .. Len(tempList') : n < tempList'[j]
      /\ \A j \in 1 .. Len(workList) : n < workList[j]
      /\ n <= dispatched
  <2>1. \A i \in 1 .. Len(worked) : worked[i] < n
    BY <1>4 DEF WorkInv, Below, n
  <2>2. \A j \in 1 .. Len(tempList') : n < tempList'[j]
    BY <1>3, <1>4, <1>7 DEF WorkInv, Sorted, n
  <2>3. \A j \in 1 .. Len(workList) : n < workList[j]
    BY <1>4 DEF WorkInv, Below, n
  <2>4. n <= dispatched
    BY <1>4 DEF WorkInv, UpTo, n
  <2> QED BY <2>1, <2>2, <2>3, <2>4
<1>9. Sorted(worked')
  <2> SUFFICES ASSUME NEW i \in 1 .. Len(worked'), NEW j \in 1 .. Len(worked'), i < j
               PROVE  worked'[i] < worked'[j]
    BY DEF Sorted
  <2>1. i \in 1 .. Len(worked) /\ worked'[i] = worked[i]
    BY <1>5, SMT
  <2>2. CASE j = Len(worked) + 1
    BY <2>1, <2>2, <1>5, <1>8
  <2>3. CASE j # Len(worked) + 1
    <3>1. j \in 1 .. Len(worked) /\ worked'[j] = worked[j]
      BY <2>3, <1>5, <1>6
    <3> QED BY <2>1, <3>1 DEF WorkInv, Sorted
  <2> QED BY <2>2, <2>3
<1>10. Sorted(tempList')
  <2> SUFFICES ASSUME NEW i \in 1 .. Len(tempList'), NEW j \in 1 .. Len(tempList'), i < j
               PROVE  tempList'[i] < tempList'[j]
    BY DEF Sorted
  <2>1. i + 1 < j + 1
    OBVIOUS
  <2> QED BY <2>1, <1>3, <1>7 DEF WorkInv, Sorted
<1>11. Below(worked', tempList') /\ Below(worked', workList)
  <2>1. ASSUME NEW i \in 1 .. Len(worked'), NEW j \in 1 .. Len(tempList')
        PROVE  worked'[i] < tempList'[j]
    <3>1. CASE i = Len(worked) + 1
      BY <3>1, <1>5, <1>8
    <3>2. CASE i # Len(worked) + 1
      <4>1. i \in 1 .. Len(worked) /\ worked'[i] = worked[i]
        BY <3>2, <1>5, <1>6
      <4> QED BY <4>1, <1>3, <1>7 DEF WorkInv, Below
    <3> QED BY <3>1, <3>2
  <2>2. ASSUME NEW i \in 1 .. Len(worked'), NEW j \in 1 .. Len(workList)
        PROVE  worked'[i] < workList[j]
    <3>1. CASE i = Len(worked) + 1
      BY <3>1, <1>5, <1>8
    <3>2. CASE i # Len(worked) + 1
      <4>1. i \in 1 .. Len(worked) /\ worked'[i] = worked[i]
        BY <3>2, <1>5, <1>6
      <4> QED BY <4>1 DEF WorkInv, Below
    <3> QED BY <3>1, <3>2
  <2> QED BY <2>1, <2>2 DEF Below
<1>12. Below(tempList', workList) /\ UpTo(tempList', dispatched)
  BY <1>3, <1>7 DEF WorkInv, Below, UpTo
<1>13. UpTo(worked', dispatched)
  <2> SUFFICES ASSUME NEW i \in 1 .. Len(worked') PROVE worked'[i] <= dispatched
    BY DEF UpTo
  <2>1. CASE i = Len(worked) + 1
    BY <2>1, <1>5, <1>8
  <2>2. CASE i # Len(worked) + 1
    <3>1. i \in 1 .. Len(worked) /\ worked'[i] = worked[i]
      BY <2>2, <1>5, <1>6
    <3> QED BY <3>1 DEF WorkInv, UpTo
  <2> QED BY <2>1, <2>2
<1> QED BY <1>1, <1>3, <1>5, <1>9, <1>10, <1>11, <1>12, <1>13 DEF WorkInv

LEMMA WorkNext == WorkInv /\ [LiteNext]_allVars => WorkInv'
<1> SUFFICES ASSUME WorkInv, [LiteNext]_allVars PROVE WorkInv'
  OBVIOUS
<1>1. ASSUME UNCHANGED work PROVE WorkInv'
  BY <1>1 DEF WorkInv, work
<1>2. CASE Start \/ Exit
  BY <1>1, <1>2 DEF Start, Exit
<1>3. CASE Stop
  <2>1. CASE ClearWork
    BY <2>1, ExecKeeps DEF ClearWork
  <2>2. CASE NoAbility \/ Destroy \/ SetFinished \/ SetInterrupt
    BY <1>1, <2>2 DEF NoAbility, Destroy, SetFinished, SetInterrupt
  <2>3. CASE Sleep \/ StopFinished \/ Return
    BY <1>1, <2>3 DEF Sleep, StopFinished, Return
  <2> QED BY <1>3, <2>1, <2>2, <2>3 DEF Stop
<1>4. CASE MakeAbility \/ Launch \/ Show \/ Launched \/ EndThread \/ InitTimer \/ RunTimerTick
  BY <1>1, <1>4 DEF MakeAbility, Launch, Show, Launched, EndThread, InitTimer, RunTimerTick
<1>5. CASE TimerTurn
  <2>1. CASE LookAtTimer \/ ConsumingCallback \/ RunCallback \/ EndCallback \/ EndTick \/ EndWork
    BY <1>1, <2>1 DEF LookAtTimer, ConsumingCallback, RunCallback, EndCallback, EndTick, EndWork
  <2> QED BY <1>5, <2>1, ExecKeeps, RunWorkKeeps DEF TimerTurn
<1>6. CASE RunAppCode
  <2>1. CASE DispatchAsyncWork
    BY <2>1, DispatchKeeps
  <2>2. CASE \E t \in Handles :
               \/ \E delay \in Delays, shots \in {1, Forever} : StartTimerTask(t, delay, shots)
               \/ StopTimerTask(t)
    BY <1>1, <2>2 DEF StartTimerTask, StopTimerTask
  <2> QED BY <1>6, <2>1, <2>2 DEF RunAppCode, AppCode
<1>7. CASE Tick
  BY <1>1, <1>7 DEF Tick
<1>8. CASE UNCHANGED allVars
  BY <1>1, <1>8 DEF allVars
<1> QED BY <1>2, <1>3, <1>4, <1>5, <1>6, <1>7, <1>8 DEF LiteNext, ThreadCallBack

\* Work is run at most once and in the order it was dispatched, while the
\* application dispatches and the main thread clears the list.
THEOREM LiteWorkInOrder == LiteSpec => []WorkInOrder
<1>1. WorkInv => WorkInOrder
  <2> SUFFICES ASSUME WorkInv PROVE WorkInOrder
    OBVIOUS
  <2> DEFINE a == Len(worked)  b == Len(tempList)  c == Len(workList)
             run == worked \o tempList
             all == run \o workList
  <2>1. worked \in Seq(Nat) /\ tempList \in Seq(Nat) /\ workList \in Seq(Nat)
    BY DEF WorkInv
  <2>2. a \in Nat /\ b \in Nat /\ c \in Nat
    BY <2>1, LenProperties
  <2>3. run \in Seq(Nat) /\ Len(run) = a + b
    BY <2>1, ConcatProperties
  <2>4. all \in Seq(Nat) /\ Len(all) = a + b + c
    BY <2>1, <2>3, ConcatProperties
  <2>5. DOMAIN all = 1 .. (a + b + c)
    BY <2>4, LenProperties
  <2>6. \A i \in 1 .. a : i \in 1 .. (a + b) /\ run[i] = worked[i]
    BY <2>1, <2>2, ConcatProperties
  <2>7. \A i \in (a + 1) .. (a + b) :
          i \in 1 .. (a + b) /\ i - a \in 1 .. b /\ run[i] = tempList[i - a]
    BY <2>1, <2>2, ConcatProperties
  <2>8. \A i \in 1 .. (a + b) : all[i] = run[i]
    BY <2>1, <2>2, <2>3, ConcatProperties
  <2>9. \A i \in (a + b + 1) .. (a + b + c) :
          i - (a + b) \in 1 .. c /\ all[i] = workList[i - (a + b)]
    BY <2>1, <2>2, <2>3, ConcatProperties
  <2> HIDE DEF a, b, c, run, all
  <2>10. ASSUME NEW i \in DOMAIN all, NEW j \in DOMAIN all, i < j PROVE all[i] < all[j]
    <3>1. \A k \in DOMAIN all : k \in 1 .. a \/ k \in (a + 1) .. (a + b)
                                \/ k \in (a + b + 1) .. (a + b + c)
      BY <2>2, <2>5, SMT
    <3>2. i \in Int /\ j \in Int
      BY <2>2, <2>5, SMT
    <3>3. CASE i \in 1 .. a
      <4>1. all[i] = worked[i]
        BY <3>3, <2>6, <2>8
      <4>2. CASE j \in 1 .. a
        BY <4>1, <4>2, <3>3, <2>10, <2>6, <2>8 DEF WorkInv, Sorted, a
      <4>3. CASE j \in (a + 1) .. (a + b)
        BY <4>1, <4>3, <3>3, <2>7, <2>8 DEF WorkInv, Below, a, b
      <4>4. CASE j \in (a + b + 1) .. (a + b + c)
        BY <4>1, <4>4, <3>3, <2>9 DEF WorkInv, Below, a, c
      <4> QED BY <4>2, <4>3, <4>4, <3>1
    <3>4. CASE i \in (a + 1) .. (a + b)
      <4>1. all[i] = tempList[i - a] /\ i - a \in 1 .. b
        BY <3>4, <2>7, <2>8
      <4>2. j \notin 1 .. a
        BY <3>4, <3>2, <2>2, <2>10, SMT
      <4>3. CASE j \in (a + 1) .. (a + b)
        <5>1. all[j] = tempList[j - a] /\ j - a \in 1 .. b /\ i - a < j - a
          BY <4>3, <3>2, <2>2, <2>7, <2>8, <2>10
        <5> QED BY <4>1, <5>1 DEF WorkInv, Sorted, b
      <4>4. CASE j \in (a + b + 1) .. (a + b + c)
        BY <4>1, <4>4, <2>9 DEF WorkInv, Below, b, c
      <4> QED BY <4>2, <4>3, <4>4, <3>1
    <3>5. CASE i \in (a + b + 1) .. (a + b + c)
      <4>1. j \in (a + b + 1) .. (a + b + c)
        BY <3>5, <3>2, <2>2, <2>5, <2>10, SMT
      <4>2. /\ all[i] = workList[i - (a + b)] /\ i - (a + b) \in 1 .. c
            /\ all[j] = workList[j - (a + b)] /\ j - (a + b) \in 1 .. c
            /\ i - (a + b) < j - (a + b)
        BY <4>1, <3>5, <3>2, <2>2, <2>9, <2>10
      <4> QED BY <4>2 DEF WorkInv, Sorted, c
    <3> QED BY <3>1, <3>3, <3>4, <3>5
  <2> QED BY <2>10 DEF WorkInOrder, all, run
<1>2. LiteInit => WorkInv
  BY WorkInit
<1>3. WorkInv /\ [LiteNext]_allVars => WorkInv'
  BY WorkNext
<1> QED BY <1>1, <1>2, <1>3, PTL DEF LiteSpec

(***************************************************************************)
(* The lists of timers hold an element once; what appending, removing the  *)
(* first, the last or a given element makes of such a list.                *)
(***************************************************************************)
Once(s) == \A i, j \in 1 .. Len(s) : s[i] = s[j] => i = j
In(t, s) == \E i \in 1 .. Len(s) : s[i] = t

LEMMA NothingInEmpty == Once(<<>>) /\ (\A t : ~In(t, <<>>))
<1>1. Len(<<>>) = 0
  <2>1. <<>> \in Seq({}) /\ Len(<<>>) = 0 BY EmptySeq, Zenon
  <2> QED BY <2>1
<1> QED BY <1>1 DEF Once, In

LEMMA OnceAppend ==
  ASSUME NEW S, NEW s \in Seq(S), NEW u \in S
  PROVE  /\ Append(s, u) \in Seq(S)
         /\ \A t : In(t, Append(s, u)) <=> In(t, s) \/ t = u
         /\ Once(s) /\ ~In(u, s) => Once(Append(s, u))
<1> DEFINE a == Append(s, u)  n == Len(s)
<1>1. /\ a \in Seq(S) /\ n \in Nat /\ Len(a) = n + 1 /\ a[n + 1] = u
      /\ \A i \in 1 .. n : a[i] = s[i]
  BY AppendProperties, LenProperties
<1> HIDE DEF a, n
<1>2. 1 .. Len(a) = (1 .. n) \cup {n + 1} BY <1>1
<1>3. \A t : In(t, a) <=> In(t, s) \/ t = u BY <1>1, <1>2 DEF In, n
<1>4. ASSUME Once(s), ~In(u, s) PROVE Once(a)
  BY <1>1, <1>2, <1>4 DEF Once, In, n
<1> QED BY <1>1, <1>3, <1>4 DEF a

LEMMA OnceTail ==
  ASSUME NEW S, NEW s \in Seq(S), s # <<>>, Once(s)
  PROVE  /\ Head(s) \in S /\ In(Head(s), s)
         /\ Tail(s) \in Seq(S) /\ Once(Tail(s))
         /\ \A t : In(t, Tail(s)) <=> In(t, s) /\ t # Head(s)
<1> DEFINE b == Tail(s)  n == Len(s)
<1>1. /\ b \in Seq(S) /\ n \in Nat \ {0} /\ Len(b) = n - 1
      /\ \A i \in 1 .. Len(b) : b[i] = s[i + 1]
      /\ Head(s) \in S /\ Head(s) = s[1]
  BY HeadTailProperties, EmptySeq
<1> HIDE DEF b, n
<1>2. 1 \in 1 .. n /\ (\A i \in 1 .. n - 1 : i + 1 \in 1 .. n /\ i + 1 # 1) BY <1>1
<1>3. \A i \in 1 .. n : i # 1 => i - 1 \in 1 .. n - 1 /\ (i - 1) + 1 = i BY <1>1
<1>4. In(Head(s), s) BY <1>1, <1>2 DEF In, n
<1>5. Once(b) BY <1>1, <1>2 DEF Once, n
<1>6. \A t : In(t, b) <=> In(t, s) /\ t # Head(s)
  <2>1. ASSUME NEW t, In(t, b) PROVE In(t, s) /\ t # Head(s)
    BY <2>1, <1>1, <1>2 DEF In, Once, n
  <2>2. ASSUME NEW t, In(t, s), t # Head(s) PROVE In(t, b)
    <3>1. PICK i \in 1 .. n : s[i] = t BY <2>2 DEF In, n
    <3>2. i - 1 \in 1 .. n - 1 /\ (i - 1) + 1 = i BY <3>1, <2>2, <1>1, <1>3
    <3> QED BY <3>1, <3>2, <1>1 DEF In
  <2> QED BY <2>1, <2>2
<1> QED BY <1>1, <1>4, <1>5, <1>6 DEF b

LEMMA OnceFront ==
  ASSUME NEW S, NEW s \in Seq(S), s # <<>>, Once(s)
  PROVE  /\ Last(s) \in S /\ In(Last(s), s)
         /\ Front(s) \in Seq(S) /\ Once(Front(s))
         /\ \A t : In(t, Front(s)) <=> In(t, s) /\ t # Last(s)
<1> DEFINE b == Front(s)  n == Len(s)
<1>1. n \in Nat \ {0} /\ n \in 1 .. n BY EmptySeq
<1>2. \A i \in 1 .. n : s[i] \in S BY ElementOfSeq
<1> HIDE DEF n
<1>3. 1 \in Int /\ n - 1 \in Int /\ (\A i \in 1 .. (n - 1) : s[i] \in S) BY <1>1, <1>2
<1>4. /\ SubSeq(s, 1, n - 1) \in Seq(S)
      /\ Len(SubSeq(s, 1, n - 1)) = IF 1 <= n - 1 THEN (n - 1) - 1 + 1 ELSE 0
      /\ \A i \in 1 .. ((n - 1) - 1 + 1) : SubSeq(s, 1, n - 1)[i] = s[1 + i - 1]
  BY <1>3, SubSeqProperties
<1>5. b \in Seq(S) /\ Len(b) = n - 1 /\ (\A i \in 1 .. n - 1 : b[i] = s[i])
  <2>1. b = SubSeq(s, 1, n - 1) BY DEF Front, n
  <2> HIDE DEF b
  <2>2. \A i \in 1 .. n - 1 : 1 + i - 1 = i BY <1>1
  <2>3. (n - 1) - 1 + 1 = n - 1 /\ (IF 1 <= n - 1 THEN n - 1 ELSE 0) = n - 1 BY <1>1
  <2> QED BY <1>4, <2>1, <2>2, <2>3
<1> HIDE DEF b
<1>6. \A i \in 1 .. n - 1 : i \in 1 .. n /\ i # n BY <1>1
<1>7. \A i \in 1 .. n : i # n => i \in 1 .. n - 1 BY <1>1
<1>8. Last(s) = s[n] /\ Last(s) \in S /\ In(Last(s), s) BY <1>1, <1>2 DEF Last, In, n
<1>9. Once(b) BY <1>5, <1>6 DEF Once, n
<1>10. \A t : In(t, b) <=> In(t, s) /\ t # Last(s)
  <2>1. ASSUME NEW t, In(t, b) PROVE In(t, s) /\ t # Last(s)
    BY <2>1, <1>1, <1>5, <1>6, <1>8 DEF In, Once, n
  <2>2. ASSUME NEW t, In(t, s), t # Last(s) PROVE In(t, b)
    BY <2>2, <1>5, <1>7, <1>8 DEF In, n
  <2> QED BY <2>1, <2>2
<1> QED BY <1>5, <1>8, <1>9, <1>10 DEF b

\* Where a timer is listed once, RemoveFirst removes it for good.
LEMMA OnceRemove ==
  ASSUME NEW S, NEW s \in Seq(S), NEW u, Once(s), In(u, s)
  PROVE  /\ RemoveFirst(s, u) \in Seq(S) /\ Once(RemoveFirst(s, u))
         /\ \A t : In(t, RemoveFirst(s, u)) <=> In(t, s) /\ t # u
<1> DEFINE n == Len(s)
<1>1. PICK k \in 1 .. n : s[k] = u BY DEF In
<1>2. n \in Nat /\ k \in Nat /\ 1 <= k /\ k <= n BY <1>1, LenProperties
<1>3. \A i \in 1 .. n : s[i] \in S BY ElementOfSeq
<1>4. {i \in 1 .. n : s[i] = u} = {k} BY <1>1 DEF Once
<1>5. Min({k}) = k BY <1>2 DEF Min
<1>6. SelectInSeq(s, LAMBDA v : v = u) = k
  BY <1>4, <1>5, Zenon DEF SelectInSeq
<1>7. RemoveFirst(s, u) = RemoveAt(s, k)
  BY <1>1, <1>6, Zenon DEF RemoveFirst
<1> DEFINE l == SubSeq(s, 1, k - 1)  m == SubSeq(s, k + 1, n)  r == l \o m
<1>8. RemoveFirst(s, u) = r BY <1>7, Zenon DEF RemoveAt
<1> HIDE DEF n
<1>9. l \in Seq(S) /\ Len(l) = k - 1 /\ (\A i \in 1 .. k - 1 : l[i] = s[i])
  <2>1. 1 \in Int /\ k - 1 \in Int /\ (\A i \in 1 .. (k - 1) : s[i] \in S) BY <1>2, <1>3
  <2>2. /\ l \in Seq(S)
        /\ Len(l) = IF 1 <= k - 1 THEN (k - 1) - 1 + 1 ELSE 0
        /\ \A i \in 1 .. ((k - 1) - 1 + 1) : l[i] = s[1 + i - 1]
    BY <2>1, SubSeqProperties
  <2> HIDE DEF l
  <2> QED BY <2>2, <1>2
<1>10. m \in Seq(S) /\ Len(m) = n - k /\ (\A i \in 1 .. n - k : m[i] = s[k + i])
  <2>1. k + 1 \in Int /\ n \in Int /\ (\A i \in (k + 1) .. n : s[i] \in S) BY <1>2, <1>3
  <2>2. /\ m \in Seq(S)
        /\ Len(m) = IF k + 1 <= n THEN n - (k + 1) + 1 ELSE 0
        /\ \A i \in 1 .. (n - (k + 1) + 1) : m[i] = s[(k + 1) + i - 1]
    BY <2>1, SubSeqProperties
  <2> HIDE DEF m
  <2> QED BY <2>2, <1>2
<1> HIDE DEF l, m
<1>11. /\ r \in Seq(S) /\ Len(r) = Len(l) + Len(m)
       /\ \A i \in 1 .. Len(l) + Len(m) : r[i] = IF i <= Len(l) THEN l[i] ELSE m[i - Len(l)]
  BY <1>9, <1>10, ConcatProperties
<1> HIDE DEF r
<1>12. Len(r) = n - 1 BY <1>2, <1>9, <1>10, <1>11
\* Before k as it was, from k on the next one.
<1>13. \A i \in 1 .. n - 1 : r[i] = s[IF i < k THEN i ELSE i + 1]
  <2> SUFFICES ASSUME NEW i \in 1 .. n - 1 PROVE r[i] = s[IF i < k THEN i ELSE i + 1]
    OBVIOUS
  <2>1. r[i] = IF i <= k - 1 THEN l[i] ELSE m[i - (k - 1)]
    BY <1>2, <1>9, <1>10, <1>11
  <2>2. CASE i < k
    BY <2>1, <2>2, <1>2, <1>9
  <2>3. CASE ~(i < k)
    <3>1. i - (k - 1) \in 1 .. n - k /\ k + (i - (k - 1)) = i + 1 /\ ~(i <= k - 1)
      BY <2>3, <1>2
    <3> QED BY <2>1, <2>3, <3>1, <1>10
  <2> QED BY <2>2, <2>3
<1>14. \A i \in 1 .. n - 1 : (IF i < k THEN i ELSE i + 1) \in (1 .. n) \ {k} BY <1>2
<1>15. Once(r)
  <2> SUFFICES ASSUME NEW i \in 1 .. n - 1, NEW j \in 1 .. n - 1, r[i] = r[j] PROVE i = j
    BY <1>12 DEF Once
  <2>1. (IF i < k THEN i ELSE i + 1) = (IF j < k THEN j ELSE j + 1)
    BY <1>13, <1>14 DEF Once, n
  <2> QED BY <2>1, <1>2
<1>16. ASSUME NEW t, In(t, r) PROVE In(t, s) /\ t # u
  BY <1>16, <1>1, <1>12, <1>13, <1>14 DEF In, Once, n
<1>17. ASSUME NEW t, In(t, s), t # u PROVE In(t, r)
  <2>1. PICK i \in 1 .. n : s[i] = t BY <1>17 DEF In, n
  <2>2. i # k BY <2>1, <1>1, <1>17
  <2>3. CASE i < k
    <3>1. i \in 1 .. n - 1 BY <2>3, <1>2
    <3> QED BY <2>1, <2>3, <3>1, <1>12, <1>13 DEF In
  <2>4. CASE ~(i < k)
    <3>1. i - 1 \in 1 .. n - 1 /\ ~(i - 1 < k) /\ (i - 1) + 1 = i BY <2>2, <2>4, <1>2
    <3> QED BY <2>1, <3>1, <1>12, <1>13 DEF In
  <2> QED BY <2>3, <2>4
<1> QED BY <1>8, <1>11, <1>15, <1>16, <1>17

(***************************************************************************)
(* The running timers are those that live, each once; outside a pass there *)
(* is no copy of the list; a timer is queued once, and not before the pass *)
(* has come to it.                                                         *)
(***************************************************************************)
States == {"unused", "live", "freed"}
TimersTypeOK ==
  /\ timer \in [Timer ->
       [state : States, interval : Nat, shotTimes : {0, 1, Forever}, passed : Nat]]
  /\ runningTimers \in Seq(Timer) /\ tempTimers \in Seq(Timer) /\ callBackList \in Seq(Timer)
  /\ fired \in [Handles -> 0 .. 2] /\ late \in [Handles -> 0 .. 2]

Before == {"none", "init", "made", "launch", "shown", "timers", "crashed"}
Turn == {"drain", "call", "device", "work", "working"}
ListInv ==
  /\ js \in Before \cup Turn \cup {"loop", "pass", "ended"}
  /\ main = "start" => js = "none"
  /\ js \in Before => ~Live(Device)
  /\ Once(runningTimers) /\ \A t \in Timer : In(t, runningTimers) <=> Live(t)
  /\ Once(tempTimers) /\ \A t \in Timer : In(t, tempTimers) => Live(t)
  /\ js # "pass" => tempTimers = <<>>

QueueInv ==
  /\ Once(callBackList)
  /\ js \notin Turn \cup {"pass"} => callBackList = <<>>
  /\ Running => callBackList # <<>>
  /\ \A t \in Timer : ~(In(t, tempTimers) /\ In(t, callBackList))

\* What was asked of a timer is still to come, waits or was done, once.
Waits(t) == In(t, callBackList) /\ ~(Running /\ t = Last(callBackList))
Count(t) == IF Waits(t) THEN 1 ELSE 0
HandleInv(t) ==
  /\ timer[t].state = "unused" => ~In(t, callBackList) /\ fired[t] = 0 /\ late[t] = 0
  /\ Live(t) /\ timer[t].shotTimes # Forever => timer[t].shotTimes + Count(t) + fired[t] = 1
  /\ Live(t) => late[t] = 0
  /\ ~Live(t) => late[t] + Count(t) <= 1
CountInv == \A t \in Handles : HandleInv(t)

TimersInv == TimersTypeOK /\ ListInv /\ QueueInv /\ CountInv

LEMMA InitTimersInv == LiteInit => TimersInv
<1> SUFFICES ASSUME LiteInit PROVE TimersInv OBVIOUS
<1> USE DEF LiteInit, TimersInit
<1>1. Unused \in [state : States, interval : Nat, shotTimes : {0, 1, Forever}, passed : Nat]
  BY DEF Unused, States
<1>2. <<>> \in Seq(Timer) BY EmptySeq
<1>3. TimersTypeOK BY <1>1, <1>2 DEF TimersTypeOK
<1>4. \A t \in Timer : timer[t].state = "unused" BY DEF Unused
<1>5. \A t \in Timer : ~Live(t) BY <1>4 DEF Live
<1>6. ListInv BY <1>5, NothingInEmpty DEF ListInv, Before, Timer
<1>7. QueueInv BY NothingInEmpty DEF QueueInv, Running
<1>8. CountInv BY <1>5, NothingInEmpty DEF CountInv, HandleInv, Count, Waits, Timer
<1> QED BY <1>3, <1>6, <1>7, <1>8 DEF TimersInv

\* What a step that leaves lists and timers alone has to keep.
LEMMA PlaceKeeps ==
  ASSUME TimersInv, UNCHANGED timers,
         js' \in Before \cup Turn \cup {"loop", "pass", "ended"},
         main' = "start" => js' = "none",
         js' \in Before => js \in Before,
         js = "pass" /\ js' # "pass" => tempTimers = <<>>,
         js \in Turn \cup {"pass"} /\ js' \notin Turn \cup {"pass"} => callBackList = <<>>,
         Running <=> Running'
  PROVE  TimersInv'
<1>1. TimersTypeOK' BY DEF TimersInv, TimersTypeOK, timers
<1>2. ListInv'
  BY DEF TimersInv, ListInv, timers, Live
<1>3. QueueInv'
  BY DEF TimersInv, QueueInv, timers
<1>4. \A t : Waits(t)' <=> Waits(t) BY DEF Waits, timers
<1>5. CountInv'
  BY <1>4 DEF TimersInv, CountInv, HandleInv, Count, timers, Live
<1> QED BY <1>1, <1>2, <1>3, <1>5 DEF TimersInv

LEMMA TickKeeps ==
  ASSUME TimersInv, Tick, UNCHANGED life PROVE TimersInv'
<1> DEFINE T == [state : States, interval : Nat, shotTimes : {0, 1, Forever}, passed : Nat]
<1>1. UNCHANGED <<runningTimers, tempTimers, callBackList, fired, late, js, main>>
  BY DEF Tick, life
<1>2. timer' = [t \in Timer |-> [timer[t] EXCEPT !.passed = IF Live(t) /\ @ < timer[t].interval
                                     THEN @ + 1 ELSE @]]
  BY DEF Tick
<1>3. ASSUME NEW t \in Timer
      PROVE  /\ timer'[t] \in T /\ timer'[t].state = timer[t].state
             /\ timer'[t].shotTimes = timer[t].shotTimes
  <2>1. timer[t] \in T BY DEF TimersInv, TimersTypeOK
  <2>2. timer'[t] = [timer[t] EXCEPT !.passed = IF Live(t) /\ timer[t].passed < timer[t].interval
                                     THEN timer[t].passed + 1 ELSE timer[t].passed]
    BY <1>2
  <2> QED BY <2>1, <2>2
<1>4. timer' \in [Timer -> T] BY <1>2, <1>3
<1>5. \A t \in Timer : /\ Live(t)' <=> Live(t)
                       /\ (timer[t].state)' = timer[t].state
                       /\ (timer[t].shotTimes)' = timer[t].shotTimes
  BY <1>3 DEF Live
<1>6. TimersTypeOK' BY <1>1, <1>4 DEF TimersInv, TimersTypeOK
<1>7. Device \in Timer /\ Handles \subseteq Timer BY DEF Timer
<1>8. ListInv' BY <1>1, <1>5, <1>7 DEF TimersInv, ListInv
<1>9. QueueInv' BY <1>1 DEF TimersInv, QueueInv, Running
<1>10. \A t : Waits(t)' <=> Waits(t) BY <1>1 DEF Waits, Running
<1>11. CountInv'
  BY <1>1, <1>5, <1>7, <1>10 DEF TimersInv, CountInv, HandleInv, Count
<1> QED BY <1>6, <1>8, <1>9, <1>11 DEF TimersInv

\* A timer that is started is listed, once because it was not before.
LEMMA StartedKeeps ==
  ASSUME TimersInv, NEW t \in Timer, ~Live(t), t \in Handles => timer[t].state = "unused",
         NEW delay \in Nat, NEW shots \in {1, Forever},
         timer' = [timer EXCEPT ![t] = NewTimer(delay, shots)],
         runningTimers' = Append(runningTimers, t),
         UNCHANGED <<tempTimers, callBackList, fired, late, main>>,
         js' \in Before \cup Turn \cup {"loop", "ended"},
         js # "pass", main # "start",
         (js' = js) \/ (js = "timers" /\ js' = "loop"),
         js' \in Before => t # Device
  PROVE  TimersInv'
<1> DEFINE T == [state : States, interval : Nat, shotTimes : {0, 1, Forever}, passed : Nat]
<1>1. NewTimer(delay, shots) \in T /\ NewTimer(delay, shots).state = "live"
      /\ NewTimer(delay, shots).shotTimes = shots
  BY DEF NewTimer, States
<1>2. runningTimers \in Seq(Timer) /\ timer \in [Timer -> T]
  BY DEF TimersInv, TimersTypeOK
<1>3. ~In(t, runningTimers) BY <1>2 DEF TimersInv, ListInv
<1>4. /\ runningTimers' \in Seq(Timer) /\ Once(runningTimers')
      /\ \A u : In(u, runningTimers') <=> In(u, runningTimers) \/ u = t
  BY <1>2, <1>3, OnceAppend DEF TimersInv, ListInv
<1>5. timer' \in [Timer -> T] BY <1>1, <1>2
<1>6. \A u \in Timer : u # t => timer'[u] = timer[u] BY <1>2
<1>7. timer'[t] = NewTimer(delay, shots) BY <1>2
<1>8. \A u \in Timer : Live(u)' <=> Live(u) \/ u = t BY <1>1, <1>6, <1>7 DEF Live
<1>9. TimersTypeOK' BY <1>4, <1>5 DEF TimersInv, TimersTypeOK
<1>10. Device \in Timer /\ Handles \subseteq Timer BY DEF Timer
<1>11. ListInv'
  BY <1>4, <1>8, <1>10 DEF TimersInv, ListInv, Before
<1>12. Running' <=> Running BY DEF Running
<1>13. QueueInv' BY <1>12 DEF TimersInv, QueueInv, Turn
<1>14. \A u : Waits(u)' <=> Waits(u) BY <1>12 DEF Waits
<1>15. ASSUME NEW u \in Handles PROVE HandleInv(u)'
  <2>1. CASE u # t
    BY <2>1, <1>6, <1>8, <1>10, <1>14 DEF TimersInv, CountInv, HandleInv, Count
  <2>2. CASE u = t
    <3>1. ~In(t, callBackList) /\ fired[t] = 0 /\ late[t] = 0 BY <2>2 DEF TimersInv, CountInv, HandleInv
    <3>2. ~Waits(t)' BY <3>1, <1>14 DEF Waits
    <3>3. (timer[t].shotTimes)' = shots /\ (timer[t].state)' = "live" BY <1>1, <1>7
    <3>4. (timer[t].shotTimes # Forever)' => (timer[t].shotTimes)' = 1 BY <3>3
    <3> QED BY <2>2, <3>1, <3>2, <3>3, <3>4 DEF HandleInv, Count, Live
  <2> QED BY <2>1, <2>2
<1>16. CountInv' BY <1>15 DEF CountInv
<1> QED BY <1>9, <1>11, <1>13, <1>16 DEF TimersInv

\* A timer that is freed leaves the list; nobody walks it then.
LEMMA StopKeeps ==
  ASSUME TimersInv, NEW t \in Handles, StopTimerTask(t), js # "pass", UNCHANGED life
  PROVE  TimersInv'
<1> DEFINE T == [state : States, interval : Nat, shotTimes : {0, 1, Forever}, passed : Nat]
           F == [Unused EXCEPT !.state = "freed"]
<1>1. /\ Live(t) /\ timer' = [timer EXCEPT ![t] = F]
      /\ runningTimers' = RemoveFirst(runningTimers, t)
      /\ UNCHANGED <<tempTimers, callBackList, fired, late, js, main>>
  BY DEF StopTimerTask, life
<1>2. F \in T /\ F.state = "freed" BY DEF Unused, States
<1> HIDE DEF F
<1>3. runningTimers \in Seq(Timer) /\ timer \in [Timer -> T] /\ t \in Timer
  BY DEF TimersInv, TimersTypeOK, Timer
<1>4. Once(runningTimers) /\ In(t, runningTimers) BY <1>1, <1>3 DEF TimersInv, ListInv
<1>5. /\ runningTimers' \in Seq(Timer) /\ Once(runningTimers')
      /\ \A u : In(u, runningTimers') <=> In(u, runningTimers) /\ u # t
  BY <1>1, <1>3, <1>4, OnceRemove
<1>6. timer' \in [Timer -> T] BY <1>1, <1>2, <1>3
<1>7. \A u \in Timer : u # t => timer'[u] = timer[u] BY <1>1, <1>3
<1>8. timer'[t].state = "freed" BY <1>1, <1>2, <1>3
<1>9. \A u \in Timer : Live(u)' <=> Live(u) /\ u # t BY <1>7, <1>8 DEF Live
<1>10. TimersTypeOK' BY <1>1, <1>5, <1>6 DEF TimersInv, TimersTypeOK
<1>11. Device \in Timer /\ Handles \subseteq Timer BY DEF Timer
<1>12. tempTimers = <<>> BY DEF TimersInv, ListInv
<1>13. ListInv'
  BY <1>1, <1>5, <1>9, <1>11, <1>12, NothingInEmpty DEF TimersInv, ListInv
<1>14. Running' <=> Running BY <1>1 DEF Running
<1>15. QueueInv' BY <1>1, <1>14 DEF TimersInv, QueueInv
<1>16. \A u : Waits(u)' <=> Waits(u) BY <1>1, <1>14 DEF Waits
<1>17. ASSUME NEW u \in Handles PROVE HandleInv(u)'
  <2>1. CASE u # t
    BY <2>1, <1>1, <1>7, <1>9, <1>11, <1>16 DEF TimersInv, CountInv, HandleInv, Count
  <2>2. CASE u = t
    <3>1. late[t] = 0 BY <1>1 DEF TimersInv, CountInv, HandleInv
    <3>2. ~Live(t)' BY <1>9, <1>3
    <3> QED BY <2>2, <3>1, <3>2, <1>1, <1>8 DEF HandleInv, Count, Live
  <2> QED BY <2>1, <2>2
<1>18. CountInv' BY <1>17 DEF CountInv
<1> QED BY <1>10, <1>13, <1>15, <1>18 DEF TimersInv

\* The pass walks the timers that live, with an empty queue.
LEMMA PassKeeps ==
  ASSUME TimersInv, RunTimerTick, UNCHANGED life PROVE TimersInv'
<1>1. /\ js = "loop" /\ js' = "pass" /\ tempTimers' = runningTimers
      /\ UNCHANGED <<timer, runningTimers, callBackList, fired, late, main>>
  BY DEF RunTimerTick, life
<1>2. callBackList = <<>> BY <1>1 DEF TimersInv, QueueInv, Turn
<1>3. TimersTypeOK' BY <1>1 DEF TimersInv, TimersTypeOK
<1>4. ListInv' BY <1>1 DEF TimersInv, ListInv, Before, Live
<1>5. ~Running /\ ~Running' BY <1>1 DEF Running
<1>6. QueueInv' BY <1>1, <1>2, <1>5, NothingInEmpty DEF TimersInv, QueueInv
<1>7. \A t : Waits(t)' <=> Waits(t) BY <1>1, <1>5 DEF Waits
<1>8. CountInv' BY <1>1, <1>7 DEF TimersInv, CountInv, HandleInv, Count, Live
<1> QED BY <1>3, <1>4, <1>6, <1>8 DEF TimersInv

\* A timer that expired is queued and has one shot less; it was not queued
\* before, and the pass does not come back to it.
LEMMA LookKeeps ==
  ASSUME TimersInv, LookAtTimer, UNCHANGED life PROVE TimersInv'
<1>0. PICK t : t = Head(tempTimers)
  OBVIOUS
<1> DEFINE T == [state : States, interval : Nat, shotTimes : {0, 1, Forever}, passed : Nat]
           shots == IF timer[t].shotTimes = 1 THEN 0 ELSE timer[t].shotTimes
           next == [timer[t] EXCEPT !.passed = 0, !.shotTimes = shots]
<1>1. /\ js = "pass" /\ tempTimers # <<>> /\ tempTimers' = Tail(tempTimers)
      /\ UNCHANGED <<runningTimers, fired, late, js, main>>
  BY DEF LookAtTimer, life
<1>2. tempTimers \in Seq(Timer) /\ Once(tempTimers) /\ timer \in [Timer -> T]
  BY DEF TimersInv, TimersTypeOK, ListInv
<1>3. /\ t \in Timer /\ In(t, tempTimers) /\ tempTimers' \in Seq(Timer) /\ Once(tempTimers')
      /\ \A u : In(u, tempTimers') <=> In(u, tempTimers) /\ u # t
  BY <1>0, <1>1, <1>2, OnceTail
<1>4. \/ Expired(t) /\ callBackList' = Append(callBackList, t)
         /\ timer' = [timer EXCEPT ![t].passed = 0, ![t].shotTimes = IF @ = 1 THEN 0 ELSE @]
      \/ ~Expired(t) /\ UNCHANGED <<callBackList, timer>>
  BY <1>0 DEF LookAtTimer
<1>5. ~Running /\ ~Running' BY <1>1 DEF Running
<1>6. Device \in Timer /\ Handles \subseteq Timer BY DEF Timer
<1>7. CASE UNCHANGED <<callBackList, timer>>
  <2>1. TimersTypeOK' BY <1>1, <1>3, <1>7 DEF TimersInv, TimersTypeOK
  <2>2. ListInv' BY <1>1, <1>3, <1>7 DEF TimersInv, ListInv, Live
  <2>3. QueueInv' BY <1>1, <1>3, <1>5, <1>7 DEF TimersInv, QueueInv
  <2>4. \A u : Waits(u)' <=> Waits(u) BY <1>5, <1>7 DEF Waits
  <2>5. CountInv' BY <1>1, <1>7, <2>4 DEF TimersInv, CountInv, HandleInv, Count, Live
  <2> QED BY <2>1, <2>2, <2>3, <2>5 DEF TimersInv
<1>8. CASE /\ Expired(t) /\ callBackList' = Append(callBackList, t)
           /\ timer' = [timer EXCEPT ![t].passed = 0, ![t].shotTimes = IF @ = 1 THEN 0 ELSE @]
  <2>1. timer[t] \in T BY <1>2, <1>3
  <2>2. timer[t].shotTimes # 0 BY <1>8 DEF Expired
  <2>3. timer' = [timer EXCEPT ![t] = next] BY <1>8, <1>2, <1>3, <2>1
  <2>4. /\ next \in T /\ next.state = timer[t].state
        /\ next.shotTimes = IF timer[t].shotTimes = 1 THEN 0 ELSE timer[t].shotTimes
    BY <2>1
  <2> HIDE DEF next
  <2>5. /\ timer' \in [Timer -> T] /\ timer'[t] = next
        /\ \A u \in Timer : u # t => timer'[u] = timer[u]
    BY <1>2, <1>3, <2>3, <2>4
  <2>6. \A u \in Timer : Live(u)' <=> Live(u) BY <2>4, <2>5 DEF Live
  <2>7. Live(t) /\ ~In(t, callBackList) /\ callBackList \in Seq(Timer) /\ Once(callBackList)
    BY <1>3 DEF TimersInv, ListInv, QueueInv, TimersTypeOK
  <2>8. /\ callBackList' \in Seq(Timer) /\ Once(callBackList') /\ callBackList' # <<>>
        /\ \A u : In(u, callBackList') <=> In(u, callBackList) \/ u = t
    BY <1>3, <1>8, <2>7, OnceAppend, AppendProperties
  <2>9. TimersTypeOK' BY <1>1, <1>3, <2>5, <2>8 DEF TimersInv, TimersTypeOK
  <2>10. ListInv' BY <1>1, <1>3, <1>6, <2>6 DEF TimersInv, ListInv
  <2>11. QueueInv' BY <1>1, <1>3, <1>5, <2>8 DEF TimersInv, QueueInv
  <2>12. \A u : Waits(u)' <=> Waits(u) \/ u = t BY <1>5, <2>8 DEF Waits
  <2>13. ASSUME NEW u \in Handles PROVE HandleInv(u)'
    <3>1. CASE u # t
      BY <3>1, <1>1, <1>6, <2>5, <2>6, <2>8, <2>12 DEF TimersInv, CountInv, HandleInv, Count
    <3>2. CASE u = t
      <4>1. Live(t)' /\ (timer[t].state)' = "live" BY <3>2, <1>6, <2>4, <2>5, <2>7 DEF Live
      <4>2. late[t] = 0 BY <3>2, <2>7 DEF TimersInv, CountInv, HandleInv
      <4>3. (timer[t].shotTimes)' # Forever => timer[t].shotTimes = 1 /\ (timer[t].shotTimes)' = 0
        BY <2>1, <2>2, <2>4, <2>5
      <4>4. ~Waits(t) /\ Waits(t)' BY <2>7, <2>12 DEF Waits
      <4>5. timer[t].shotTimes = 1 => fired[t] = 0
        <5>1. fired \in [Handles -> 0 .. 2] BY DEF TimersInv, TimersTypeOK
        <5>2. fired[t] \in Nat BY <3>2, <5>1
        <5>3. timer[t].shotTimes = 1 => 1 + 0 + fired[t] = 1
          BY <3>2, <2>7, <4>4 DEF TimersInv, CountInv, HandleInv, Count, Forever
        <5> QED BY <5>2, <5>3
      <4> QED BY <3>2, <1>1, <4>1, <4>2, <4>3, <4>4, <4>5 DEF HandleInv, Count
    <3> QED BY <3>1, <3>2
  <2>14. CountInv' BY <2>13 DEF CountInv
  <2> QED BY <2>9, <2>10, <2>11, <2>14 DEF TimersInv
<1> QED BY <1>4, <1>7, <1>8

\* What waited at the back of the queue is done now.
LEMMA CallbackKeeps ==
  ASSUME TimersInv, RunCallback, UNCHANGED life PROVE TimersInv'
<1> DEFINE t == Last(callBackList)
<1>1. /\ js = "drain" /\ js' \in {"device", "call"} /\ callBackList # <<>>
      /\ UNCHANGED <<timer, runningTimers, tempTimers, callBackList, main>>
      /\ fired' = [u \in Handles |-> IF u = t THEN AtMostTwo(fired[u]) ELSE fired[u]]
      /\ late' = [u \in Handles |-> IF u = t /\ ~Live(u) THEN AtMostTwo(late[u]) ELSE late[u]]
  BY DEF RunCallback, life
<1>2. callBackList \in Seq(Timer) /\ Once(callBackList)
  BY DEF TimersInv, TimersTypeOK, QueueInv
<1>3. t \in Timer /\ In(t, callBackList) BY <1>1, <1>2, OnceFront
<1> HIDE DEF t
<1>4. \A n \in 0 .. 2 : AtMostTwo(n) \in 0 .. 2 BY DEF AtMostTwo
<1>5. fired \in [Handles -> 0 .. 2] /\ late \in [Handles -> 0 .. 2] BY DEF TimersInv, TimersTypeOK
<1>6. fired' \in [Handles -> 0 .. 2] /\ late' \in [Handles -> 0 .. 2] BY <1>1, <1>4, <1>5
<1>7. TimersTypeOK' BY <1>1, <1>6 DEF TimersInv, TimersTypeOK
<1>8. ListInv' BY <1>1 DEF TimersInv, ListInv, Before, Turn, Live
<1>9. ~Running /\ Running' BY <1>1 DEF Running
<1>10. QueueInv' BY <1>1, <1>9 DEF TimersInv, QueueInv, Turn
<1>11. \A u : Waits(u)' <=> Waits(u) /\ u # t BY <1>1, <1>9 DEF Waits, t
<1>12. Waits(t) BY <1>3, <1>9 DEF Waits
<1>13. ASSUME NEW u \in Handles PROVE HandleInv(u)'
  <2>1. CASE u # t
    <3>1. fired'[u] = fired[u] /\ late'[u] = late[u] BY <2>1, <1>1
    <3> QED BY <2>1, <3>1, <1>1, <1>11 DEF TimersInv, CountInv, HandleInv, Count, Live
  <2>2. CASE u = t
    <3>1. /\ fired'[u] = AtMostTwo(fired[u])
          /\ late'[u] = IF Live(u) THEN late[u] ELSE AtMostTwo(late[u])
      BY <2>2, <1>1
    <3>2. /\ timer[u].state # "unused"
          /\ Live(u) /\ timer[u].shotTimes # Forever => timer[u].shotTimes + 1 + fired[u] = 1
          /\ Live(u) => late[u] = 0
          /\ ~Live(u) => late[u] + 1 <= 1
      BY <2>2, <1>3, <1>12 DEF TimersInv, CountInv, HandleInv, Count
    <3>3. timer[u].shotTimes \in {0, 1, Forever} /\ fired[u] \in 0 .. 2 /\ late[u] \in 0 .. 2
      BY <1>5 DEF TimersInv, TimersTypeOK, Timer
    <3>4. Live(u) /\ timer[u].shotTimes # Forever => timer[u].shotTimes = 0 /\ fired'[u] = 1
      BY <3>1, <3>2, <3>3 DEF AtMostTwo, Forever
    <3>5. ~Live(u) => late'[u] = 1 BY <3>1, <3>2, <3>3 DEF AtMostTwo
    <3>6. (Live(u)' <=> Live(u)) /\ (timer[u])' = timer[u] /\ Count(u)' = 0
      BY <2>2, <1>1, <1>11 DEF Live, Count
    <3> QED BY <1>1, <3>1, <3>2, <3>4, <3>5, <3>6 DEF HandleInv
  <2> QED BY <2>1, <2>2
<1>14. CountInv' BY <1>13 DEF CountInv
<1> QED BY <1>7, <1>8, <1>10, <1>14 DEF TimersInv

\* The callback that is removed is the one that ran, whatever was started or
\* stopped meanwhile.
LEMMA EndCallbackKeeps ==
  ASSUME TimersInv, EndCallback, UNCHANGED life PROVE TimersInv'
<1>1. /\ js \in {"call", "work"} /\ js' = "drain" /\ callBackList' = Front(callBackList)
      /\ UNCHANGED <<timer, runningTimers, tempTimers, fired, late, main>>
  BY DEF EndCallback, life
<1>2. Running /\ ~Running' BY <1>1 DEF Running
<1>3. callBackList \in Seq(Timer) /\ Once(callBackList) /\ callBackList # <<>>
  BY <1>2 DEF TimersInv, TimersTypeOK, QueueInv
<1>4. /\ callBackList' \in Seq(Timer) /\ Once(callBackList')
      /\ \A t : In(t, callBackList') <=> In(t, callBackList) /\ t # Last(callBackList)
  BY <1>1, <1>3, OnceFront
<1>5. TimersTypeOK' BY <1>1, <1>4 DEF TimersInv, TimersTypeOK
<1>6. ListInv' BY <1>1 DEF TimersInv, ListInv, Before, Turn, Live
<1>7. QueueInv' BY <1>1, <1>2, <1>4 DEF TimersInv, QueueInv, Turn
<1>8. \A t : Waits(t)' <=> Waits(t) BY <1>2, <1>4 DEF Waits
<1>9. CountInv' BY <1>1, <1>4, <1>8 DEF TimersInv, CountInv, HandleInv, Count, Live
<1> QED BY <1>5, <1>6, <1>7, <1>9 DEF TimersInv

LEMMA TimersNext == TimersInv /\ [LiteNext]_allVars => TimersInv'
<1> SUFFICES ASSUME TimersInv, [LiteNext]_allVars PROVE TimersInv'
  OBVIOUS
<1>0. js \in Before \cup Turn \cup {"loop", "pass", "ended"} /\ (main = "start" => js = "none")
  BY DEF TimersInv, ListInv
\* Steps of the main thread leave the lists and the JS thread alone.
<1>1. ASSUME UNCHANGED timers, UNCHANGED js, main' # "start" \/ main' = main PROVE TimersInv'
  BY <1>0, <1>1, PlaceKeeps DEF Running
<1>2. CASE Start
  BY <1>0, <1>2, PlaceKeeps DEF Start, Running, Before, Turn
<1>3. CASE Exit
  BY <1>1, <1>3 DEF Exit
<1>4. CASE Stop
  <2>1. CASE ClearWork
    BY <1>1, <2>1 DEF ClearWork, ClearAllAsyncWork
  <2>2. CASE NoAbility \/ Destroy \/ SetFinished \/ SetInterrupt
    BY <1>1, <2>2 DEF NoAbility, Destroy, SetFinished, SetInterrupt
  <2>3. CASE Sleep \/ StopFinished \/ Return
    BY <1>1, <2>3 DEF Sleep, StopFinished, Return
  <2> QED BY <1>4, <2>1, <2>2, <2>3 DEF Stop
<1>5. CASE MakeAbility \/ Launch \/ Show \/ Launched
  BY <1>0, <1>5, PlaceKeeps
  DEF MakeAbility, Launch, Show, Launched, Through, life, Running, Before, Turn
<1>6. CASE EndThread
  BY <1>0, <1>6, PlaceKeeps DEF EndThread, life, Running, Before, Turn
<1>7. CASE InitTimer /\ UNCHANGED life
  <2>1. /\ js = "timers" /\ js' = "loop" /\ main # "start" /\ ~Live(Device) /\ Device \in Timer
        /\ timer' = [timer EXCEPT ![Device] = NewTimer(DeviceDelay, Forever)]
        /\ runningTimers' = Append(runningTimers, Device)
        /\ UNCHANGED <<tempTimers, callBackList, fired, late, main>>
    BY <1>0, <1>7 DEF InitTimer, life, TimersInv, ListInv, Before, Timer
  <2>2. DeviceDelay \in Nat /\ Device \notin Handles BY TimersAssumption DEF TimersAssumption
  <2> QED BY <2>1, <2>2, StartedKeeps DEF Before
<1>8. CASE TimerTurn /\ UNCHANGED life
  <2>1. CASE ConsumingCallback \/ EndTick
    BY <1>0, <1>8, <2>1, PlaceKeeps
    DEF ConsumingCallback, EndTick, life, Running, Before, Turn
  <2>2. CASE ExecAllAsyncWork \/ RunWork \/ EndWork
    BY <1>0, <1>8, <2>2, PlaceKeeps
    DEF ExecAllAsyncWork, RunWork, EndWork, life, Running, Before, Turn
  <2> QED BY <1>8, <2>1, <2>2, LookKeeps, CallbackKeeps, EndCallbackKeeps DEF TimerTurn
<1>9. CASE RunTimerTick /\ UNCHANGED life
  BY <1>9, PassKeeps
<1>10. CASE RunAppCode
  <2>1. js \in {"launch", "call", "device", "working"} /\ UNCHANGED life /\ main # "start"
    BY <1>0, <1>10 DEF RunAppCode
  <2>2. CASE DispatchAsyncWork
    BY <1>1, <2>1, <2>2 DEF DispatchAsyncWork, life
  <2>3. ASSUME NEW t \in Handles, NEW delay \in Delays, NEW shots \in {1, Forever},
               StartTimerTask(t, delay, shots)
        PROVE  TimersInv'
    <3>1. /\ timer[t].state = "unused" /\ timer' = [timer EXCEPT ![t] = NewTimer(delay, shots)]
          /\ runningTimers' = Append(runningTimers, t)
          /\ UNCHANGED <<tempTimers, callBackList, fired, late, js, main>>
      BY <2>1, <2>3 DEF StartTimerTask, Unused, life
    <3>2. t \in Timer /\ t # Device /\ delay \in Nat /\ ~Live(t)
      BY <3>1, TimersAssumption DEF TimersAssumption, Timer, Live
    <3> QED BY <2>1, <3>1, <3>2, StartedKeeps DEF Before, Turn
  <2>4. ASSUME NEW t \in Handles, StopTimerTask(t) PROVE TimersInv'
    BY <2>1, <2>4, StopKeeps
  <2> QED BY <1>10, <2>2, <2>3, <2>4 DEF RunAppCode, AppCode
<1>11. CASE Tick /\ UNCHANGED life
  BY <1>11, TickKeeps
<1>12. CASE UNCHANGED allVars
  BY <1>1, <1>12 DEF allVars, life
<1> QED BY <1>2, <1>3, <1>4, <1>5, <1>6, <1>7, <1>8, <1>9, <1>10, <1>11, <1>12
        DEF LiteNext, ThreadCallBack

\* No timer that was freed is looked at: StopTimerTask takes it off the list,
\* and no callback runs while a copy of the list is walked.
THEOREM LiteTimersAlive == LiteSpec => []TimersAlive
<1>1. TimersInv => TimersAlive
  <2> SUFFICES ASSUME TimersInv, NEW t \in ToSet(runningTimers) \cup ToSet(tempTimers) PROVE Live(t)
    BY DEF TimersAlive
  <2>1. runningTimers \in Seq(Timer) /\ tempTimers \in Seq(Timer)
    BY DEF TimersInv, TimersTypeOK
  <2>2. DOMAIN runningTimers = 1 .. Len(runningTimers) /\ DOMAIN tempTimers = 1 .. Len(tempTimers)
    BY <2>1, LenProperties
  <2>3. (In(t, runningTimers) \/ In(t, tempTimers)) /\ t \in Timer
    BY <2>1, <2>2, ElementOfSeq DEF ToSet, In
  <2> QED BY <2>3 DEF TimersInv, ListInv
<1> QED BY <1>1, InitTimersInv, TimersNext, PTL DEF LiteSpec

\* A one-shot timer fires once and a stopped one at most once more, in
\* whatever order callbacks start and stop timers while the queue runs.
THEOREM LiteFiresAsAsked == LiteSpec => []FiresAsAsked
<1>1. ASSUME TimersInv, NEW t \in Handles PROVE Waiting(t) = Count(t)
  <2> DEFINE n == Len(callBackList)
             m == n - (IF Running THEN 1 ELSE 0)
             W == {i \in 1 .. m : callBackList[i] = t}
  <2>1. callBackList \in Seq(Timer) /\ Once(callBackList) /\ (Running => callBackList # <<>>)
    BY <1>1 DEF TimersInv, TimersTypeOK, QueueInv
  <2>2. n \in Nat /\ (callBackList # <<>> => n # 0) BY <2>1, LenProperties, EmptySeq
  <2>3. \A i \in 1 .. n : i \in 1 .. m <=> ~(Running /\ i = n) BY <2>1, <2>2
  <2>4. \A i \in 1 .. m : i \in 1 .. n BY <2>1, <2>2
  <2> HIDE DEF m
  <2>5. Last(callBackList) = callBackList[n] /\ (Running => n \in 1 .. n) BY <2>1, <2>2 DEF Last
  <2>6. CASE Waits(t)
    <3>1. PICK i \in 1 .. n : callBackList[i] = t BY <2>6 DEF Waits, In
    <3>2. i \in 1 .. m BY <3>1, <2>3, <2>5, <2>6 DEF Waits
    <3>3. W = {i} BY <3>1, <3>2, <2>1, <2>4 DEF Once
    <3>4. Cardinality(W) = 1 BY <3>3, FS_Singleton
    <3> QED BY <3>4, <2>6 DEF Waiting, Count, m
  <2>7. CASE ~Waits(t)
    <3>1. W = {}
      <4> SUFFICES ASSUME NEW i \in 1 .. m, callBackList[i] = t PROVE FALSE
        OBVIOUS
      <4>1. i \in 1 .. n /\ ~(Running /\ i = n) BY <2>3, <2>4
      <4>2. Running => i = n BY <4>1, <2>1, <2>5, <2>7 DEF Waits, In, Once
      <4> QED BY <4>1, <4>2, <2>7 DEF Waits, In
    <3>2. Cardinality(W) = 0 BY <3>1, FS_EmptySet
    <3> QED BY <3>2, <2>7 DEF Waiting, Count, m
  <2> QED BY <2>6, <2>7
<1>2. TimersInv => FiresAsAsked
  <2> SUFFICES ASSUME TimersInv, NEW t \in Handles
               PROVE  /\ (Live(t) /\ timer[t].shotTimes # Forever) =>
                           timer[t].shotTimes + Waiting(t) + fired[t] = 1
                      /\ late[t] + (IF Live(t) THEN 0 ELSE Waiting(t)) <= 1
    BY DEF FiresAsAsked
  <2>1. Waiting(t) = Count(t) BY <1>1
  <2> QED BY <2>1 DEF TimersInv, CountInv, HandleInv
<1> QED BY <1>2, InitTimersInv, TimersNext, PTL DEF LiteSpec
================================================================================
